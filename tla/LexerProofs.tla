----------------------------- MODULE LexerProofs -----------------------------
(***************************************************************************)
(* Theorems about Lexer for every set of texts, whichever characters       *)
(* isalpha and isdigit accept and however wide int and long are.           *)
(***************************************************************************)
EXTENDS Lexemes, FiniteSetTheorems, SequenceTheorems, WellFoundedInduction, TLAPS

-----------------------------------------------------------------------------
(* Lemmas about scanning.                                                  *)

(* Loops that stop at the first place of a kind: a set of places that is   *)
(* not empty has a first one.                                              *)
LEMMA FirstPlace ==
  ASSUME NEW S, S \subseteq Nat, S # {}
  PROVE  \E x \in S : \A y \in S : x <= y
<1>1. PICK x \in S : \A y \in S : ~ (<<y, x>> \in OpToRel(<, Nat))
  BY NatLessThanWellFounded, WFMin
<1>2. ASSUME NEW y \in S PROVE x <= y
  <2>1. ~ (y < x)
    BY <1>1 DEF OpToRel
  <2>2. QED BY <2>1
<1>3. QED BY <1>2

LEMMA MinPlace ==
  ASSUME NEW S, S \subseteq Nat, S # {}
  PROVE  Min(S) \in S
  BY FirstPlace DEF Min

LEMMA TextLength ==
  ASSUME text \in Texts
  PROVE  Len(text) \in Nat
  BY TextsAreSequences, LenProperties

(* A place with another character than the terminator is in the text.      *)
LEMMA InsideText ==
  ASSUME NEW i, NEW c, Char(i) = c, c # NUL
  PROVE  i \in 1..Len(text)
  BY DEF Char

LEMMA BehindText ==
  ASSUME text \in Texts
  PROVE  Char(Len(text) + 1) = NUL
  BY TextLength DEF Char

(* A loop over a class of characters that the terminator is not in ends at *)
(* the terminator at the latest.                                           *)
LEMMA AfterStays ==
  ASSUME text \in Texts, NEW i \in 1..(Len(text) + 1), NEW S, NUL \notin S
  PROVE  /\ After(i, S) \in i..(Len(text) + 1)
         /\ Char(After(i, S)) \notin S
         /\ \A k \in i..(After(i, S) - 1) : Char(k) \in S
<1> DEFINE Stops == {j \in i..(Len(text) + 1) : Char(j) \notin S}
<1>1. Len(text) \in Nat /\ i \in Nat
  BY TextLength
<1>2. Len(text) + 1 \in Stops
  BY <1>1, BehindText
<1>3. PICK j \in Stops : \A k \in Stops : j <= k
  <2>1. Stops \subseteq Nat
    BY <1>1
  <2> HIDE DEF Stops
  <2>2. QED BY <1>2, <2>1, FirstPlace
<1>4. \A k \in i..(j - 1) : Char(k) \in S
  BY <1>1, <1>3
<1>5. QED BY <1>1, <1>3, <1>4 DEF After

LEMMA Visible == \A c \in {"/", "*", "'", ".", "e", "E", "+", "-"} : c # NUL
  BY DEF NUL

LEMMA Classes ==
  /\ NUL \notin Digit /\ NUL \notin WordChars
  /\ Digit \cap Breaks = {} /\ WordChars \cap Breaks = {}
  BY CharactersAssumption DEF NUL, Digit, WordChars, Breaks

(* The line breaks of a part of the text are a number.                     *)
LEMMA CountOfPlaces ==
  ASSUME NEW a \in Int, NEW b \in Int, NEW S, S \subseteq a..b
  PROVE  Cardinality(S) \in Nat
  BY FS_Interval, FS_Subset, FS_CardinalityType

BreakAt(k) == Char(k) = "\n" \/ (Char(k) = "\r" /\ Char(k + 1) # "\n")
BreakPlaces(i, j) == {k \in i..(j - 1) : BreakAt(k)}

LEMMA BreaksCounted ==
  ASSUME NEW i \in Int, NEW j \in Int
  PROVE  /\ BreaksBetween(i, j) = Cardinality(BreakPlaces(i, j))
         /\ IsFiniteSet(BreakPlaces(i, j)) /\ BreaksBetween(i, j) \in Nat
<1>1. BreakPlaces(i, j) \subseteq i..(j - 1) /\ j - 1 \in Int
  BY DEF BreakPlaces
<1>2. BreaksBetween(i, j) = Cardinality(BreakPlaces(i, j))
  BY DEF BreaksBetween, BreakPlaces, BreakAt
<1>3. IsFiniteSet(BreakPlaces(i, j))
  BY <1>1, FS_Interval, FS_Subset
<1>4. QED BY <1>2, <1>3, FS_CardinalityType

NoBreaks(i, j) == \A k \in i..(j - 1) : Char(k) \notin Breaks

LEMMA BreaksNone ==
  ASSUME NEW i \in Int, NEW j \in Int, NoBreaks(i, j)
  PROVE  BreaksBetween(i, j) = 0
<1>1. BreakPlaces(i, j) = {}
  BY DEF BreakPlaces, BreakAt, NoBreaks, Breaks
<1>2. QED BY <1>1, BreaksCounted, FS_EmptySet

(* The breaks of a text are those of its beginning and those of the rest.  *)
LEMMA BreaksAdd ==
  ASSUME NEW i \in Int, NEW j \in Int, NEW k \in Int, i <= j, j <= k
  PROVE  BreaksBetween(i, k) = BreaksBetween(i, j) + BreaksBetween(j, k)
<1>1. BreakPlaces(i, k) = BreakPlaces(i, j) \cup BreakPlaces(j, k)
  BY DEF BreakPlaces
<1>2. BreakPlaces(i, j) \cap BreakPlaces(j, k) = {}
  BY DEF BreakPlaces
<1>3. IsFiniteSet(BreakPlaces(i, j)) /\ IsFiniteSet(BreakPlaces(j, k))
  BY BreaksCounted
<1>4. Cardinality(BreakPlaces(i, k)) = Cardinality(BreakPlaces(i, j)) + Cardinality(BreakPlaces(j, k)) - Cardinality({})
  BY <1>1, <1>2, <1>3, FS_Union
<1>5. QED BY <1>4, BreaksCounted, FS_EmptySet
-----------------------------------------------------------------------------
(* The inductive invariant: the text is one of the texts, and the tokens   *)
(* are a sequence whose places are numbers.                                *)
Sequential ==
  /\ text \in Texts
  /\ \E T : tokens \in Seq(T)
  /\ \A k \in DOMAIN tokens : tokens[k].from \in Nat /\ tokens[k].to \in Nat
IInv == TypeOK /\ Sequential

LEMMA Places ==
  ASSUME IInv
  PROVE  text \in Texts /\ Len(text) \in Nat /\ at \in 1..(Len(text) + 1) /\ at \in Nat /\ line \in Nat
  BY TextLength DEF IInv, Sequential, TypeOK

Forward == at' > at \/ status' # "reading"

LEMMA InitInv == Init => IInv
<1> SUFFICES ASSUME Init PROVE IInv
  OBVIOUS
<1>1. Len(text) \in Nat
  BY TextLength DEF Init
<1>2. tokens \in Seq({}) /\ DOMAIN tokens = {}
  BY DEF Init
<1>3. QED BY <1>1, <1>2 DEF Init, IInv, TypeOK, Sequential

(* Skipping to a place that lies ahead inside the text.                    *)
LEMMA SkipStep ==
  ASSUME IInv, NEW to \in at..(Len(text) + 1), NEW lines \in Nat, Skip(to, lines)
  PROVE  IInv'
<1>1. Len(text) \in Nat /\ at \in Nat /\ to \in Nat /\ line \in Nat
  BY TextLength DEF IInv, Sequential, TypeOK
<1>2. text' = text /\ tokens' = tokens /\ status' = status /\ at' = to /\ line' = line + lines
  BY DEF Skip
<1>3. at' \in 1..(Len(text') + 1) /\ line' \in Nat \ {0}
  BY <1>1, <1>2 DEF IInv, TypeOK
<1>4. ASSUME NEW k \in DOMAIN tokens
      PROVE  tokens[k].to <= at' /\ tokens[k].line \in 1..line'
  BY <1>1, <1>2 DEF IInv, TypeOK, Sequential
<1>5. TypeOK'
  BY <1>2, <1>3, <1>4 DEF IInv, TypeOK
<1>6. QED BY <1>2, <1>5 DEF IInv, Sequential

LEMMA FailStep ==
  ASSUME IInv, Fail
  PROVE  IInv' /\ Forward
  BY DEF IInv, TypeOK, Sequential, Fail, Forward

(* A token e is put behind the others.                                     *)
LEMMA AppendStep ==
  ASSUME IInv, NEW e, tokens' = Append(tokens, e), text' = text,
         at' \in at..(Len(text) + 1), line' \in Nat, line <= line',
         status' \in {"reading", "done", "error"},
         e.from = at, e.to = at', e.line = line'
  PROVE  IInv'
<1>1. Len(text) \in Nat /\ at \in Nat /\ at' \in Nat /\ line \in Nat \ {0}
  BY TextLength DEF IInv, Sequential, TypeOK
<1> DEFINE n == Len(tokens)
<1>2. PICK S : tokens \in Seq(S)
  BY DEF IInv, Sequential
<1>3. tokens \in Seq(S \cup {e})
  BY <1>2, SeqMonotonic
<1>4. n \in Nat /\ DOMAIN tokens = 1..n
  BY <1>2, LenProperties
<1>5. /\ tokens' \in Seq(S \cup {e})
      /\ Len(tokens') = n + 1
      /\ \A i \in 1..n : tokens'[i] = tokens[i]
      /\ tokens'[n + 1] = e
  BY <1>3, AppendProperties
<1>6. DOMAIN tokens' = 1..(n + 1)
  BY <1>5, LenProperties
<1> HIDE DEF n
<1>7. ASSUME NEW k \in DOMAIN tokens'
      PROVE  /\ tokens'[k].from \in Nat /\ tokens'[k].to \in Nat
             /\ 1 <= tokens'[k].from /\ tokens'[k].from <= tokens'[k].to /\ tokens'[k].to <= at'
             /\ tokens'[k].line \in 1..line'
  <2>1. CASE k = n + 1
    BY <1>1, <1>5, <2>1 DEF IInv, TypeOK
  <2>2. CASE k # n + 1
    <3>1. k \in DOMAIN tokens /\ tokens'[k] = tokens[k]
      BY <1>4, <1>5, <1>6, <2>2
    <3>2. QED BY <1>1, <3>1 DEF IInv, TypeOK, Sequential
  <2>3. QED BY <2>1, <2>2
<1>8. ASSUME NEW k \in DOMAIN tokens', k > 1
      PROVE  tokens'[k - 1].to <= tokens'[k].from /\ tokens'[k - 1].line <= tokens'[k].line
  <2>1. k - 1 \in DOMAIN tokens /\ tokens'[k - 1] = tokens[k - 1]
    BY <1>4, <1>5, <1>6, <1>8
  <2>2. CASE k = n + 1
    BY <1>1, <1>5, <2>1, <2>2 DEF IInv, TypeOK
  <2>3. CASE k # n + 1
    <3>1. k \in DOMAIN tokens /\ tokens'[k] = tokens[k]
      BY <1>4, <1>5, <1>6, <2>3
    <3>2. QED BY <1>8, <2>1, <3>1 DEF IInv, TypeOK
  <2>4. QED BY <2>2, <2>3
<1>9. at' \in 1..(Len(text') + 1) /\ line' \in Nat \ {0}
  BY <1>1 DEF IInv, TypeOK
<1>10. TypeOK'
  BY <1>7, <1>8, <1>9 DEF TypeOK
<1>11. Sequential'
  BY <1>5, <1>7 DEF Sequential, IInv
<1>12. QED BY <1>10, <1>11 DEF IInv

LEMMA AddTokenStep ==
  ASSUME IInv, NEW type, NEW value, NEW to \in at..(Len(text) + 1), NEW lines \in Nat,
         Reading, AddToken(type, value, to, lines)
  PROVE  IInv'
<1> DEFINE e == [type |-> type, value |-> value, line |-> line + lines, from |-> at, to |-> to]
<1>1. line \in Nat
  BY DEF IInv, TypeOK
<1>2. tokens' = Append(tokens, e) /\ at' = to /\ line' = line + lines /\ text' = text /\ status' = "reading"
  BY DEF AddToken, Reading
<1>3. e.from = at /\ e.to = at' /\ e.line = line'
  BY <1>2
<1>4. line' \in Nat /\ line <= line'
  BY <1>1, <1>2
<1> HIDE DEF e
<1>5. QED BY <1>2, <1>3, <1>4, AppendStep
-----------------------------------------------------------------------------
(* The numeral that a sequence of digits is.  Decimal is defined by        *)
(* recursion along the digits; the lemma says that there is such a         *)
(* function and that its values are numbers.                               *)
ValuesUpTo(s, n, f) ==
  /\ f \in [0..n -> Nat] /\ f[0] = 0
  /\ \A k \in 1..n : f[k] = 10 * f[k - 1] + Digits[s[k]]

LEMMA ValuesExist ==
  ASSUME NEW s \in Seq(Digit), NEW n \in 0..Len(s)
  PROVE  \E f : ValuesUpTo(s, n, f)
<1> DEFINE Without == {m \in 0..Len(s) : ~ \E f : ValuesUpTo(s, m, f)}
<1>1. Len(s) \in Nat /\ \A k \in 1..Len(s) : Digits[s[k]] \in Nat
  BY CharactersAssumption, LenProperties DEF Digit
<1>2. ASSUME Without # {} PROVE FALSE
  <2>1. Without \subseteq Nat
    BY <1>1
  <2>2. PICK m \in Without : \A k \in Without : m <= k
    <3> HIDE DEF Without
    <3>1. QED BY <1>2, <2>1, FirstPlace
  <2>3. m \in 0..Len(s) /\ ~ \E f : ValuesUpTo(s, m, f)
    BY <2>2
  <2>4. CASE m = 0
    <3> DEFINE f == [k \in 0..0 |-> 0]
    <3>1. ValuesUpTo(s, 0, f)
      BY DEF ValuesUpTo
    <3>2. QED BY <2>3, <2>4, <3>1
  <2>5. CASE m # 0
    <3>1. m - 1 \in 0..Len(s) /\ ~ (m <= m - 1)
      BY <1>1, <2>3, <2>5
    <3>2. m - 1 \notin Without
      BY <2>2, <3>1
    <3>3. PICK g : ValuesUpTo(s, m - 1, g)
      BY <3>1, <3>2
    <3> DEFINE f == [k \in 0..m |-> IF k = m THEN 10 * g[m - 1] + Digits[s[m]] ELSE g[k]]
    <3>4. m \in 1..Len(s) /\ m \in Nat
      BY <1>1, <2>3, <2>5
    <3>5. g \in [0..(m - 1) -> Nat] /\ g[m - 1] \in Nat /\ Digits[s[m]] \in Nat
      BY <1>1, <3>3, <3>4 DEF ValuesUpTo
    <3>6. f \in [0..m -> Nat]
      BY <3>4, <3>5
    <3>7. f[0] = 0
      BY <3>3, <3>4 DEF ValuesUpTo
    <3>8. \A k \in 1..m : f[k] = 10 * f[k - 1] + Digits[s[k]]
      <4>1. TAKE k \in 1..m
      <4>2. f[k - 1] = g[k - 1]
        BY <3>4
      <4>3. CASE k = m
        BY <3>4, <4>2, <4>3
      <4>4. CASE k # m
        <5>1. k \in 1..(m - 1) /\ f[k] = g[k]
          BY <3>4, <4>4
        <5>2. g[k] = 10 * g[k - 1] + Digits[s[k]]
          BY <3>3, <5>1 DEF ValuesUpTo
        <5>3. QED BY <4>2, <5>1, <5>2
      <4>5. QED BY <4>3, <4>4
    <3> HIDE DEF f
    <3>9. ValuesUpTo(s, m, f)
      BY <3>6, <3>7, <3>8 DEF ValuesUpTo
    <3>10. QED BY <2>3, <3>9
  <2>6. QED BY <2>4, <2>5
<1>3. QED BY <1>2

LEMMA DecimalNumber ==
  ASSUME NEW s \in Seq(Digit)
  PROVE  Decimal(s) \in Nat
<1> DEFINE Is(f) == f = [n \in 0..Len(s) |-> IF n = 0 THEN 0 ELSE 10 * f[n - 1] + Digits[s[n]]]
           value == CHOOSE f : Is(f)
<1>1. Len(s) \in Nat /\ \A k \in 1..Len(s) : Digits[s[k]] \in Nat
  BY CharactersAssumption, LenProperties DEF Digit
<1>2. PICK f : ValuesUpTo(s, Len(s), f)
  BY <1>1, ValuesExist
<1>3. \A n \in 0..Len(s) : f[n] = IF n = 0 THEN 0 ELSE 10 * f[n - 1] + Digits[s[n]]
  BY <1>1, <1>2 DEF ValuesUpTo
<1>4. f = [n \in 0..Len(s) |-> f[n]]
  BY <1>2 DEF ValuesUpTo
<1>5. Is(f)
  BY <1>3, <1>4
<1>6. Is(value)
  BY <1>5
<1>7. Decimal(s) = value[Len(s)]
  BY DEF Decimal
<1>8. \A n \in 0..Len(s) : value[n] = IF n = 0 THEN 0 ELSE 10 * value[n - 1] + Digits[s[n]]
  <2> HIDE DEF value
  <2>1. QED BY <1>6
<1> HIDE DEF value
<1> DEFINE Wrong == {n \in 0..Len(s) : value[n] \notin Nat}
<1>9. ASSUME Wrong # {} PROVE FALSE
  <2>1. Wrong \subseteq Nat
    BY <1>1
  <2>2. PICK m \in Wrong : \A k \in Wrong : m <= k
    <3> HIDE DEF Wrong
    <3>1. QED BY <1>9, <2>1, FirstPlace
  <2>3. m \in 0..Len(s) /\ m \in Nat /\ value[m] \notin Nat
    BY <1>1, <2>2
  <2>4. m # 0
    BY <1>8, <2>3
  <2>5. m - 1 \in 0..Len(s) /\ m \in 1..Len(s) /\ ~ (m <= m - 1)
    BY <1>1, <2>3, <2>4
  <2>6. value[m - 1] \in Nat
    BY <2>2, <2>5
  <2>7. value[m] = 10 * value[m - 1] + Digits[s[m]]
    BY <1>8, <2>3, <2>4
  <2>8. QED BY <1>1, <2>3, <2>5, <2>6, <2>7
<1>10. value[Len(s)] \in Nat
  <2>1. Len(s) \in 0..Len(s)
    BY <1>1
  <2>2. QED BY <1>9, <2>1
<1>11. QED BY <1>7, <1>10

(* The cast of a long to an int changes it by a multiple of the modulus,   *)
(* and not at all when it fits.                                            *)
LEMMA CastCongruent ==
  ASSUME NEW v \in Nat
  PROVE  (v - ToInt(v)) % IntModulus = 0 /\ (2 * v < IntModulus => ToInt(v) = v)
<1> DEFINE M == IntModulus
           q == v \div M
           m == v % M
<1>1. M \in Nat /\ M > 0
  BY IntAssumption
<1>2. q \in Nat /\ m \in 0..(M - 1) /\ v = M * q + m
  BY <1>1
<1>3. ToInt(v) = IF 2 * m < M THEN m ELSE m - M
  BY DEF ToInt
<1>4. \A k \in Nat : (M * k) % M = 0
  BY <1>1
<1>5. 2 * v < M => m = v
  BY <1>1
<1> HIDE DEF M, q, m
<1>6. PICK k \in Nat : v - ToInt(v) = M * k
  <2>1. CASE 2 * m < M
    <3>1. v - ToInt(v) = M * q
      BY <1>1, <1>2, <1>3, <2>1
    <3>2. QED BY <1>2, <3>1
  <2>2. CASE ~ (2 * m < M)
    <3>1. M * (q + 1) = M * q + M /\ q + 1 \in Nat
      BY <1>1, <1>2
    <3>2. v - ToInt(v) = M * q + M
      BY <1>1, <1>2, <1>3, <2>2
    <3>3. QED BY <3>1, <3>2
  <2>3. QED BY <2>1, <2>2
<1>7. (v - ToInt(v)) % M = 0
  <2>1. (M * k) % M = 0
    BY <1>4
  <2>2. QED BY <1>6, <2>1
<1>8. ASSUME 2 * v < M PROVE ToInt(v) = v
  BY <1>3, <1>5, <1>8
<1>9. QED BY <1>7, <1>8 DEF M
-----------------------------------------------------------------------------
(* What a round of tokenize does: it skips a piece of the text that lies   *)
(* ahead, with the breaks in it counted, or makes a token of it.           *)
Numeral(type, value, from, to) ==
  type = "INT" =>
    value = ToInt(Decimal(Slice(from, to))) /\ \A k \in from..(to - 1) : Char(k) \in Digit
Skips ==
  \E to \in (at + 1)..(Len(text) + 1) : Skip(to, BreaksBetween(at, to))
Adds ==
  \E to \in (at + 1)..(Len(text) + 1), lines \in Nat : \E type, value :
    /\ AddToken(type, value, to, lines)
    /\ Plain(type, at, to) => lines = BreaksBetween(at, to)
    /\ Numeral(type, value, at, to)

LEMMA Ahead ==
  ASSUME IInv, NEW to \in (at + 1)..(Len(text) + 1)
  PROVE  at \in Nat /\ to \in Nat /\ Len(text) \in Nat /\ at \in Int /\ to \in Int
  BY Places

(* A piece without line breaks.                                            *)
LEMMA SkipsPlain ==
  ASSUME IInv, NEW to \in (at + 1)..(Len(text) + 1), NoBreaks(at, to), Skip(to, 0)
  PROVE  Skips
<1>1. BreaksBetween(at, to) = 0
  BY Ahead, BreaksNone
<1>2. QED BY <1>1 DEF Skips

LEMMA AddsPlain ==
  ASSUME IInv, NEW to \in (at + 1)..(Len(text) + 1), NoBreaks(at, to),
         NEW type, NEW value, type # "INT", AddToken(type, value, to, 0)
  PROVE  Adds
<1>1. BreaksBetween(at, to) = 0
  BY Ahead, BreaksNone
<1>2. QED BY <1>1 DEF Adds, Numeral

(* One character that is no break.                                         *)
LEMMA OneChar ==
  ASSUME IInv, Char(at) \notin Breaks
  PROVE  NoBreaks(at, at + 1)
<1>1. at..((at + 1) - 1) = {at}
  BY Places
<1>2. QED BY <1>1 DEF NoBreaks

LEMMA TwoChars ==
  ASSUME IInv, Char(at) \notin Breaks, Char(at + 1) \notin Breaks
  PROVE  NoBreaks(at, at + 2)
<1>1. at..((at + 2) - 1) = {at, at + 1}
  BY Places
<1>2. QED BY <1>1 DEF NoBreaks

-----------------------------------------------------------------------------
(* One lemma for each step of tokenize.                                    *)

LEMMA BlankStep == IInv /\ Blank => Skips
<1> SUFFICES ASSUME IInv, Blank PROVE Skips
  OBVIOUS
<1>1. Char(at) # NUL /\ Char(at) \notin Breaks
  BY DEF Blank, Blanks, Breaks, NUL
<1>2. at \in 1..Len(text) /\ Len(text) \in Nat
  BY <1>1, InsideText, Places
<1>3. at + 1 \in (at + 1)..(Len(text) + 1)
  BY <1>2
<1>4. QED BY <1>1, <1>3, OneChar, SkipsPlain DEF Blank

LEMMA LineBreakStep == IInv /\ LineBreak => Skips
<1> SUFFICES ASSUME IInv, LineBreak PROVE Skips
  OBVIOUS
<1>1. Char(at) # NUL /\ "\n" # NUL /\ Char(at) \in {"\n", "\r"}
  BY DEF LineBreak, Breaks, NUL
<1>2. at \in 1..Len(text) /\ Len(text) \in Nat /\ at \in Int
  BY <1>1, InsideText, Places
<1>3. CASE Char(at) = "\r" /\ Char(at + 1) = "\n"
  <2>1. at + 2 \in (at + 1)..(Len(text) + 1)
    BY <1>1, <1>2, <1>3, InsideText
  <2>2. BreakPlaces(at, at + 2) = {at + 1}
    BY <1>2, <1>3 DEF BreakPlaces, BreakAt
  <2>3. BreaksBetween(at, at + 2) = 1
    <3>1. at + 2 \in Int
      BY <1>2
    <3>2. BreaksBetween(at, at + 2) = Cardinality(BreakPlaces(at, at + 2))
      BY <1>2, <3>1, BreaksCounted
    <3>3. QED BY <2>2, <3>2, FS_Singleton
  <2>4. Skip(at + 2, 1)
    BY <1>3 DEF LineBreak
  <2>5. QED BY <2>1, <2>3, <2>4 DEF Skips
<1>4. CASE ~(Char(at) = "\r" /\ Char(at + 1) = "\n")
  <2>1. at + 1 \in (at + 1)..(Len(text) + 1)
    BY <1>2
  <2>2. BreakPlaces(at, at + 1) = {at}
    BY <1>1, <1>2, <1>4 DEF BreakPlaces, BreakAt
  <2>3. BreaksBetween(at, at + 1) = 1
    <3>1. at + 1 \in Int
      BY <1>2
    <3>2. BreaksBetween(at, at + 1) = Cardinality(BreakPlaces(at, at + 1))
      BY <1>2, <3>1, BreaksCounted
    <3>3. QED BY <2>2, <3>2, FS_Singleton
  <2>4. Skip(at + 1, 1)
    BY <1>4 DEF LineBreak
  <2>5. QED BY <2>1, <2>3, <2>4 DEF Skips
<1>5. QED BY <1>3, <1>4

LEMMA PunctuateStep == IInv /\ Punctuate => Adds
<1> SUFFICES ASSUME IInv, Punctuate PROVE Adds
  OBVIOUS
<1>1. Char(at) # NUL /\ Char(at) \notin Breaks /\ Punctuation[Char(at)] # "INT"
  BY DEF Punctuate, Punctuation, NUL, Breaks
<1>2. at \in 1..Len(text) /\ Len(text) \in Nat
  BY <1>1, InsideText, Places
<1>3. at + 1 \in (at + 1)..(Len(text) + 1)
  BY <1>2
<1>4. QED BY <1>1, <1>3, OneChar, AddsPlain DEF Punctuate

LEMMA PairNext ==
  /\ \A c \in DOMAIN Pair : /\ Pair[c].next # NUL /\ Pair[c].next \notin Breaks /\ Pair[c].type # "INT"
                            /\ c # NUL /\ c \notin Breaks
  /\ \A c \in DOMAIN Alone : Alone[c] # "INT"
  BY DEF Pair, Alone, NUL, Breaks

LEMMA OperatorStep == IInv /\ Operator => Adds \/ Fail
<1> SUFFICES ASSUME IInv, Operator PROVE Adds \/ Fail
  OBVIOUS
<1>1. /\ at \in 1..Len(text) /\ Len(text) \in Nat /\ at \in Nat
      /\ Char(at) \in DOMAIN Pair /\ Char(at) \notin Breaks
  BY PairNext, InsideText, Places DEF Operator
<1>2. CASE Char(at + 1) = Pair[Char(at)].next
  <2>1. at + 1 \in 1..Len(text) /\ Char(at + 1) \notin Breaks
    BY <1>1, <1>2, PairNext, InsideText
  <2>2. at + 2 \in (at + 1)..(Len(text) + 1)
    BY <1>1, <2>1
  <2>3. AddToken(Pair[Char(at)].type, NUL, at + 2, 0)
    BY <1>2 DEF Operator
  <2>4. QED BY <1>1, <2>1, <2>2, <2>3, PairNext, TwoChars, AddsPlain
<1>3. CASE Char(at + 1) # Pair[Char(at)].next
  <2>1. at + 1 \in (at + 1)..(Len(text) + 1)
    BY <1>1
  <2>2. (Char(at) \in DOMAIN Alone /\ AddToken(Alone[Char(at)], NUL, at + 1, 0)) \/ Fail
    BY <1>3 DEF Operator
  <2>3. QED BY <1>1, <2>1, <2>2, PairNext, OneChar, AddsPlain
<1>4. QED BY <1>2, <1>3

(* A line comment ends at a line break or at the terminator.               *)
LEMMA CommentEnd ==
  ASSUME text \in Texts, NEW i \in 1..(Len(text) + 1), NEW to,
         to = CHOOSE j \in i..(Len(text) + 1) :
                /\ Char(j) \in Breaks \cup {NUL}
                /\ \A k \in i..(j - 1) : Char(k) \notin Breaks
  PROVE  to \in i..(Len(text) + 1) /\ NoBreaks(i, to)
<1> DEFINE Stops == {j \in i..(Len(text) + 1) : Char(j) \in Breaks \cup {NUL}}
<1>1. Len(text) \in Nat /\ i \in Nat
  BY TextLength
<1>2. Len(text) + 1 \in Stops
  BY <1>1, BehindText
<1>3. PICK j \in Stops : \A k \in Stops : j <= k
  <2>1. Stops \subseteq Nat
    BY <1>1
  <2> HIDE DEF Stops
  <2>2. QED BY <1>2, <2>1, FirstPlace
<1>4. \A k \in i..(j - 1) : Char(k) \notin Breaks
  BY <1>1, <1>3
<1>5. QED BY <1>1, <1>3, <1>4 DEF NoBreaks

LEMMA NoBreaksJoin ==
  ASSUME NEW i \in Int, NEW j \in Int, NEW k \in Int, NoBreaks(i, j), NoBreaks(j, k)
  PROVE  NoBreaks(i, k)
  BY DEF NoBreaks

LEMMA CommentOrDivStep == IInv /\ CommentOrDiv => Skips \/ Adds \/ Fail
<1> SUFFICES ASSUME IInv, CommentOrDiv PROVE Skips \/ Adds \/ Fail
  OBVIOUS
<1>1. /\ at \in 1..Len(text) /\ Len(text) \in Nat /\ at \in Nat /\ text \in Texts
      /\ Char(at) \notin Breaks
  <2>1. Char(at) # NUL /\ Char(at) \notin Breaks
    BY DEF CommentOrDiv, NUL, Breaks
  <2>2. QED BY <2>1, InsideText, Places
<1>2. CASE Char(at + 1) = "/"
  <2> DEFINE to == CHOOSE j \in (at + 2)..(Len(text) + 1) :
                     /\ Char(j) \in Breaks \cup {NUL}
                     /\ \A k \in (at + 2)..(j - 1) : Char(k) \notin Breaks
  <2>1. at + 1 \in 1..Len(text) /\ Char(at + 1) \notin Breaks
    BY <1>2, InsideText, Visible DEF Breaks
  <2>2. at + 2 \in 1..(Len(text) + 1)
    BY <1>1, <2>1
  <2>3. to \in (at + 2)..(Len(text) + 1) /\ NoBreaks(at + 2, to)
    BY <1>1, <2>2, CommentEnd
  <2>4. Skip(to, 0)
    BY <1>2 DEF CommentOrDiv
  <2> HIDE DEF to
  <2>5. to \in (at + 1)..(Len(text) + 1)
    BY <1>1, <2>3
  <2>6. NoBreaks(at, at + 2)
    BY <1>1, <2>1, TwoChars
  <2>7. NoBreaks(at, to)
    BY <1>1, <2>3, <2>6, NoBreaksJoin
  <2>8. QED BY <2>4, <2>5, <2>7, SkipsPlain
<1>3. CASE Char(at + 1) = "*"
  <2> DEFINE close == Min(Closings(at + 2))
  <2>1. CASE Closings(at + 2) = {}
    BY <1>3, <2>1 DEF CommentOrDiv
  <2>2. CASE Closings(at + 2) # {}
    <3>1. Closings(at + 2) \subseteq Nat
      BY <1>1 DEF Closings
    <3>2. close \in Closings(at + 2)
      BY <2>2, <3>1, MinPlace
    <3>3. Skip(close + 2, BreaksBetween(at + 2, close))
      BY <1>3, <2>2 DEF CommentOrDiv
    <3> HIDE DEF close
    <3>4. close \in (at + 2)..Len(text) /\ Char(close) = "*" /\ Char(close + 1) = "/"
      BY <3>2 DEF Closings
    <3>5. close + 1 \in 1..Len(text)
      BY <3>4, InsideText, Visible
    <3>6. close + 2 \in (at + 1)..(Len(text) + 1) /\ close \in Int
      BY <1>1, <3>4, <3>5
    <3>7. NoBreaks(at, at + 2)
      BY <1>1, <1>3, TwoChars DEF Breaks
    <3>8. NoBreaks(close, close + 2)
      <4>1. close..((close + 2) - 1) = {close, close + 1}
        BY <3>6
      <4>2. QED BY <3>4, <4>1 DEF NoBreaks, Breaks
    <3>9. BreaksBetween(at, at + 2) = 0 /\ BreaksBetween(close, close + 2) = 0
      BY <1>1, <3>6, <3>7, <3>8, BreaksNone
    <3>10. /\ BreaksBetween(at, close + 2) = BreaksBetween(at, close) + BreaksBetween(close, close + 2)
           /\ BreaksBetween(at, close) = BreaksBetween(at, at + 2) + BreaksBetween(at + 2, close)
      <4>1. at \in Int /\ at + 2 \in Int /\ close + 2 \in Int /\ at <= at + 2 /\ at + 2 <= close
            /\ at <= close /\ close <= close + 2
        BY <1>1, <3>4, <3>6
      <4>2. QED BY <3>6, <4>1, BreaksAdd
    <3>11. BreaksBetween(at + 2, close) \in Nat
      <4>1. at + 2 \in Int
        BY <1>1
      <4>2. QED BY <3>6, <4>1, BreaksCounted
    <3>12. BreaksBetween(at, close + 2) = BreaksBetween(at + 2, close)
      BY <3>9, <3>10, <3>11
    <3>13. QED BY <3>3, <3>6, <3>12 DEF Skips
  <2>3. QED BY <2>1, <2>2
<1>4. CASE Char(at + 1) \notin {"/", "*"}
  <2>1. at + 1 \in (at + 1)..(Len(text) + 1)
    BY <1>1
  <2>2. AddToken("DIV", NUL, at + 1, 0)
    BY <1>4 DEF CommentOrDiv
  <2>3. QED BY <1>1, <2>1, <2>2, OneChar, AddsPlain
<1>5. QED BY <1>2, <1>3, <1>4

(* A literal: the breaks in it are left to Plain.                          *)
LEMMA AddsLiteral ==
  ASSUME IInv, NEW to \in (at + 1)..(Len(text) + 1), NEW lines \in Nat,
         NEW type \in {"CHAR", "STRING"}, NEW value, AddToken(type, value, to, lines),
         Plain(type, at, to) => lines = BreaksBetween(at, to)
  PROVE  Adds
<1>1. Numeral(type, value, at, to)
  BY DEF Numeral
<1>2. QED BY <1>1 DEF Adds

LEMMA CharLiteralStep == IInv /\ CharLiteral => Adds \/ Fail
<1> SUFFICES ASSUME IInv, CharLiteral PROVE Adds \/ Fail
  OBVIOUS
<1> DEFINE escaped == Char(at + 1) = "\\"
           c == IF escaped THEN Char(at + 2) ELSE Char(at + 1)
           quote == IF escaped THEN at + 3 ELSE at + 2
           value == IF escaped THEN Escape[c] ELSE c
<1>1. Len(text) \in Nat /\ at \in Nat
  BY Places
<1>2. Fail \/ (Char(quote) = "'" /\ AddToken("CHAR", value, quote + 1, 0))
  BY DEF CharLiteral
<1>3. quote \in Nat /\ quote > at
  BY <1>1
<1> HIDE DEF quote, value
<1>4. CASE Fail
  BY <1>4
<1>5. CASE Char(quote) = "'" /\ AddToken("CHAR", value, quote + 1, 0)
  <2>1. quote \in 1..Len(text)
    BY <1>5, InsideText, Visible
  <2>2. quote + 1 \in (at + 1)..(Len(text) + 1)
    BY <1>1, <1>3, <2>1
  <2>3. ASSUME Plain("CHAR", at, quote + 1) PROVE 0 = BreaksBetween(at, quote + 1)
    <3>1. NoBreaks(at, quote + 1)
      BY <2>3 DEF Plain, NoBreaks, Breaks
    <3>2. QED BY <2>2, <3>1, Ahead, BreaksNone
  <2>4. QED BY <1>5, <2>2, <2>3, AddsLiteral
<1>6. QED BY <1>2, <1>4, <1>5

LEMMA QuotePlaces ==
  \A i : Quotes(i) \subseteq i..Len(text) /\ \A j \in Quotes(i) : Char(j) \notin Breaks
  BY Zenon DEF Quotes, Breaks

LEMMA OpeningQuote == StringLiteral => Char(at) \notin Breaks
  BY Zenon DEF StringLiteral, Breaks

LEMMA StringLiteralStep == IInv /\ StringLiteral => Adds \/ Fail
<1> SUFFICES ASSUME IInv, StringLiteral PROVE Adds \/ Fail
  OBVIOUS
<1> DEFINE close == Min(Quotes(at + 1))
           lines == {j \in (at + 1)..(close - 1) : Char(j) = "\n"}
<1>1. Len(text) \in Nat /\ at \in Nat /\ Char(at) \notin Breaks
  BY Places, OpeningQuote
<1>2. Fail \/ (Quotes(at + 1) # {} /\ AddToken("STRING", StringText(at + 1, close), close + 1, Cardinality(lines)))
  BY DEF StringLiteral
<1>3. CASE Fail
  BY <1>3
<1>4. CASE Quotes(at + 1) # {} /\ AddToken("STRING", StringText(at + 1, close), close + 1, Cardinality(lines))
  <2>1. Quotes(at + 1) \subseteq Nat
    BY <1>1, QuotePlaces
  <2>2. close \in Quotes(at + 1)
    BY <1>4, <2>1, MinPlace
  <2> HIDE DEF close
  <2>3. close \in (at + 1)..Len(text) /\ Char(close) \notin Breaks
    BY <2>2, QuotePlaces
  <2>4. close + 1 \in (at + 1)..(Len(text) + 1)
    BY <1>1, <2>3
  <2>5. Cardinality(lines) \in Nat
    BY <1>1, <2>3, CountOfPlaces
  <2>6. ASSUME Plain("STRING", at, close + 1) PROVE Cardinality(lines) = BreaksBetween(at, close + 1)
    <3>1. \A k \in at..close : Char(k) # "\r"
      BY <1>1, <2>3, <2>6 DEF Plain
    <3>2. \A k : BreakAt(k) /\ k \in at..close <=> Char(k) = "\n" /\ k \in (at + 1)..(close - 1)
      BY <1>1, <2>3, <3>1 DEF BreakAt, Breaks
    <3>3. (close + 1) - 1 = close
      BY <2>3
    <3>4. BreakPlaces(at, close + 1) = lines
      BY <3>2, <3>3 DEF BreakPlaces
    <3>5. at \in Int /\ close + 1 \in Int
      BY <1>1, <2>3
    <3>6. QED BY <3>4, <3>5, BreaksCounted
  <2> HIDE DEF lines
  <2>7. QED BY <1>4, <2>4, <2>5, <2>6, AddsLiteral
<1>5. QED BY <1>2, <1>3, <1>4

LEMMA WordStep == IInv /\ Word => Adds
<1> SUFFICES ASSUME IInv, Word PROVE Adds
  OBVIOUS
<1> DEFINE to == After(at + 1, WordChars)
           word == SubSeq(text, at, to - 1)
           value == IF KeywordOf(word) = "ID" THEN word ELSE NUL
<1>1. Char(at) \in WordChars
  BY DEF Word, WordChars
<1>2. Char(at) # NUL /\ Char(at) \notin Breaks
  BY <1>1, Classes
<1>3. at \in 1..Len(text) /\ Len(text) \in Nat /\ text \in Texts /\ at \in Int
  BY <1>2, InsideText, Places
<1>4. at + 1 \in 1..(Len(text) + 1)
  BY <1>3
<1>5. to \in (at + 1)..(Len(text) + 1) /\ \A k \in (at + 1)..(to - 1) : Char(k) \in WordChars
  BY <1>3, <1>4, Classes, AfterStays
<1>6. AddToken(KeywordOf(word), value, to, 0)
  BY DEF Word
<1>7. KeywordOf(word) # "INT"
  BY DEF KeywordOf
<1> HIDE DEF to, word, value
<1>8. NoBreaks(at, to)
  <2>1. ASSUME NEW k \in at..(to - 1) PROVE Char(k) \notin Breaks
    <3>1. k = at \/ k \in (at + 1)..(to - 1)
      BY <1>3, <1>5
    <3>2. QED BY <1>2, <1>5, <3>1, Classes
  <2>2. QED BY <2>1 DEF NoBreaks
<1>9. QED BY <1>5, <1>6, <1>7, <1>8, AddsPlain

(* A run of digits is no break, and what the loop over it leaves behind.   *)
LEMMA DigitsRun ==
  ASSUME text \in Texts, NEW i \in 1..(Len(text) + 1), NEW j, j = After(i, Digit)
  PROVE  /\ j \in i..(Len(text) + 1) /\ Char(j) \notin Digit
         /\ NoBreaks(i, j) /\ \A k \in i..(j - 1) : Char(k) \in Digit
<1>1. /\ j \in i..(Len(text) + 1) /\ Char(j) \notin Digit
      /\ \A k \in i..(j - 1) : Char(k) \in Digit
  BY Classes, AfterStays
<1>2. NoBreaks(i, j)
  BY <1>1, Classes DEF NoBreaks
<1>3. QED BY <1>1, <1>2

LEMMA NumberStep == IInv /\ Number => Adds \/ Fail
<1> SUFFICES ASSUME IInv, Number PROVE Adds \/ Fail
  OBVIOUS
<1> DEFINE whole == After(at, Digit)
           point == Char(whole) = "."
           fraction == IF point THEN After(whole + 1, Digit) ELSE whole
           exp == Char(fraction) \in {"e", "E"}
           sign == IF Char(fraction + 1) \in {"+", "-"} THEN fraction + 2 ELSE fraction + 1
           to == IF exp THEN After(sign, Digit) ELSE fraction
           literal == SubSeq(text, at, to - 1)
<1>1. Char(at) \in Digit
  BY DEF Number
<1>2. at \in 1..Len(text) /\ Len(text) \in Nat /\ text \in Texts /\ at \in Int
  BY <1>1, Classes, InsideText, Places
<1>3. \/ Fail
      \/ AddToken("DOUBLE", literal, to, 0)
      \/ ~point /\ ~exp /\ AddToken("INT", ToInt(Decimal(literal)), to, 0)
  BY DEF Number
<1>4. ~point /\ ~exp => to = whole
  OBVIOUS
<1>5. literal = Slice(at, to)
  BY DEF Slice
<1>6. /\ whole \in at..(Len(text) + 1) /\ Char(whole) \notin Digit
      /\ NoBreaks(at, whole) /\ \A k \in at..(whole - 1) : Char(k) \in Digit
  <2>1. at \in 1..(Len(text) + 1)
    BY <1>2
  <2>2. QED BY <1>2, <2>1, DigitsRun
<1> HIDE DEF whole
<1>7. whole \in (at + 1)..(Len(text) + 1) /\ whole \in Int
  BY <1>1, <1>2, <1>6
<1>8. fraction \in (at + 1)..(Len(text) + 1) /\ NoBreaks(at, fraction) /\ fraction \in Int
  <2>1. CASE point
    <3>1. whole \in 1..Len(text)
      BY <2>1, InsideText, Visible
    <3>2. whole + 1 \in 1..(Len(text) + 1)
      BY <1>2, <3>1
    <3>3. fraction \in (whole + 1)..(Len(text) + 1) /\ NoBreaks(whole + 1, fraction)
      BY <1>2, <2>1, <3>2, DigitsRun
    <3>4. NoBreaks(whole, whole + 1)
      <4>1. whole..((whole + 1) - 1) = {whole}
        BY <3>1
      <4>2. QED BY <2>1, <4>1 DEF NoBreaks, Breaks
    <3> HIDE DEF fraction
    <3>5. fraction \in (at + 1)..(Len(text) + 1) /\ fraction \in Int /\ whole + 1 \in Int
      BY <1>2, <1>7, <3>3
    <3>6. NoBreaks(whole, fraction)
      BY <1>7, <3>3, <3>4, <3>5, NoBreaksJoin
    <3>7. QED BY <1>2, <1>6, <1>7, <3>5, <3>6, NoBreaksJoin
  <2>2. CASE ~point
    BY <1>6, <1>7, <2>2
  <2>3. QED BY <2>1, <2>2
<1> HIDE DEF fraction
<1>9. to \in (at + 1)..(Len(text) + 1) /\ NoBreaks(at, to)
  <2>1. CASE exp
    <3>1. fraction \in 1..Len(text)
      BY <2>1, InsideText, Visible
    <3>2. Char(fraction + 1) \in {"+", "-"} => fraction + 1 \in 1..Len(text)
      BY InsideText, Visible
    <3>3. sign \in (at + 1)..(Len(text) + 1) /\ sign \in Int
      BY <1>2, <1>8, <3>1, <3>2
    <3>4. NoBreaks(fraction, sign)
      <4>1. fraction..(sign - 1) \subseteq {fraction, fraction + 1}
        BY <3>1
      <4>2. fraction + 1 \in fraction..(sign - 1) => Char(fraction + 1) \in {"+", "-"}
        BY <3>1
      <4>3. QED BY <2>1, <4>1, <4>2 DEF NoBreaks, Breaks
    <3> HIDE DEF sign
    <3>5. sign \in 1..(Len(text) + 1)
      BY <1>2, <3>3
    <3>6. to \in sign..(Len(text) + 1) /\ NoBreaks(sign, to)
      BY <1>2, <2>1, <3>5, DigitsRun
    <3> HIDE DEF to
    <3>7. to \in (at + 1)..(Len(text) + 1) /\ to \in Int
      BY <1>2, <3>3, <3>6
    <3>8. NoBreaks(at, sign)
      BY <1>2, <1>8, <3>3, <3>4, NoBreaksJoin
    <3>9. QED BY <1>2, <3>3, <3>6, <3>7, <3>8, NoBreaksJoin
  <2>2. CASE ~exp
    BY <1>8, <2>2
  <2>3. QED BY <2>1, <2>2
<1> HIDE DEF point, exp, to, literal
<1>10. CASE Fail
  BY <1>10
<1>11. CASE AddToken("DOUBLE", literal, to, 0)
  BY <1>9, <1>11, AddsPlain
<1>12. CASE ~point /\ ~exp /\ AddToken("INT", ToInt(Decimal(literal)), to, 0)
  <2>1. Numeral("INT", ToInt(Decimal(literal)), at, to)
    BY <1>4, <1>5, <1>6, <1>12 DEF Numeral
  <2>2. BreaksBetween(at, to) = 0
    BY <1>9, Ahead, BreaksNone
  <2>3. QED BY <1>9, <1>12, <2>1, <2>2 DEF Adds
<1>13. QED BY <1>3, <1>10, <1>11, <1>12
-----------------------------------------------------------------------------
(* Lines and values.  While every literal so far is Plain, the line counter *)
(* agrees with the pointer and each token has the line it ends on; the      *)
(* value of an INT token is that of its digits.                             *)
Counting == Countable => line = LineOf(at) /\ \A k \in DOMAIN tokens : tokens[k].line = LineOf(tokens[k].to)
Numerals ==
  \A k \in DOMAIN tokens : Numeral(tokens[k].type, tokens[k].value, tokens[k].from, tokens[k].to)
LInv == IInv /\ Counting /\ Numerals

Shape == Skips \/ Adds \/ End \/ Fail

LEMMA NextShape == IInv /\ Next => Shape
<1> SUFFICES ASSUME IInv, Next PROVE Shape
  OBVIOUS
<1> USE DEF Shape
<1>1. CASE Blank BY <1>1, BlankStep
<1>2. CASE LineBreak BY <1>2, LineBreakStep
<1>3. CASE End BY <1>3
<1>4. CASE Punctuate BY <1>4, PunctuateStep
<1>5. CASE Operator BY <1>5, OperatorStep
<1>6. CASE CommentOrDiv BY <1>6, CommentOrDivStep
<1>7. CASE CharLiteral BY <1>7, CharLiteralStep
<1>8. CASE StringLiteral BY <1>8, StringLiteralStep
<1>9. CASE Word BY <1>9, WordStep
<1>10. CASE Number BY <1>10, NumberStep
<1>11. CASE InvalidChar BY <1>11 DEF InvalidChar
<1>12. QED BY <1>1, <1>2, <1>3, <1>4, <1>5, <1>6, <1>7, <1>8, <1>9, <1>10, <1>11 DEF Next

LEMMA NextReads == Next => Reading
  BY Zenon DEF Next, Blank, LineBreak, End, Punctuate, Operator, CommentOrDiv, CharLiteral,
     StringLiteral, Word, Number, InvalidChar

LEMMA EndStep == IInv /\ End => IInv' /\ Forward
<1> SUFFICES ASSUME IInv, End PROVE IInv' /\ Forward
  OBVIOUS
<1> DEFINE e == [type |-> "END", value |-> NUL, line |-> line, from |-> at, to |-> at]
<1>1. at \in 1..(Len(text) + 1) /\ Len(text) \in Nat /\ line \in Nat
  BY TextLength DEF IInv, Sequential, TypeOK
<1>2. /\ tokens' = Append(tokens, e) /\ status' = "done"
      /\ text' = text /\ at' = at /\ line' = line
  BY DEF End
<1>3. at' \in at..(Len(text) + 1) /\ line' \in Nat /\ line <= line'
  BY <1>1, <1>2
<1>4. e.from = at /\ e.to = at' /\ e.line = line'
  BY <1>2
<1> HIDE DEF e
<1>5. IInv'
  BY <1>2, <1>3, <1>4, AppendStep
<1>6. QED BY <1>2, <1>5 DEF Forward

LEMMA ShapeInv == IInv /\ Reading /\ Shape => IInv' /\ Forward
<1> SUFFICES ASSUME IInv, Reading, Shape PROVE IInv' /\ Forward
  OBVIOUS
<1>1. CASE Skips
  <2>1. PICK to \in (at + 1)..(Len(text) + 1) : Skip(to, BreaksBetween(at, to))
    BY <1>1 DEF Skips
  <2>2. at \in Int /\ to \in Int /\ to > at /\ to \in at..(Len(text) + 1)
    BY <2>1, Ahead
  <2>3. BreaksBetween(at, to) \in Nat
    BY <2>2, BreaksCounted
  <2>4. QED BY <2>1, <2>2, <2>3, SkipStep DEF Skip, Forward
<1>2. CASE Adds
  <2>1. PICK to \in (at + 1)..(Len(text) + 1), lines \in Nat : \E type, value : AddToken(type, value, to, lines)
    BY <1>2 DEF Adds
  <2>2. at \in Int /\ to \in Int /\ to > at /\ to \in at..(Len(text) + 1)
    BY <2>1, Ahead
  <2>3. QED BY <2>1, <2>2, AddTokenStep DEF AddToken, Forward
<1>3. CASE End
  BY <1>3, EndStep
<1>4. CASE Fail
  BY <1>4, FailStep
<1>5. QED BY <1>1, <1>2, <1>3, <1>4 DEF Shape

(* The text does not change, and what is said of its places neither.       *)
LEMMA SameText ==
  ASSUME text' = text
  PROVE  /\ \A i : LineOf(i)' = LineOf(i)
         /\ \A type, from, to : Plain(type, from, to)' <=> Plain(type, from, to)
         /\ \A type, value, from, to : Numeral(type, value, from, to)' <=> Numeral(type, value, from, to)
<1>1. \A i : LineOf(i)' = LineOf(i)
  BY DEF LineOf, BreaksBetween, Char
<1>2. \A type, from, to : Plain(type, from, to)' <=> Plain(type, from, to)
  BY DEF Plain, Char
<1>3. \A type, value, from, to : Numeral(type, value, from, to)' <=> Numeral(type, value, from, to)
  BY DEF Numeral, Slice, Char
<1>4. QED BY <1>1, <1>2, <1>3

LEMMA LineMoves ==
  ASSUME IInv, NEW to \in (at + 1)..(Len(text) + 1)
  PROVE  LineOf(to) = LineOf(at) + BreaksBetween(at, to)
<1>1. at \in Int /\ to \in Int /\ 1 <= at /\ at <= to
  BY Places, Ahead
<1>2. BreaksBetween(1, to) = BreaksBetween(1, at) + BreaksBetween(at, to)
  BY <1>1, BreaksAdd
<1>3. BreaksBetween(1, at) \in Nat /\ BreaksBetween(at, to) \in Nat
  <2>1. 1 \in Int
    OBVIOUS
  <2>2. QED BY <1>1, <2>1, BreaksCounted
<1>4. QED BY <1>2, <1>3 DEF LineOf

(* A token that has the line and the value it should have is put behind    *)
(* the others.                                                             *)
LEMMA AppendCounts ==
  ASSUME LInv, NEW e, tokens' = Append(tokens, e), text' = text,
         Numeral(e.type, e.value, e.from, e.to),
         Plain(e.type, e.from, e.to) /\ Countable /\ line = LineOf(at) =>
           line' = LineOf(at') /\ e.line = LineOf(e.to)
  PROVE  Counting' /\ Numerals'
<1> DEFINE n == Len(tokens)
<1>1. PICK S : tokens \in Seq(S)
  BY DEF LInv, IInv, Sequential
<1>2. tokens \in Seq(S \cup {e})
  BY <1>1, SeqMonotonic
<1>3. n \in Nat /\ DOMAIN tokens = 1..n
  BY <1>1, LenProperties
<1>4. /\ tokens' \in Seq(S \cup {e})
      /\ Len(tokens') = n + 1
      /\ \A i \in 1..n : tokens'[i] = tokens[i]
      /\ tokens'[n + 1] = e
  BY <1>2, AppendProperties
<1>5. DOMAIN tokens' = 1..(n + 1)
  BY <1>4, LenProperties
<1> HIDE DEF n
<1>6. /\ \A k \in DOMAIN tokens : k \in DOMAIN tokens' /\ tokens'[k] = tokens[k]
      /\ n + 1 \in DOMAIN tokens'
      /\ \A k \in DOMAIN tokens' : k = n + 1 \/ k \in DOMAIN tokens
  BY <1>3, <1>4, <1>5
<1>7. Numerals'
  <2>1. \A k \in DOMAIN tokens' :
          Numeral(tokens'[k].type, tokens'[k].value, tokens'[k].from, tokens'[k].to)
    BY <1>4, <1>6 DEF LInv, Numerals
  <2>2. \A k \in DOMAIN tokens' :
          Numeral(tokens[k].type, tokens[k].value, tokens[k].from, tokens[k].to)'
    BY <2>1, SameText DEF Numeral, Slice, Char
  <2>3. QED BY <2>2 DEF Numerals
<1>8. Counting'
  <2>1. Countable' <=> \A k \in DOMAIN tokens' : Plain(tokens'[k].type, tokens'[k].from, tokens'[k].to)
    BY DEF Countable, Plain, Char
  <2>2. Counting' <=> (Countable' => /\ line' = LineOf(at')
                                     /\ \A k \in DOMAIN tokens' : tokens'[k].line = LineOf(tokens'[k].to))
    BY DEF Counting, LineOf, BreaksBetween, Char
  <2>3. ASSUME Countable'
        PROVE  line' = LineOf(at') /\ \A k \in DOMAIN tokens' : tokens'[k].line = LineOf(tokens'[k].to)
    <3>1. Plain(e.type, e.from, e.to)
      BY <1>4, <1>6, <2>1, <2>3
    <3>2. Countable
      BY <1>6, <2>1, <2>3 DEF Countable
    <3>3. line = LineOf(at) /\ \A k \in DOMAIN tokens : tokens[k].line = LineOf(tokens[k].to)
      BY <3>2 DEF LInv, Counting
    <3>4. line' = LineOf(at') /\ e.line = LineOf(e.to)
      BY <3>1, <3>2, <3>3
    <3>5. QED BY <1>4, <1>6, <3>3, <3>4
  <2>4. QED BY <2>2, <2>3
<1>9. QED BY <1>7, <1>8

LEMMA StillCounts ==
  ASSUME LInv, tokens' = tokens, text' = text, line = LineOf(at) => line' = LineOf(at')
  PROVE  Counting' /\ Numerals'
<1>1. Countable' <=> Countable
  BY DEF Countable, Plain, Char
<1>2. Counting' <=> (Countable' => /\ line' = LineOf(at')
                                   /\ \A k \in DOMAIN tokens' : tokens'[k].line = LineOf(tokens'[k].to))
  BY DEF Counting, LineOf, BreaksBetween, Char
<1>3. Counting'
  BY <1>1, <1>2 DEF LInv, Counting
<1>4. Numerals'
  BY DEF LInv, Numerals, Numeral, Slice, Char
<1>5. QED BY <1>3, <1>4

LEMMA ShapeCounts == LInv /\ Reading /\ Shape => Counting' /\ Numerals'
<1> SUFFICES ASSUME LInv, Reading, Shape PROVE Counting' /\ Numerals'
  OBVIOUS
<1> USE DEF LInv
<1>1. CASE Skips
  <2>1. PICK to \in (at + 1)..(Len(text) + 1) : Skip(to, BreaksBetween(at, to))
    BY <1>1 DEF Skips
  <2>2. LineOf(to) = LineOf(at) + BreaksBetween(at, to)
    BY LineMoves
  <2>3. tokens' = tokens /\ text' = text /\ at' = to /\ line' = line + BreaksBetween(at, to)
    BY <2>1 DEF Skip
  <2>4. QED BY <2>2, <2>3, StillCounts
<1>2. CASE Adds
  <2>1. PICK to \in (at + 1)..(Len(text) + 1), lines \in Nat : \E type, value :
          /\ AddToken(type, value, to, lines)
          /\ Plain(type, at, to) => lines = BreaksBetween(at, to)
          /\ Numeral(type, value, at, to)
    BY <1>2 DEF Adds
  <2>2. PICK type, value :
          /\ AddToken(type, value, to, lines)
          /\ Plain(type, at, to) => lines = BreaksBetween(at, to)
          /\ Numeral(type, value, at, to)
    BY <2>1
  <2> DEFINE e == [type |-> type, value |-> value, line |-> line + lines, from |-> at, to |-> to]
  <2>3. LineOf(to) = LineOf(at) + BreaksBetween(at, to)
    BY LineMoves
  <2>4. tokens' = Append(tokens, e) /\ text' = text /\ at' = to /\ line' = line + lines
    BY <2>2 DEF AddToken
  <2>5. e.type = type /\ e.value = value /\ e.from = at /\ e.to = to /\ e.line = line + lines
    OBVIOUS
  <2> HIDE DEF e
  <2>6. Plain(e.type, e.from, e.to) /\ line = LineOf(at) => line' = LineOf(at') /\ e.line = LineOf(e.to)
    BY <2>2, <2>3, <2>4, <2>5
  <2>7. QED BY <2>2, <2>4, <2>5, <2>6, AppendCounts
<1>3. CASE End
  <2> DEFINE e == [type |-> "END", value |-> NUL, line |-> line, from |-> at, to |-> at]
  <2>1. tokens' = Append(tokens, e) /\ text' = text /\ at' = at /\ line' = line
    BY <1>3 DEF End
  <2>2. e.type = "END" /\ e.to = at /\ e.line = line
    OBVIOUS
  <2> HIDE DEF e
  <2>3. Numeral(e.type, e.value, e.from, e.to)
    BY <2>2 DEF Numeral
  <2>4. QED BY <2>1, <2>2, <2>3, AppendCounts
<1>4. CASE Fail
  BY <1>4, StillCounts DEF Fail
<1>5. QED BY <1>1, <1>2, <1>3, <1>4 DEF Shape

LEMMA InitCounts == Init => Counting /\ Numerals
<1> SUFFICES ASSUME Init PROVE Counting /\ Numerals
  OBVIOUS
<1>1. at = 1 /\ line = 1 /\ DOMAIN tokens = {}
  BY DEF Init
<1>2. NoBreaks(1, 1)
  BY DEF NoBreaks
<1>3. BreaksBetween(1, 1) = 0
  BY <1>2, BreaksNone
<1>4. QED BY <1>1, <1>3 DEF Counting, Numerals, LineOf

LEMMA StepInv == LInv /\ [Next]_vars => LInv' /\ [Forward]_vars
<1> SUFFICES ASSUME LInv, [Next]_vars PROVE LInv' /\ [Forward]_vars
  OBVIOUS
<1>1. CASE Next
  <2>1. IInv /\ Reading /\ Shape
    BY <1>1, NextShape, NextReads DEF LInv
  <2>2. QED BY <2>1, ShapeInv, ShapeCounts DEF LInv
<1>2. CASE UNCHANGED vars
  <2>1. text' = text /\ at' = at /\ line' = line /\ tokens' = tokens /\ status' = status
    BY <1>2 DEF vars
  <2>2. IInv'
    BY <2>1 DEF LInv, IInv, TypeOK, Sequential
  <2>3. Counting' /\ Numerals'
    BY <2>1, StillCounts
  <2>4. QED BY <1>2, <2>2, <2>3 DEF LInv
<1>3. QED BY <1>1, <1>2

(* The token of an integer literal has the value of its digits, cast.      *)
LEMMA NumeralsCongruent == LInv => IntegersCongruent
<1> SUFFICES ASSUME LInv, NEW k \in DOMAIN tokens, tokens[k].type = "INT"
             PROVE  LET v == Decimal(Slice(tokens[k].from, tokens[k].to)) IN
                    /\ (v - tokens[k].value) % IntModulus = 0
                    /\ 2 * v < IntModulus => tokens[k].value = v
  BY DEF IntegersCongruent
<1> DEFINE from == tokens[k].from
           to == tokens[k].to
           s == Slice(from, to)
<1>1. tokens[k].value = ToInt(Decimal(s)) /\ \A j \in from..(to - 1) : Char(j) \in Digit
  BY DEF LInv, Numerals, Numeral
<1>2. /\ from \in Nat /\ to \in Nat /\ 1 <= from /\ from <= to /\ to <= at
      /\ at \in Nat /\ at <= Len(text) + 1
  BY Places DEF LInv, IInv, TypeOK, Sequential
<1>3. text \in Seq(STRING) /\ Len(text) \in Nat
  BY Places, TextsAreSequences DEF LInv
<1> HIDE DEF from, to
<1>4. s = [i \in 1..(to - from) |-> text[from + i - 1]]
  <2>1. (to - 1) - from + 1 = to - from /\ to - 1 \in Int /\ to - from \in Nat
    BY <1>2
  <2>2. QED BY <1>2, <1>3, <2>1 DEF Slice
<1>5. \A i \in 1..(to - from) : text[from + i - 1] \in Digit
  <2>1. TAKE i \in 1..(to - from)
  <2>2. from + i - 1 \in from..(to - 1) /\ from + i - 1 \in 1..Len(text)
    BY <1>2, <1>3
  <2>3. QED BY <1>1, <2>2 DEF Char
<1>6. s \in Seq(Digit)
  <2>1. to - from \in Nat
    BY <1>2
  <2>2. [i \in 1..(to - from) |-> text[from + i - 1]] \in [1..(to - from) -> Digit]
    BY <1>5
  <2> HIDE DEF s
  <2>3. QED BY <1>4, <2>1, <2>2
<1>7. Decimal(s) \in Nat
  BY <1>6, DecimalNumber
<1> HIDE DEF s
<1>8. (Decimal(s) - tokens[k].value) % IntModulus = 0 /\ (2 * Decimal(s) < IntModulus => tokens[k].value = Decimal(s))
  BY <1>1, <1>7, CastCongruent
<1>9. QED BY <1>8 DEF s, from, to

LEMMA Everything == Spec => []LInv
<1>1. Init => LInv
  BY InitInv, InitCounts DEF LInv
<1>2. LInv /\ [Next]_vars => LInv'
  BY StepInv
<1>3. QED BY <1>1, <1>2, PTL DEF Spec

(* On every text, however its last lexeme is cut off, the pointer stays    *)
(* inside the text and its terminator, lines are counted from 1 upwards    *)
(* and tokens lie one behind the other in the text (tokenize, lexer.c).    *)
THEOREM PointerInside == Spec => []TypeOK
<1>1. LInv => TypeOK
  BY DEF LInv, IInv
<1>2. QED BY <1>1, Everything, PTL

(* Every round of tokenize moves the pointer on or ends the run, so no     *)
(* text makes its loop go round in place: the number of rounds is bounded  *)
(* by the length of the text.                                              *)
THEOREM RoundsAdvance == Spec => [][Forward]_vars
<1>1. LInv /\ [Next]_vars => [Forward]_vars
  BY StepInv
<1>2. QED BY <1>1, Everything, PTL DEF Spec

(* On every text without a break inside a literal that the lexer does not  *)
(* count, each token carries the line it ends on: the five places that     *)
(* count lines (blanks, two kinds of comments and literals, lexer.c) agree. *)
THEOREM LinesRight == Spec => []LinesCounted
<1>1. LInv => LinesCounted
  BY DEF LInv, Counting, LinesCounted
<1>2. QED BY <1>1, Everything, PTL

(* On every text and for every width of int, the token of an integer       *)
(* literal differs from what its digits say by a multiple of the number of *)
(* ints, and not at all when it fits (strtol and the cast, lexer.c).       *)
THEOREM IntegersRight == Spec => []IntegersCongruent
<1>1. QED BY NumeralsCongruent, Everything, PTL

-----------------------------------------------------------------------------
(* Functions defined by recursion over 0 .. n, each value from those       *)
(* before it.                                                              *)

Below(f, g, k) == \A j \in 0 .. k - 1 : f[j] = g[j]

LooksBack(n, V, step) ==
  /\ V # {} /\ step \in [[0 .. n -> V] \X (0 .. n) -> V]
  /\ \A f, g \in [0 .. n -> V] : \A k \in 0 .. n :
       Below(f, g, k) => step[<<f, k>>] = step[<<g, k>>]

\* There is one when each value is given by a step that looks back only.
LEMMA Recursion ==
  ASSUME NEW n \in Nat, NEW V, NEW step, LooksBack(n, V, step)
  PROVE  \E f \in [0 .. n -> V] : \A k \in 0 .. n : f[k] = step[<<f, k>>]
<1> USE DEF LooksBack
<1>0. PICK u : u \in V
  OBVIOUS
<1> DEFINE Upto(f, m) == f \in [0 .. n -> V] /\ \A k \in 0 .. n : k < m => f[k] = step[<<f, k>>]
           Without == {m \in 0 .. n + 1 : ~ \E f : Upto(f, m)}
<1>1. ASSUME Without # {} PROVE FALSE
  <2>1. PICK m \in Without : \A k \in Without : m <= k
    <3> HIDE DEF Without
    <3>1. Without \subseteq Nat
      BY DEF Without
    <3>2. QED BY <1>1, <3>1, FirstPlace
  <2>2. m \in 0 .. n + 1 /\ ~ \E f : Upto(f, m)
    BY <2>1
  <2>3. CASE m = 0
    <3>1. Upto([k \in 0 .. n |-> u], 0)
      BY <1>0
    <3>2. QED BY <2>2, <2>3, <3>1
  <2>4. CASE m # 0
    <3>1. m - 1 \in 0 .. n /\ m - 1 \in 0 .. n + 1 /\ ~ (m <= m - 1)
      BY <2>2, <2>4
    <3>2. m - 1 \notin Without
      BY <2>1, <3>1
    <3>3. PICK f : Upto(f, m - 1)
      BY <3>1, <3>2
    <3> DEFINE g == [f EXCEPT ![m - 1] = step[<<f, m - 1>>]]
    <3>4. step[<<f, m - 1>>] \in V
      BY <3>1, <3>3
    <3>5. g \in [0 .. n -> V]
      BY <3>3, <3>4
    <3>6. \A k \in 0 .. n : k # m - 1 => g[k] = f[k]
      BY <3>3
    <3>7. g[m - 1] = step[<<f, m - 1>>]
      BY <3>1, <3>3
    <3> HIDE DEF g
    <3>8. ASSUME NEW k \in 0 .. n, k < m PROVE g[k] = step[<<g, k>>]
      <4>1. Below(f, g, k)
        BY <3>1, <3>6, <3>8 DEF Below
      <4>2. step[<<f, k>>] = step[<<g, k>>]
        BY <3>3, <3>5, <4>1
      <4>3. g[k] = step[<<f, k>>]
        <5>1. CASE k = m - 1
          BY <3>7, <5>1
        <5>2. CASE k # m - 1
          <6>1. k < m - 1
            BY <3>1, <3>8, <5>2
          <6>2. QED BY <3>3, <3>6, <5>2, <6>1
        <5>3. QED BY <5>1, <5>2
      <4>4. QED BY <4>2, <4>3
    <3>9. Upto(g, m)
      BY <3>5, <3>8
    <3>10. QED BY <2>2, <3>9
  <2>5. QED BY <2>3, <2>4
<1>2. Without = {}
  <2> HIDE DEF Without
  <2>1. QED BY <1>1
<1>3. n + 1 \in 0 .. n + 1
  OBVIOUS
<1>4. \E f : Upto(f, n + 1)
  <2> HIDE DEF Upto
  <2>1. QED BY <1>2, <1>3
<1>5. \A k \in 0 .. n : k < n + 1
  OBVIOUS
<1>6. QED BY <1>4, <1>5

\* What holds of a place when it holds of those before it holds of all.
LEMMA Everywhere ==
  ASSUME NEW n \in Nat, NEW S, \A k \in 0 .. n : 0 .. k - 1 \subseteq S => k \in S
  PROVE  0 .. n \subseteq S
<1> DEFINE Outside == {k \in 0 .. n : k \notin S}
<1>1. ASSUME Outside # {} PROVE FALSE
  <2>1. PICK m \in Outside : \A k \in Outside : m <= k
    <3> HIDE DEF Outside
    <3>1. Outside \subseteq Nat
      BY DEF Outside
    <3>2. QED BY <1>1, <3>1, FirstPlace
  <2>2. m \in 0 .. n /\ m \notin S
    BY <2>1
  <2>3. ASSUME NEW j \in 0 .. m - 1 PROVE j \in S
    <3>1. j \in 0 .. n /\ ~ (m <= j)
      BY <2>2
    <3>2. QED BY <2>1, <3>1
  <2>4. QED BY <2>2, <2>3
<1>2. QED BY <1>1

LEMMA ValuesIn ==
  ASSUME NEW n \in Nat, NEW f, NEW V,
         \A k \in 0 .. n : (\A j \in 0 .. k - 1 : f[j] \in V) => f[k] \in V
  PROVE  \A k \in 0 .. n : f[k] \in V
<1> DEFINE S == {k \in 0 .. n : f[k] \in V}
<1>1. ASSUME NEW k \in 0 .. n, 0 .. k - 1 \subseteq S PROVE k \in S
  BY <1>1
<1> HIDE DEF S
<1>2. 0 .. n \subseteq S
  BY <1>1, Everywhere
<1>3. QED BY <1>2 DEF S

-----------------------------------------------------------------------------
(* The reading of a text from a place on.                                  *)

LEMMA LastPlace ==
  ASSUME NEW S, NEW b \in Nat, S \subseteq 0..b, S # {}
  PROVE  \E x \in S : \A y \in S : x >= y
<1> DEFINE T == {b - x : x \in S}
<1>1. T \subseteq Nat /\ T # {}
  <2>1. \A x \in S : b - x \in Nat
    OBVIOUS
  <2>2. PICK x : x \in S
    OBVIOUS
  <2>3. b - x \in T
    BY <2>2
  <2>4. QED BY <2>1, <2>3
<1>2. PICK z \in T : \A y \in T : z <= y
  <2> HIDE DEF T
  <2>1. QED BY <1>1, FirstPlace
<1>3. PICK x \in S : z = b - x
  BY <1>2
<1>4. ASSUME NEW y \in S PROVE x >= y
  <2>1. b - y \in T
    OBVIOUS
  <2>2. b - x <= b - y
    BY <1>2, <1>3, <2>1
  <2>3. QED BY <2>2
<1>5. QED BY <1>4

Lexeme(i, j) == IsToken(Slice(i, j)) \/ IsBlank(Slice(i, j))

LEMMA LongestOne ==
  ASSUME text \in Texts, NEW i \in 1..(Len(text) + 1)
  PROVE  /\ Longest(i) \in i..(Len(text) + 1)
         /\ Longest(i) = i \/ Lexeme(i, Longest(i))
         /\ \A j \in (Longest(i) + 1)..(Len(text) + 1) : ~ Lexeme(i, j)
<1> DEFINE S == {j \in (i + 1)..(Len(text) + 1) : Lexeme(i, j)}
<1>1. Len(text) \in Nat /\ i \in Nat
  BY TextLength
<1>2. {i} \cup S \subseteq 0..(Len(text) + 1) /\ {i} \cup S # {}
  BY <1>1
<1>3. Longest(i) = Max({i} \cup S)
  BY Zenon DEF Longest, Lexeme
<1>4. \A j : j \in S <=> j \in (i + 1)..(Len(text) + 1) /\ Lexeme(i, j)
  OBVIOUS
<1> HIDE DEF S
<1>5. \E x \in {i} \cup S : \A y \in {i} \cup S : x >= y
  <2>1. Len(text) + 1 \in Nat
    BY <1>1
  <2>2. QED BY <1>2, <2>1, LastPlace
<1>6. Longest(i) \in {i} \cup S /\ \A y \in {i} \cup S : Longest(i) >= y
  BY <1>3, <1>5 DEF Max
<1>7. QED BY <1>1, <1>4, <1>6

LEMMA LongestIs ==
  ASSUME text \in Texts, NEW i \in 1..(Len(text) + 1), NEW j \in i..(Len(text) + 1),
         j = i \/ Lexeme(i, j), \A k \in (j + 1)..(Len(text) + 1) : ~ Lexeme(i, k)
  PROVE  Longest(i) = j
<1>1. Len(text) \in Nat /\ i \in Nat
  BY TextLength
<1>2. Longest(i) > j => Longest(i) \in (j + 1)..(Len(text) + 1) /\ Longest(i) # i
  BY <1>1, LongestOne
<1>3. j > Longest(i) => j \in (Longest(i) + 1)..(Len(text) + 1) /\ j # i
  BY <1>1, LongestOne
<1>4. Longest(i) \in Int
  BY <1>1, LongestOne
<1>5. QED BY <1>1, <1>2, <1>3, <1>4, LongestOne

LEMMA Onward ==
  ASSUME text \in Texts, NEW n \in 0..Len(text), n # 0, Readable(Len(text) + 1 - n)
  PROVE  /\ Len(text) + 1 - n \in 1..Len(text)
         /\ Longest(Len(text) + 1 - n) \in Int
         /\ Len(text) + 1 - Longest(Len(text) + 1 - n) \in 0..(n - 1)
<1> DEFINE i == Len(text) + 1 - n
<1>1. Len(text) \in Nat /\ i \in 1..Len(text) /\ i \in 1..(Len(text) + 1) /\ n = Len(text) + 1 - i
  BY TextLength
<1> HIDE DEF i
<1>2. Longest(i) \in i..(Len(text) + 1)
  BY <1>1, LongestOne
<1>3. Longest(i) > i
  BY DEF Readable, i
<1>4. Longest(i) \in Int /\ Len(text) + 1 - Longest(i) \in 0..(n - 1)
  BY <1>1, <1>2, <1>3
<1>5. QED BY <1>1, <1>4 DEF i

TokensStep(f, n) ==
  LET from == Len(text) + 1 - n
      to == Longest(from)
  IN IF n = 0 \/ ~Readable(from) THEN <<>>
     ELSE (IF IsBlank(Slice(from, to)) THEN <<>> ELSE << <<from, to>> >>) \o f[Len(text) + 1 - to]
GoodStep(f, n) ==
  LET from == Len(text) + 1 - n
  IN n = 0 \/ (Readable(from) /\ f[Len(text) + 1 - Longest(from)])

Spans == Seq(Int \X Int)

LEMMA TokensStepIn ==
  ASSUME text \in Texts, NEW n \in 0..Len(text), NEW f, \A k \in 0..(n - 1) : f[k] \in Spans
  PROVE  TokensStep(f, n) \in Spans
<1> DEFINE i == Len(text) + 1 - n
           one == IF IsBlank(Slice(i, Longest(i))) THEN <<>> ELSE << <<i, Longest(i)>> >>
           k == Len(text) + 1 - Longest(i)
<1>1. Len(text) \in Nat /\ i \in Int
  BY TextLength
<1>2. <<>> \in Spans
  BY DEF Spans
<1>3. CASE n = 0 \/ ~Readable(i)
  BY <1>2, <1>3 DEF TokensStep
<1>4. CASE ~(n = 0 \/ ~Readable(i))
  <2>1. k \in 0..(n - 1) /\ Longest(i) \in Int
    BY <1>4, Onward
  <2>2. one \in Spans
    <3>1. << <<i, Longest(i)>> >> \in Spans
      BY <1>1, <2>1 DEF Spans
    <3> HIDE DEF i
    <3>2. QED BY <1>2, <3>1
  <2>3. f[k] \in Spans
    BY <2>1
  <2>4. TokensStep(f, n) = one \o f[k]
    BY <1>4 DEF TokensStep
  <2> HIDE DEF one, k
  <2>5. QED BY <2>2, <2>3, <2>4, ConcatProperties DEF Spans
<1>5. QED BY <1>3, <1>4

LEMMA TokensStepSame ==
  ASSUME text \in Texts, NEW n \in 0..Len(text), NEW f, NEW g, Below(f, g, n)
  PROVE  TokensStep(f, n) = TokensStep(g, n)
<1>1. CASE n = 0 \/ ~Readable(Len(text) + 1 - n)
  BY <1>1 DEF TokensStep
<1>2. CASE ~(n = 0 \/ ~Readable(Len(text) + 1 - n))
  <2>1. Len(text) + 1 - Longest(Len(text) + 1 - n) \in 0..(n - 1)
    BY <1>2, Onward
  <2>2. f[Len(text) + 1 - Longest(Len(text) + 1 - n)] = g[Len(text) + 1 - Longest(Len(text) + 1 - n)]
    BY <2>1 DEF Below
  <2>3. QED BY <1>2, <2>2 DEF TokensStep
<1>3. QED BY <1>1, <1>2

\* What follows i is what is read at i, and what follows that.
LEMMA TokensUnfold ==
  ASSUME text \in Texts, NEW i \in 1..(Len(text) + 1)
  PROVE  /\ TokensFrom(i) \in Spans
         /\ i = Len(text) + 1 \/ ~Readable(i) => TokensFrom(i) = <<>>
         /\ i # Len(text) + 1 /\ Readable(i) =>
              TokensFrom(i) = (IF IsBlank(Slice(i, Longest(i))) THEN <<>> ELSE << <<i, Longest(i)>> >>)
                                \o TokensFrom(Longest(i))
<1> DEFINE n == Len(text)
           step == [p \in [0 .. n -> Spans] \X (0 .. n) |-> TokensStep(p[1], p[2])]
           last == CHOOSE of : of = [j \in 0 .. n |-> TokensStep(of, j)]
<1>1. n \in Nat
  BY TextLength
<1>2. \A f \in [0 .. n -> Spans], j \in 0 .. n :
        step[<<f, j>>] = TokensStep(f, j) /\ TokensStep(f, j) \in Spans
  <2>1. TAKE f \in [0 .. n -> Spans], j \in 0 .. n
  <2>2. \A k \in 0 .. j - 1 : f[k] \in Spans
    OBVIOUS
  <2>3. TokensStep(f, j) \in Spans
    BY <2>2, TokensStepIn
  <2>4. QED BY <2>3
<1>3. step \in [[0 .. n -> Spans] \X (0 .. n) -> Spans]
  <2>1. \A p \in [0 .. n -> Spans] \X (0 .. n) : TokensStep(p[1], p[2]) \in Spans
    BY <1>2
  <2>2. QED BY <2>1
<1> HIDE DEF step
<1>4. \A f, g \in [0 .. n -> Spans] : \A j \in 0 .. n : Below(f, g, j) => step[<<f, j>>] = step[<<g, j>>]
  BY <1>2, TokensStepSame
<1>5. LooksBack(n, Spans, step)
  <2>1. <<>> \in Spans
    BY DEF Spans
  <2>2. QED BY <1>3, <1>4, <2>1 DEF LooksBack
<1>6. PICK f \in [0 .. n -> Spans] : \A j \in 0 .. n : f[j] = step[<<f, j>>]
  <2> HIDE DEF n
  <2>1. QED BY <1>1, <1>5, Recursion
<1>7. f = [j \in 0 .. n |-> TokensStep(f, j)]
  <2>1. \A j \in 0 .. n : f[j] = TokensStep(f, j)
    BY <1>2, <1>6
  <2>2. QED BY <2>1
<1>8. \A j : TokensFrom(j) = last[Len(text) + 1 - j]
  BY Zenon DEF TokensFrom, TokensStep
<1>9. last = [j \in 0 .. n |-> TokensStep(last, j)]
  BY <1>7, Zenon
<1> HIDE DEF last
<1>10. \A j \in 0 .. n : last[j] = TokensStep(last, j)
  BY <1>9, Zenon
<1>11. ASSUME NEW j \in 0 .. n, \A k \in 0 .. j - 1 : last[k] \in Spans PROVE last[j] \in Spans
  BY <1>10, <1>11, TokensStepIn
<1>12. \A j \in 0 .. n : last[j] \in Spans
  BY <1>1, <1>11, ValuesIn
<1>13. n + 1 - i \in 0 .. n /\ n + 1 - (n + 1 - i) = i /\ (i = n + 1 <=> n + 1 - i = 0)
  BY <1>1
<1>14. TokensFrom(i) = TokensStep(last, n + 1 - i)
  BY <1>8, <1>10, <1>13
<1>15. TokensFrom(i) \in Spans
  BY <1>8, <1>12, <1>13
<1>16. ASSUME i = n + 1 \/ ~Readable(i) PROVE TokensFrom(i) = <<>>
  BY <1>13, <1>14, <1>16 DEF TokensStep
<1>17. ASSUME ~(i = n + 1 \/ ~Readable(i))
       PROVE  TokensFrom(i) = (IF IsBlank(Slice(i, Longest(i))) THEN <<>> ELSE << <<i, Longest(i)>> >>)
                                \o TokensFrom(Longest(i))
  BY <1>8, <1>13, <1>14, <1>17 DEF TokensStep
<1>18. QED BY <1>15, <1>16, <1>17

LEMMA GoodStepSame ==
  ASSUME text \in Texts, NEW n \in 0..Len(text), NEW f, NEW g, Below(f, g, n)
  PROVE  GoodStep(f, n) = GoodStep(g, n)
<1>1. CASE n = 0 \/ ~Readable(Len(text) + 1 - n)
  BY <1>1 DEF GoodStep
<1>2. CASE ~(n = 0 \/ ~Readable(Len(text) + 1 - n))
  <2>1. Len(text) + 1 - Longest(Len(text) + 1 - n) \in 0..(n - 1)
    BY <1>2, Onward
  <2>2. f[Len(text) + 1 - Longest(Len(text) + 1 - n)] = g[Len(text) + 1 - Longest(Len(text) + 1 - n)]
    BY <2>1 DEF Below
  <2>3. QED BY <1>2, <2>2 DEF GoodStep
<1>3. QED BY <1>1, <1>2

LEMMA GoodUnfold ==
  ASSUME text \in Texts, NEW i \in 1..(Len(text) + 1)
  PROVE  /\ GoodFrom(i) \in BOOLEAN
         /\ GoodFrom(i) <=> i = Len(text) + 1 \/ (Readable(i) /\ GoodFrom(Longest(i)))
<1> DEFINE n == Len(text)
           step == [p \in [0 .. n -> BOOLEAN] \X (0 .. n) |-> GoodStep(p[1], p[2])]
           last == CHOOSE of : of = [j \in 0 .. n |-> GoodStep(of, j)]
<1>1. n \in Nat
  BY TextLength
<1>2. \A f, j : GoodStep(f, j) \in BOOLEAN
  BY DEF GoodStep
<1>3. \A f \in [0 .. n -> BOOLEAN], j \in 0 .. n : step[<<f, j>>] = GoodStep(f, j)
  OBVIOUS
<1>4. step \in [[0 .. n -> BOOLEAN] \X (0 .. n) -> BOOLEAN]
  BY <1>2
<1> HIDE DEF step
<1>5. \A f, g \in [0 .. n -> BOOLEAN] : \A j \in 0 .. n : Below(f, g, j) => step[<<f, j>>] = step[<<g, j>>]
  BY <1>3, GoodStepSame
<1>6. LooksBack(n, BOOLEAN, step)
  BY <1>4, <1>5 DEF LooksBack
<1>7. PICK f \in [0 .. n -> BOOLEAN] : \A j \in 0 .. n : f[j] = step[<<f, j>>]
  <2> HIDE DEF n
  <2>1. QED BY <1>1, <1>6, Recursion
<1>8. f = [j \in 0 .. n |-> GoodStep(f, j)]
  <2>1. \A j \in 0 .. n : f[j] = GoodStep(f, j)
    BY <1>3, <1>7
  <2>2. QED BY <2>1
<1>9. \A j : GoodFrom(j) = last[Len(text) + 1 - j]
  BY Zenon DEF GoodFrom, GoodStep
<1>10. last = [j \in 0 .. n |-> GoodStep(last, j)]
  BY <1>8, Zenon
<1> HIDE DEF last
<1>11. \A j \in 0 .. n : last[j] = GoodStep(last, j)
  BY <1>10, Zenon
<1>12. n + 1 - i \in 0 .. n /\ n + 1 - (n + 1 - i) = i /\ (i = n + 1 <=> n + 1 - i = 0)
  BY <1>1
<1>13. GoodFrom(i) = GoodStep(last, n + 1 - i)
  BY <1>9, <1>11, <1>12
<1>14. GoodStep(last, n + 1 - i) <=> i = n + 1 \/ (Readable(i) /\ last[n + 1 - Longest(i)])
  BY <1>12 DEF GoodStep
<1>15. last[n + 1 - Longest(i)] = GoodFrom(Longest(i))
  BY <1>9
<1>16. QED BY <1>2, <1>13, <1>14, <1>15

LEMMA SameReading ==
  ASSUME text' = text
  PROVE  /\ \A i : TokensFrom(i)' = TokensFrom(i) /\ GoodFrom(i)' = GoodFrom(i)
         /\ \A t : FitsType(t)' <=> FitsType(t)
<1>1. /\ \A i, j : Slice(i, j)' = Slice(i, j)
      /\ \A i : Char(i)' = Char(i) /\ Longest(i)' = Longest(i)
  BY DEF Slice, Char, Longest
<1>2. \A i : Readable(i)' <=> Readable(i)
  <2>1. \A i : Refused(i)' <=> Refused(i)
    BY <1>1 DEF Refused
  <2>2. QED BY <1>1, <2>1 DEF Readable
<1>3. \A f, n : TokensStep(f, n)' = TokensStep(f, n) /\ (GoodStep(f, n)' <=> GoodStep(f, n))
  BY <1>1, <1>2 DEF TokensStep, GoodStep
<1>4. \A i : TokensFrom(i)' = TokensFrom(i)
  <2> DEFINE last == CHOOSE of : of = [j \in 0 .. Len(text) |-> TokensStep(of, j)]
             next == CHOOSE of : of = [j \in 0 .. Len(text') |-> TokensStep(of, j)']
  <2>1. \A i : TokensFrom(i) = last[Len(text) + 1 - i]
    BY Zenon DEF TokensFrom, TokensStep
  <2>2. \A i : TokensFrom(i)' = next[Len(text') + 1 - i]
    BY Zenon DEF TokensFrom, TokensStep
  <2>3. \A of : [j \in 0 .. Len(text') |-> TokensStep(of, j)'] = [j \in 0 .. Len(text) |-> TokensStep(of, j)]
    BY <1>3
  <2>4. next = last
    BY <2>3, Zenon
  <2>5. QED BY <2>1, <2>2, <2>4
<1>5. \A i : GoodFrom(i)' = GoodFrom(i)
  <2> DEFINE last == CHOOSE of : of = [j \in 0 .. Len(text) |-> GoodStep(of, j)]
             next == CHOOSE of : of = [j \in 0 .. Len(text') |-> GoodStep(of, j)']
  <2>1. \A i : GoodFrom(i) = last[Len(text) + 1 - i]
    BY Zenon DEF GoodFrom, GoodStep
  <2>2. \A i : GoodFrom(i)' = next[Len(text') + 1 - i]
    BY Zenon DEF GoodFrom, GoodStep
  <2>3. \A of : [j \in 0 .. Len(text') |-> GoodStep(of, j)'] = [j \in 0 .. Len(text) |-> GoodStep(of, j)]
    BY <1>3
  <2>4. next = last
    BY <2>3, Zenon
  <2>5. QED BY <2>1, <2>2, <2>4
<1>6. \A t : FitsType(t)' <=> FitsType(t)
  BY <1>1 DEF FitsType
<1>7. QED BY <1>4, <1>5, <1>6

-----------------------------------------------------------------------------
(* Lexemes by the places of their characters.                              *)

Within(i, j) == text \in Texts /\ i \in 1..(Len(text) + 1) /\ j \in i..(Len(text) + 1)

LEMMA SliceIs ==
  ASSUME NEW i, NEW j, Within(i, j)
  PROVE  /\ Slice(i, j) \in Seq(STRING) /\ Len(Slice(i, j)) = j - i
         /\ DOMAIN Slice(i, j) = 1..(j - i)
         /\ \A k \in 1..(j - i) : Slice(i, j)[k] = Char(i + k - 1)
<1>1. Len(text) \in Nat /\ i \in Nat /\ j \in Nat /\ i <= j /\ text \in Seq(STRING)
  BY TextLength, TextsAreSequences DEF Within
<1>2. \A k \in i..(j - 1) : k \in 1..Len(text) /\ text[k] \in STRING
  BY <1>1 DEF Within
<1>3. /\ Slice(i, j) \in Seq(STRING)
      /\ Len(Slice(i, j)) = IF i <= j - 1 THEN j - 1 - i + 1 ELSE 0
      /\ \A k \in 1..(j - 1 - i + 1) : Slice(i, j)[k] = text[i + k - 1]
  <2>1. i \in Int /\ j - 1 \in Int
    BY <1>1
  <2>2. QED BY <1>2, <2>1, SubSeqProperties DEF Slice
<1>4. Len(Slice(i, j)) = j - i
  BY <1>1, <1>3
<1>5. DOMAIN Slice(i, j) = 1..(j - i)
  BY <1>3, <1>4, LenProperties
<1>6. ASSUME NEW k \in 1..(j - i) PROVE Slice(i, j)[k] = Char(i + k - 1)
  <2>1. k \in 1..(j - 1 - i + 1) /\ i + k - 1 \in 1..Len(text)
    BY <1>1, <1>2
  <2>2. QED BY <1>3, <2>1 DEF Char
<1>7. QED BY <1>3, <1>4, <1>5, <1>6

LEMMA SubSlice ==
  ASSUME NEW i, NEW j, Within(i, j), NEW a \in 1..(j - i + 1), NEW b \in (a - 1)..(j - i)
  PROVE  SubSeq(Slice(i, j), a, b) = Slice(i + a - 1, i + b) /\ Within(i + a - 1, i + b)
<1> DEFINE w == Slice(i, j)
           v == Slice(i + a - 1, i + b)
           u == SubSeq(w, a, b)
<1>1. Len(text) \in Nat /\ i \in Nat /\ j \in Nat /\ i <= j /\ text \in Texts /\ j <= Len(text) + 1 /\ 1 <= i
  BY TextLength DEF Within
<1>2. a \in Int /\ b \in Int
  BY <1>1
<1>3. Within(i + a - 1, i + b)
  BY <1>1, <1>2 DEF Within
<1>4. v \in Seq(STRING) /\ Len(v) = b - a + 1 /\ \A k \in 1..(b - a + 1) : v[k] = Char(i + a - 1 + k - 1)
  <2>1. (i + b) - (i + a - 1) = b - a + 1
    BY <1>1, <1>2
  <2>2. QED BY <1>3, <2>1, SliceIs
<1>5. w \in Seq(STRING) /\ DOMAIN w = 1..(j - i) /\ \A k \in 1..(j - i) : w[k] = Char(i + k - 1)
  BY SliceIs
<1>6. \A k \in a..b : w[k] \in STRING
  <2>1. \A k \in a..b : k \in 1..(j - i)
    BY <1>1, <1>2
  <2>2. Len(w) = j - i
    BY SliceIs
  <2> HIDE DEF w
  <2>3. QED BY <1>5, <2>1, <2>2, ElementOfSeq
<1> HIDE DEF w, v
<1>7. u \in Seq(STRING) /\ Len(u) = (IF a <= b THEN b - a + 1 ELSE 0) /\ \A k \in 1..(b - a + 1) : u[k] = w[a + k - 1]
  BY <1>2, <1>6, SubSeqProperties
<1>8. Len(u) = Len(v)
  BY <1>2, <1>4, <1>7
<1>9. ASSUME NEW k \in 1..Len(u) PROVE u[k] = v[k]
  <2>1. k \in 1..(b - a + 1) /\ a + k - 1 \in 1..(j - i)
    BY <1>1, <1>2, <1>4, <1>8
  <2>2. i + (a + k - 1) - 1 = i + a - 1 + k - 1
    BY <1>1, <1>2
  <2>3. QED BY <1>4, <1>5, <1>7, <2>1, <2>2
<1> HIDE DEF u
<1>10. u = v
  BY <1>4, <1>7, <1>8, <1>9, SeqEqual
<1>11. QED BY <1>3, <1>10 DEF u, v, w

DigitsAt(i, j) == i < j /\ \A k \in i..(j - 1) : Char(k) \in Digit
MantissaAt(i, j) ==
  \/ DigitsAt(i, j)
  \/ \E p \in (i + 1)..(j - 1) : Char(p) = "." /\ DigitsAt(i, p) /\ DigitsAt(p + 1, j)
ExponentAt(p, j) ==
  \/ DigitsAt(p + 1, j)
  \/ p + 1 < j /\ Char(p + 1) \in {"+", "-"} /\ DigitsAt(p + 2, j)
NumberAt(i, j) ==
  \/ MantissaAt(i, j)
  \/ \E p \in (i + 1)..(j - 1) : Char(p) \in {"e", "E"} /\ MantissaAt(i, p) /\ ExponentAt(p, j)
WordAt(i, j) == i < j /\ Char(i) \notin Digit /\ \A k \in i..(j - 1) : Char(k) \in WordChars

LEMMA SliceWithin ==
  ASSUME NEW i, NEW j, Within(i, j), NEW S
  PROVE  /\ Slice(i, j) # <<>> <=> i < j
         /\ Range(Slice(i, j)) \subseteq S <=> \A k \in i..(j - 1) : Char(k) \in S
<1>1. i \in Nat /\ j \in Nat /\ i <= j
  BY TextLength DEF Within
<1>2. /\ Len(Slice(i, j)) = j - i /\ DOMAIN Slice(i, j) = 1..(j - i) /\ Slice(i, j) \in Seq(STRING)
      /\ \A k \in 1..(j - i) : Slice(i, j)[k] = Char(i + k - 1)
  BY SliceIs
<1>3. Slice(i, j) # <<>> <=> i < j
  <2>1. Slice(i, j) = <<>> <=> Len(Slice(i, j)) = 0
    BY <1>2, EmptySeq
  <2>2. QED BY <1>1, <1>2, <2>1
<1>4. ASSUME Range(Slice(i, j)) \subseteq S, NEW k \in i..(j - 1) PROVE Char(k) \in S
  <2>1. k - i + 1 \in 1..(j - i) /\ i + (k - i + 1) - 1 = k
    BY <1>1
  <2>2. QED BY <1>2, <1>4, <2>1 DEF Range
<1>5. ASSUME \A k \in i..(j - 1) : Char(k) \in S PROVE Range(Slice(i, j)) \subseteq S
  <2>1. \A k \in 1..(j - i) : i + k - 1 \in i..(j - 1)
    BY <1>1
  <2>2. QED BY <1>2, <1>5, <2>1 DEF Range
<1>6. QED BY <1>3, <1>4, <1>5

LEMMA DigitsIs ==
  ASSUME NEW i, NEW j, Within(i, j)
  PROVE  IsDigits(Slice(i, j)) <=> DigitsAt(i, j)
  BY SliceWithin DEF IsDigits, DigitsAt

\* The parts of a slice before and behind its k-th character.
LEMMA SliceParts ==
  ASSUME NEW i, NEW j, Within(i, j), NEW k \in 1..(j - i)
  PROVE  /\ Slice(i, j)[k] = Char(i + k - 1)
         /\ SubSeq(Slice(i, j), 1, k - 1) = Slice(i, i + k - 1) /\ Within(i, i + k - 1)
         /\ Rest(Slice(i, j), k + 1) = Slice(i + k, j) /\ Within(i + k, j)
         /\ k < j - i => Rest(Slice(i, j), k + 2) = Slice(i + k + 1, j) /\ Within(i + k + 1, j)
<1>1. i \in Nat /\ j \in Nat /\ i <= j
  BY TextLength DEF Within
<1>2. Slice(i, j)[k] = Char(i + k - 1) /\ Len(Slice(i, j)) = j - i
  BY SliceIs
<1>3. SubSeq(Slice(i, j), 1, k - 1) = Slice(i, i + k - 1) /\ Within(i, i + k - 1)
  <2>1. 1 \in 1..(j - i + 1) /\ k - 1 \in (1 - 1)..(j - i) /\ i + 1 - 1 = i /\ i + (k - 1) = i + k - 1
    BY <1>1
  <2>2. QED BY <2>1, SubSlice
<1>4. Rest(Slice(i, j), k + 1) = Slice(i + k, j) /\ Within(i + k, j)
  <2>1. k + 1 \in 1..(j - i + 1) /\ j - i \in ((k + 1) - 1)..(j - i) /\ i + (k + 1) - 1 = i + k /\ i + (j - i) = j
    BY <1>1
  <2>2. QED BY <1>2, <2>1, SubSlice DEF Rest
<1>5. ASSUME k < j - i PROVE Rest(Slice(i, j), k + 2) = Slice(i + k + 1, j) /\ Within(i + k + 1, j)
  <2>1. k + 2 \in 1..(j - i + 1) /\ j - i \in ((k + 2) - 1)..(j - i) /\ i + (k + 2) - 1 = i + k + 1 /\ i + (j - i) = j
    BY <1>1, <1>5
  <2>2. QED BY <1>2, <2>1, SubSlice DEF Rest
<1>6. QED BY <1>2, <1>3, <1>4, <1>5

LEMMA MantissaIs ==
  ASSUME NEW i, NEW j, Within(i, j)
  PROVE  IsMantissa(Slice(i, j)) <=> MantissaAt(i, j)
<1> DEFINE w == Slice(i, j)
           Point(k) == w[k] = "." /\ IsDigits(SubSeq(w, 1, k - 1)) /\ IsDigits(Rest(w, k + 1))
           PointAt(p) == Char(p) = "." /\ DigitsAt(i, p) /\ DigitsAt(p + 1, j)
<1>1. i \in Nat /\ j \in Nat /\ i <= j /\ Len(w) = j - i
  <2>1. i \in Nat /\ j \in Nat /\ i <= j
    BY TextLength DEF Within
  <2>2. QED BY <2>1, SliceIs
<1>2. ASSUME NEW k \in 2..(j - i) PROVE Point(k) <=> PointAt(i + k - 1)
  <2>1. k \in 1..(j - i) /\ (i + k - 1) + 1 = i + k
    BY <1>1
  <2>2. /\ w[k] = Char(i + k - 1)
        /\ SubSeq(w, 1, k - 1) = Slice(i, i + k - 1) /\ Within(i, i + k - 1)
        /\ Rest(w, k + 1) = Slice(i + k, j) /\ Within(i + k, j)
    BY <2>1, SliceParts
  <2>3. /\ IsDigits(SubSeq(w, 1, k - 1)) <=> DigitsAt(i, i + k - 1)
        /\ IsDigits(Rest(w, k + 1)) <=> DigitsAt(i + k, j)
    BY <2>2, DigitsIs
  <2> HIDE DEF w
  <2>4. QED BY <2>1, <2>2, <2>3
<1>3. IsMantissa(w) <=> DigitsAt(i, j) \/ \E k \in 2..(j - i) : Point(k)
  BY <1>1, DigitsIs DEF IsMantissa
<1>4. MantissaAt(i, j) <=> DigitsAt(i, j) \/ \E p \in (i + 1)..(j - 1) : PointAt(p)
  BY DEF MantissaAt
<1> HIDE DEF Point, PointAt, w
<1>5. ASSUME NEW k \in 2..(j - i), Point(k) PROVE \E p \in (i + 1)..(j - 1) : PointAt(p)
  <2>1. i + k - 1 \in (i + 1)..(j - 1)
    BY <1>1
  <2>2. QED BY <1>2, <1>5, <2>1
<1>6. ASSUME NEW p \in (i + 1)..(j - 1), PointAt(p) PROVE \E k \in 2..(j - i) : Point(k)
  <2>1. p - i + 1 \in 2..(j - i) /\ i + (p - i + 1) - 1 = p
    BY <1>1
  <2>2. QED BY <1>2, <1>6, <2>1
<1>7. QED BY <1>3, <1>4, <1>5, <1>6 DEF w

LEMMA NumberIs ==
  ASSUME NEW i, NEW j, Within(i, j)
  PROVE  IsNumber(Slice(i, j)) <=> NumberAt(i, j)
<1> DEFINE w == Slice(i, j)
           Power(k) ==
             /\ w[k] \in {"e", "E"} /\ IsMantissa(SubSeq(w, 1, k - 1))
             /\ \/ IsDigits(Rest(w, k + 1))
                \/ k < Len(w) /\ w[k + 1] \in {"+", "-"} /\ IsDigits(Rest(w, k + 2))
           PowerAt(p) == Char(p) \in {"e", "E"} /\ MantissaAt(i, p) /\ ExponentAt(p, j)
<1>1. i \in Nat /\ j \in Nat /\ i <= j /\ Len(w) = j - i
  <2>1. i \in Nat /\ j \in Nat /\ i <= j
    BY TextLength DEF Within
  <2>2. QED BY <2>1, SliceIs
<1>2. ASSUME NEW k \in 2..(j - i) PROVE Power(k) <=> PowerAt(i + k - 1)
  <2> DEFINE p == i + k - 1
  <2>1. k \in 1..(j - i) /\ p + 1 = i + k /\ p + 2 = i + k + 1 /\ i + (k + 1) - 1 = i + k /\ k + 1 \in Nat
        /\ (k < j - i <=> p + 1 < j) /\ (k < j - i => k + 1 \in 1..(j - i))
    BY <1>1
  <2>2. /\ w[k] = Char(p)
        /\ SubSeq(w, 1, k - 1) = Slice(i, p) /\ Within(i, p)
        /\ Rest(w, k + 1) = Slice(p + 1, j) /\ Within(p + 1, j)
    <3>1. /\ w[k] = Char(i + k - 1)
          /\ SubSeq(w, 1, k - 1) = Slice(i, i + k - 1) /\ Within(i, i + k - 1)
          /\ Rest(w, k + 1) = Slice(i + k, j) /\ Within(i + k, j)
      BY <2>1, SliceParts
    <3>2. QED BY <2>1, <3>1
  <2>3. IsMantissa(SubSeq(w, 1, k - 1)) <=> MantissaAt(i, p)
    BY <2>2, MantissaIs
  <2>4. IsDigits(Rest(w, k + 1)) <=> DigitsAt(p + 1, j)
    BY <2>2, DigitsIs
  <2>5. ASSUME k < j - i
        PROVE  w[k + 1] = Char(p + 1) /\ (IsDigits(Rest(w, k + 2)) <=> DigitsAt(p + 2, j))
    <3>1. k + 1 \in 1..(j - i)
      BY <2>1, <2>5
    <3>2. w[k + 1] = Char(i + (k + 1) - 1)
      BY <3>1, SliceParts
    <3>3. Rest(w, k + 2) = Slice(i + k + 1, j) /\ Within(i + k + 1, j)
      BY <2>1, <2>5, SliceParts
    <3>4. IsDigits(Slice(i + k + 1, j)) <=> DigitsAt(i + k + 1, j)
      BY <3>3, DigitsIs
    <3>5. QED BY <2>1, <3>2, <3>3, <3>4
  <2>6. QED BY <1>1, <2>1, <2>2, <2>3, <2>4, <2>5 DEF ExponentAt, p
<1>3. IsNumber(w) <=> MantissaAt(i, j) \/ \E k \in 2..(j - i) : Power(k)
  BY <1>1, MantissaIs DEF IsNumber
<1>4. NumberAt(i, j) <=> MantissaAt(i, j) \/ \E p \in (i + 1)..(j - 1) : PowerAt(p)
  BY DEF NumberAt
<1> HIDE DEF Power, PowerAt, w
<1>5. ASSUME NEW k \in 2..(j - i), Power(k) PROVE \E p \in (i + 1)..(j - 1) : PowerAt(p)
  <2>1. i + k - 1 \in (i + 1)..(j - 1)
    BY <1>1
  <2>2. QED BY <1>2, <1>5, <2>1
<1>6. ASSUME NEW p \in (i + 1)..(j - 1), PowerAt(p) PROVE \E k \in 2..(j - i) : Power(k)
  <2>1. p - i + 1 \in 2..(j - i) /\ i + (p - i + 1) - 1 = p
    BY <1>1
  <2>2. QED BY <1>2, <1>6, <2>1
<1>7. QED BY <1>3, <1>4, <1>5, <1>6 DEF w

LEMMA WordIs ==
  ASSUME NEW i, NEW j, Within(i, j)
  PROVE  IsWord(Slice(i, j)) <=> WordAt(i, j)
<1>1. i \in Nat /\ j \in Nat /\ i <= j
  BY TextLength DEF Within
<1>2. i < j => Slice(i, j)[1] = Char(i)
  <2>1. ASSUME i < j PROVE 1 \in 1..(j - i) /\ i + 1 - 1 = i
    BY <1>1, <2>1
  <2>2. QED BY <2>1, SliceIs
<1>3. QED BY <1>2, SliceWithin DEF IsWord, WordAt

-----------------------------------------------------------------------------
(* Escapes.  A character is escaped when the one before it is a backslash  *)
(* that is not: the odd runs of the code, seen one character at a time.    *)

Run(k, j) == \A m \in k..(j - 1) : Char(m) = "\\"
RunFrom(i, k, j) == k \in i..(j - 1) /\ Run(k, j) /\ (k = i \/ Char(k - 1) # "\\")

LEMMA EscapedRun ==
  ASSUME NEW i \in Nat, NEW j \in Nat
  PROVE  Escaped(i, j) <=> \E k \in Nat : RunFrom(i, k, j) /\ (j - k) % 2 = 1
<1>1. \A k : k \in i..(j - 1) => k \in Nat
  OBVIOUS
<1>2. QED BY <1>1 DEF Escaped, RunFrom, Run

LEMMA OneRun ==
  ASSUME NEW i \in Nat, NEW j \in Nat, NEW k \in Nat, NEW m \in Nat, RunFrom(i, k, j), RunFrom(i, m, j)
  PROVE  k = m
<1>1. ASSUME NEW a \in Nat, NEW b \in Nat, RunFrom(i, a, j), RunFrom(i, b, j), a < b PROVE FALSE
  <2>1. b # i /\ b - 1 \in a..(j - 1)
    BY <1>1 DEF RunFrom
  <2>2. QED BY <1>1, <2>1 DEF RunFrom, Run
<1>2. ~(k < m) /\ ~(m < k)
  BY <1>1
<1>3. QED BY <1>2

LEMMA RunExists ==
  ASSUME NEW i \in Nat, NEW j \in Nat, i < j, Char(j - 1) = "\\"
  PROVE  \E k \in Nat : RunFrom(i, k, j)
<1> DEFINE S == {k \in i..(j - 1) : Run(k, j)}
<1>1. j - 1 \in i..(j - 1) /\ (j - 1)..(j - 1) = {j - 1}
  OBVIOUS
<1>2. j - 1 \in S
  BY <1>1 DEF Run
<1>3. S \subseteq Nat
  OBVIOUS
<1>4. PICK k \in S : \A m \in S : k <= m
  <2> HIDE DEF S
  <2>1. QED BY <1>2, <1>3, FirstPlace
<1>5. k \in Nat /\ k \in i..(j - 1) /\ Run(k, j)
  BY <1>3, <1>4
<1>6. ASSUME k # i, Char(k - 1) = "\\" PROVE FALSE
  <2>1. k - 1 \in i..(j - 1) /\ ~(k <= k - 1)
    BY <1>5, <1>6
  <2>2. \A m \in (k - 1)..(j - 1) : m = k - 1 \/ m \in k..(j - 1)
    BY <1>5
  <2>3. Run(k - 1, j)
    BY <1>5, <1>6, <2>2 DEF Run
  <2>4. QED BY <1>4, <2>1, <2>3
<1>7. QED BY <1>5, <1>6 DEF RunFrom

LEMMA EscapedFirst ==
  ASSUME NEW i \in Nat
  PROVE  ~ Escaped(i, i)
  BY DEF Escaped

LEMMA EscapedNext ==
  ASSUME NEW i \in Nat, NEW j \in Nat, i < j
  PROVE  Escaped(i, j) <=> Char(j - 1) = "\\" /\ ~ Escaped(i, j - 1)
<1>0. j - 1 \in Nat
  OBVIOUS
<1>1. ASSUME NEW k \in Nat, RunFrom(i, k, j), k # j - 1 PROVE RunFrom(i, k, j - 1)
  <2>1. k \in i..((j - 1) - 1) /\ \A m \in k..((j - 1) - 1) : m \in k..(j - 1)
    BY <1>1 DEF RunFrom
  <2>2. QED BY <1>1, <2>1 DEF RunFrom, Run
<1>2. ASSUME Escaped(i, j) PROVE Char(j - 1) = "\\" /\ ~ Escaped(i, j - 1)
  <2>1. PICK k \in Nat : RunFrom(i, k, j) /\ (j - k) % 2 = 1
    BY <1>2, EscapedRun
  <2>2. j - 1 \in k..(j - 1)
    BY <2>1 DEF RunFrom
  <2>3. Char(j - 1) = "\\"
    BY <2>1, <2>2 DEF RunFrom, Run
  <2>4. ASSUME Escaped(i, j - 1) PROVE FALSE
    <3>1. PICK m \in Nat : RunFrom(i, m, j - 1) /\ ((j - 1) - m) % 2 = 1
      BY <1>0, <2>4, EscapedRun
    <3>2. m \in i..((j - 1) - 1) /\ (j - 1) - 1 \in m..((j - 1) - 1)
      BY <3>1 DEF RunFrom
    <3>3. Char((j - 1) - 1) = "\\"
      BY <3>1, <3>2 DEF RunFrom, Run
    <3>4. k # j - 1
      BY <2>1, <3>2, <3>3 DEF RunFrom
    <3>5. k = m
      BY <1>0, <1>1, <2>1, <3>1, <3>4, OneRun
    <3>6. QED BY <2>1, <3>1, <3>5
  <2>5. QED BY <2>3, <2>4
<1>3. ASSUME Char(j - 1) = "\\", ~ Escaped(i, j - 1) PROVE Escaped(i, j)
  <2>1. PICK k \in Nat : RunFrom(i, k, j)
    BY <1>3, RunExists
  <2>2. (j - k) % 2 = 1
    <3>1. CASE k = j - 1
      BY <3>1
    <3>2. CASE k # j - 1
      <4>1. ((j - 1) - k) % 2 # 1
        BY <1>0, <1>1, <1>3, <2>1, <3>2, EscapedRun
      <4>2. QED BY <4>1
    <3>3. QED BY <3>1, <3>2
  <2>3. QED BY <2>1, <2>2, EscapedRun
<1>4. QED BY <1>2, <1>3

BodyAt(i, j) ==
  /\ ~ Escaped(i, j)
  /\ \A k \in i..(j - 1) : IF Escaped(i, k) THEN Char(k) \in StringEscapes ELSE Char(k) # "\""

LEMMA BodyFirst ==
  ASSUME NEW i \in Nat
  PROVE  BodyAt(i, i)
<1>1. i..(i - 1) = {}
  OBVIOUS
<1>2. QED BY <1>1, EscapedFirst DEF BodyAt

LEMMA BodyNext ==
  ASSUME NEW i \in Nat, NEW j \in Nat, i < j
  PROVE  BodyAt(i, j) <=>
           \/ Char(j - 1) \notin {"\"", "\\"} /\ BodyAt(i, j - 1)
           \/ i < j - 1 /\ Char(j - 2) = "\\" /\ Char(j - 1) \in StringEscapes /\ BodyAt(i, j - 2)
<1>1. Escaped(i, j) <=> Char(j - 1) = "\\" /\ ~ Escaped(i, j - 1)
  BY EscapedNext
<1>2. i < j - 1 => (Escaped(i, j - 1) <=> Char(j - 2) = "\\" /\ ~ Escaped(i, j - 2))
  <2>1. j - 1 \in Nat /\ (j - 1) - 1 = j - 2
    OBVIOUS
  <2>2. QED BY <2>1, EscapedNext
<1>3. ~(i < j - 1) => ~ Escaped(i, j - 1)
  <2>1. ~(i < j - 1) => j - 1 = i
    OBVIOUS
  <2>2. QED BY <2>1, EscapedFirst
<1>4. "\\" # "\""
  OBVIOUS
<1>5. \A k : k \in i..(j - 1) <=> k = j - 1 \/ k \in i..((j - 1) - 1)
  OBVIOUS
<1>6. i < j - 1 => \A k : k \in i..((j - 1) - 1) <=> k = j - 2 \/ k \in i..((j - 2) - 1)
  OBVIOUS
<1> DEFINE Right(k) == IF Escaped(i, k) THEN Char(k) \in StringEscapes ELSE Char(k) # "\""
           Upto(m) == \A k \in i..(m - 1) : Right(k)
<1>7. Upto(j) <=> Right(j - 1) /\ Upto(j - 1)
  BY <1>5
<1>8. i < j - 1 => (Upto(j - 1) <=> Right(j - 2) /\ Upto(j - 2))
  BY <1>6
<1>9. \A m : BodyAt(i, m) <=> ~ Escaped(i, m) /\ Upto(m)
  BY DEF BodyAt
<1> HIDE DEF Upto
<1>10. QED BY <1>1, <1>2, <1>3, <1>4, <1>7, <1>8, <1>9

BodyStep(w, f, n) ==
  \/ n = 0
  \/ n > 0 /\ w[n] \notin {"\"", "\\"} /\ f[n - 1]
  \/ n > 1 /\ w[n - 1] = "\\" /\ w[n] \in StringEscapes /\ f[n - 2]

LEMMA BodyStepSame ==
  ASSUME NEW w, NEW n \in Nat, NEW f, NEW g, Below(f, g, n)
  PROVE  BodyStep(w, f, n) = BodyStep(w, g, n)
<1>1. n > 0 => n - 1 \in 0..(n - 1)
  OBVIOUS
<1>2. n > 1 => n - 2 \in 0..(n - 1)
  OBVIOUS
<1>3. /\ n > 0 => f[n - 1] = g[n - 1]
      /\ n > 1 => f[n - 2] = g[n - 2]
  BY <1>1, <1>2 DEF Below
<1>4. QED BY <1>3 DEF BodyStep

LEMMA BodyIs ==
  ASSUME NEW i, NEW j, Within(i, j)
  PROVE  IsStringBody(Slice(i, j)) <=> BodyAt(i, j)
<1> DEFINE w == Slice(i, j)
           n == Len(w)
           step == [p \in [0 .. n -> BOOLEAN] \X (0 .. n) |-> BodyStep(w, p[1], p[2])]
           body == CHOOSE of : of = [m \in 0 .. n |-> BodyStep(w, of, m)]
<1>1. i \in Nat /\ j \in Nat /\ i <= j
  BY TextLength DEF Within
<1>2. n \in Nat /\ n = j - i /\ \A m \in 1..n : w[m] = Char(i + m - 1)
  BY <1>1, SliceIs
<1>3. IsStringBody(w) <=> body[n]
  BY Zenon DEF IsStringBody, BodyStep
<1> HIDE DEF w, n
<1>4. \A f, m : BodyStep(w, f, m) \in BOOLEAN
  BY DEF BodyStep
<1>5. \A f \in [0 .. n -> BOOLEAN], m \in 0 .. n : step[<<f, m>>] = BodyStep(w, f, m)
  OBVIOUS
<1>6. step \in [[0 .. n -> BOOLEAN] \X (0 .. n) -> BOOLEAN]
  BY <1>4
<1> HIDE DEF step
<1>7. \A f, g \in [0 .. n -> BOOLEAN] : \A m \in 0 .. n : Below(f, g, m) => step[<<f, m>>] = step[<<g, m>>]
  <2>1. \A m \in 0 .. n : m \in Nat
    BY <1>2
  <2>2. QED BY <1>5, <2>1, BodyStepSame
<1>8. LooksBack(n, BOOLEAN, step)
  BY <1>6, <1>7 DEF LooksBack
<1>9. PICK f \in [0 .. n -> BOOLEAN] : \A m \in 0 .. n : f[m] = step[<<f, m>>]
  BY <1>2, <1>8, Recursion
<1>10. f = [m \in 0 .. n |-> BodyStep(w, f, m)]
  <2>1. \A m \in 0 .. n : f[m] = BodyStep(w, f, m)
    BY <1>5, <1>9
  <2>2. QED BY <2>1
<1>11. body = [m \in 0 .. n |-> BodyStep(w, body, m)]
  BY <1>10, Zenon
<1> HIDE DEF body
<1>12. \A m \in 0 .. n : body[m] = BodyStep(w, body, m)
  BY <1>11, Zenon
<1> DEFINE S == {m \in 0 .. n : body[m] <=> BodyAt(i, i + m)}
<1>13. ASSUME NEW m \in 0 .. n, 0 .. m - 1 \subseteq S PROVE m \in S
  <2>1. CASE m = 0
    <3>1. i + m = i
      BY <1>1, <2>1
    <3>2. body[m] /\ BodyAt(i, i + m)
      BY <1>1, <1>12, <2>1, <3>1, BodyFirst DEF BodyStep
    <3>3. QED BY <3>2
  <2>2. CASE m # 0
    <3> DEFINE e == i + m
    <3>1. m \in 1..n /\ e \in Nat /\ i < e /\ e - 1 = i + (m - 1) /\ e - 2 = i + (m - 2) /\ m - 1 \in 0 .. m - 1
          /\ (i < e - 1 <=> m > 1) /\ (m > 1 => m - 1 \in 1..n /\ m - 2 \in 0 .. m - 1)
      BY <1>1, <1>2, <2>2
    <3>2. w[m] = Char(e - 1) /\ (m > 1 => w[m - 1] = Char(e - 2))
      <4>1. i + m - 1 = e - 1 /\ i + (m - 1) - 1 = e - 2
        BY <1>1, <3>1
      <4>2. QED BY <1>2, <3>1, <4>1
    <3>3. body[m - 1] <=> BodyAt(i, e - 1)
      BY <1>13, <3>1
    <3>4. m > 1 => (body[m - 2] <=> BodyAt(i, e - 2))
      BY <1>13, <3>1
    <3>5. m > 0 /\ m # 0
      BY <3>1
    <3>6. BodyStep(w, body, m) <=>
            \/ w[m] \notin {"\"", "\\"} /\ body[m - 1]
            \/ m > 1 /\ w[m - 1] = "\\" /\ w[m] \in StringEscapes /\ body[m - 2]
      BY <3>5 DEF BodyStep
    <3>7. BodyAt(i, e) <=>
           \/ Char(e - 1) \notin {"\"", "\\"} /\ BodyAt(i, e - 1)
           \/ i < e - 1 /\ Char(e - 2) = "\\" /\ Char(e - 1) \in StringEscapes /\ BodyAt(i, e - 2)
      BY <1>1, <3>1, BodyNext
    <3>8. BodyStep(w, body, m) <=> BodyAt(i, e)
      <4> HIDE DEF e
      <4>1. QED BY <3>1, <3>2, <3>3, <3>4, <3>6, <3>7
    <3>9. body[m] = BodyStep(w, body, m)
      BY <1>12
    <3>10. QED BY <3>8, <3>9
  <2>3. QED BY <2>1, <2>2
<1> HIDE DEF S
<1>14. 0 .. n \subseteq S
  BY <1>2, <1>13, Everywhere
<1>15. n \in 0 .. n /\ i + n = j
  BY <1>1, <1>2
<1>16. body[n] <=> BodyAt(i, j)
  BY <1>14, <1>15 DEF S
<1>17. QED BY <1>3, <1>16 DEF w

-----------------------------------------------------------------------------
(* The other lexemes.                                                      *)

CharAt(i, j) ==
  \/ /\ j = i + 3 /\ Char(i) = "'" /\ Char(i + 2) = "'" /\ Char(i + 1) \notin {"'", "\\"}
  \/ /\ j = i + 4 /\ Char(i) = "'" /\ Char(i + 3) = "'" /\ Char(i + 1) = "\\" /\ Char(i + 2) \in CharEscapes
StringAt(i, j) == i + 1 < j /\ Char(i) = "\"" /\ Char(j - 1) = "\"" /\ BodyAt(i + 1, j - 1)
SymbolAt(i, j) ==
  \/ j = i + 1 /\ Char(i) \in DOMAIN Punctuation \cup DOMAIN Alone \cup {"/"}
  \/ j = i + 2 /\ Char(i) \in DOMAIN Pair /\ Char(i + 1) = Pair[Char(i)].next
LineAt(i, j) == i + 1 < j /\ Char(i) = "/" /\ Char(i + 1) = "/" /\ NoBreaks(i, j)
BlockAt(i, j) ==
  /\ i + 3 < j /\ Char(i) = "/" /\ Char(i + 1) = "*" /\ Char(j - 2) = "*" /\ Char(j - 1) = "/"
  /\ \A p \in (i + 2)..(j - 3) : ~(Char(p) = "*" /\ Char(p + 1) = "/")
BlankAt(i, j) ==
  \/ j = i + 1 /\ Char(i) \in Blanks \cup Breaks
  \/ LineAt(i, j)
  \/ BlockAt(i, j)

\* The characters of a slice, counted from its first.
LEMMA SliceChars ==
  ASSUME NEW i, NEW j, Within(i, j)
  PROVE  /\ i \in Nat /\ j \in Nat /\ i <= j /\ Len(Slice(i, j)) = j - i
         /\ i < j => Slice(i, j)[1] = Char(i) /\ Slice(i, j)[j - i] = Char(j - 1)
         /\ i + 1 < j => Slice(i, j)[2] = Char(i + 1) /\ Slice(i, j)[j - i - 1] = Char(j - 2)
         /\ i + 2 < j => Slice(i, j)[3] = Char(i + 2)
         /\ i + 3 < j => Slice(i, j)[4] = Char(i + 3)
<1>1. i \in Nat /\ j \in Nat /\ i <= j
  BY TextLength DEF Within
<1>2. Len(Slice(i, j)) = j - i /\ \A k \in 1..(j - i) : Slice(i, j)[k] = Char(i + k - 1)
  BY SliceIs
<1>3. ASSUME i < j PROVE Slice(i, j)[1] = Char(i) /\ Slice(i, j)[j - i] = Char(j - 1)
  <2>1. 1 \in 1..(j - i) /\ i + 1 - 1 = i /\ j - i \in 1..(j - i) /\ i + (j - i) - 1 = j - 1
    BY <1>1, <1>3
  <2>2. Slice(i, j)[1] = Char(i + 1 - 1) /\ Slice(i, j)[j - i] = Char(i + (j - i) - 1)
    BY <1>2, <2>1
  <2>3. QED BY <2>1, <2>2
<1>4. ASSUME i + 1 < j PROVE Slice(i, j)[2] = Char(i + 1) /\ Slice(i, j)[j - i - 1] = Char(j - 2)
  <2>1. 2 \in 1..(j - i) /\ i + 2 - 1 = i + 1 /\ j - i - 1 \in 1..(j - i) /\ i + (j - i - 1) - 1 = j - 2
    BY <1>1, <1>4
  <2>2. Slice(i, j)[2] = Char(i + 2 - 1) /\ Slice(i, j)[j - i - 1] = Char(i + (j - i - 1) - 1)
    BY <1>2, <2>1
  <2>3. QED BY <2>1, <2>2
<1>5. ASSUME i + 2 < j PROVE Slice(i, j)[3] = Char(i + 2)
  <2>1. 3 \in 1..(j - i) /\ i + 3 - 1 = i + 2
    BY <1>1, <1>5
  <2>2. Slice(i, j)[3] = Char(i + 3 - 1)
    BY <1>2, <2>1
  <2>3. QED BY <2>1, <2>2
<1>6. ASSUME i + 3 < j PROVE Slice(i, j)[4] = Char(i + 3)
  <2>1. 4 \in 1..(j - i) /\ i + 4 - 1 = i + 3
    BY <1>1, <1>6
  <2>2. Slice(i, j)[4] = Char(i + 4 - 1)
    BY <1>2, <2>1
  <2>3. QED BY <2>1, <2>2
<1>7. QED BY <1>1, <1>2, <1>3, <1>4, <1>5, <1>6

LEMMA CharIs ==
  ASSUME NEW i, NEW j, Within(i, j)
  PROVE  IsCharLiteral(Slice(i, j)) <=> CharAt(i, j)
<1> DEFINE w == Slice(i, j)
<1>1. i \in Nat /\ j \in Nat /\ i <= j /\ Len(w) = j - i
  BY SliceChars
<1>2. CASE j = i + 3
  <2>1. Len(w) = 3 /\ i + 2 = j - 1
    BY <1>1, <1>2
  <2>2. w[1] = Char(i) /\ w[2] = Char(i + 1) /\ w[3] = Char(i + 2)
    <3>1. i < j /\ i + 1 < j /\ i + 2 < j
      BY <1>1, <1>2
    <3>2. QED BY <3>1, SliceChars
  <2> HIDE DEF w
  <2>3. IsCharLiteral(w) <=> w[1] = "'" /\ w[3] = "'" /\ w[2] \notin {"'", "\\"}
    BY <2>1 DEF IsCharLiteral
  <2>4. j # i + 4
    BY <1>1, <1>2
  <2>5. QED BY <1>2, <2>2, <2>3, <2>4 DEF CharAt, w
<1>3. CASE j = i + 4
  <2>1. Len(w) = 4
    BY <1>1, <1>3
  <2>2. w[1] = Char(i) /\ w[2] = Char(i + 1) /\ w[3] = Char(i + 2) /\ w[4] = Char(i + 3)
    BY <1>1, <1>3, SliceChars
  <2> HIDE DEF w
  <2>3. IsCharLiteral(w) <=> w[1] = "'" /\ w[4] = "'" /\ w[2] = "\\" /\ w[3] \in CharEscapes
    BY <2>1 DEF IsCharLiteral
  <2>4. j # i + 3
    BY <1>1, <1>3
  <2>5. QED BY <1>3, <2>2, <2>3, <2>4 DEF CharAt, w
<1>4. CASE j # i + 3 /\ j # i + 4
  <2>1. Len(w) \notin {3, 4}
    BY <1>1, <1>4
  <2>2. QED BY <1>4, <2>1 DEF IsCharLiteral, CharAt
<1>5. QED BY <1>2, <1>3, <1>4

LEMMA StringIs ==
  ASSUME NEW i, NEW j, Within(i, j)
  PROVE  IsString(Slice(i, j)) <=> StringAt(i, j)
<1> DEFINE w == Slice(i, j)
<1>1. i \in Nat /\ j \in Nat /\ i <= j /\ Len(w) = j - i
  BY SliceChars
<1>2. CASE i + 1 < j
  <2>1. w[1] = Char(i) /\ w[Len(w)] = Char(j - 1)
    BY <1>1, <1>2, SliceChars
  <2>2. /\ 2 \in 1..(j - i + 1) /\ Len(w) - 1 \in (2 - 1)..(j - i)
        /\ i + 2 - 1 = i + 1 /\ i + (Len(w) - 1) = j - 1
    BY <1>1, <1>2
  <2>3. SubSeq(w, 2, Len(w) - 1) = Slice(i + 2 - 1, i + (Len(w) - 1)) /\ Within(i + 2 - 1, i + (Len(w) - 1))
    <3> DEFINE b == Len(w) - 1
    <3>1. b \in (2 - 1)..(j - i)
      BY <2>2
    <3> HIDE DEF b
    <3>2. SubSeq(w, 2, b) = Slice(i + 2 - 1, i + b) /\ Within(i + 2 - 1, i + b)
      BY <2>2, <3>1, SubSlice
    <3>3. QED BY <3>2 DEF b
  <2>4. IsStringBody(SubSeq(w, 2, Len(w) - 1)) <=> BodyAt(i + 1, j - 1)
    BY <2>2, <2>3, BodyIs
  <2>5. Len(w) > 1
    BY <1>1, <1>2
  <2> HIDE DEF w
  <2>6. QED BY <1>2, <2>1, <2>4, <2>5 DEF IsString, StringAt, w
<1>3. CASE ~(i + 1 < j)
  <2>1. ~(Len(w) > 1)
    BY <1>1, <1>3
  <2>2. QED BY <1>3, <2>1 DEF IsString, StringAt
<1>4. QED BY <1>2, <1>3

LEMMA SymbolIs ==
  ASSUME NEW i, NEW j, Within(i, j)
  PROVE  IsSymbol(Slice(i, j)) <=> SymbolAt(i, j)
<1>1. /\ i \in Nat /\ j \in Nat /\ i <= j /\ Len(Slice(i, j)) = j - i
      /\ i < j => Slice(i, j)[1] = Char(i)
      /\ i + 1 < j => Slice(i, j)[2] = Char(i + 1)
  BY SliceChars
<1>2. /\ Len(Slice(i, j)) = 1 <=> j = i + 1
      /\ Len(Slice(i, j)) = 2 <=> j = i + 2
      /\ j = i + 1 => i < j
      /\ j = i + 2 => i < j /\ i + 1 < j
  BY <1>1
<1>3. QED BY <1>1, <1>2 DEF IsSymbol, SymbolAt

\* A slice of two characters.
LEMMA TwoIs ==
  ASSUME NEW i, NEW j, Within(i, j), i + 1 < j, NEW a, NEW b
  PROVE  /\ SubSeq(Slice(i, j), 1, 2) = <<a, b>> <=> Char(i) = a /\ Char(i + 1) = b
         /\ Rest(Slice(i, j), Len(Slice(i, j)) - 1) = <<a, b>> <=> Char(j - 2) = a /\ Char(j - 1) = b
<1>1. /\ i \in Nat /\ j \in Nat /\ i <= j /\ Len(Slice(i, j)) = j - i
  BY SliceChars
<1>2. ASSUME NEW p \in Nat, Within(p, p + 2)
      PROVE  Slice(p, p + 2) = <<a, b>> <=> Char(p) = a /\ Char(p + 1) = b
  <2> DEFINE T == STRING \cup {a, b}
  <2>1. /\ Slice(p, p + 2) \in Seq(T) /\ Len(Slice(p, p + 2)) = 2
        /\ Slice(p, p + 2)[1] = Char(p) /\ Slice(p, p + 2)[2] = Char(p + 1)
    <3>1. (p + 2) - p = 2 /\ p < p + 2 /\ p + 1 < p + 2
      BY <1>2
    <3>2. Slice(p, p + 2) \in Seq(STRING) /\ STRING \subseteq T
      BY <1>2, SliceIs
    <3>3. QED BY <1>2, <3>1, <3>2, SliceChars, SeqMonotonic
  <2>2. <<a, b>> \in Seq(T) /\ Len(<<a, b>>) = 2 /\ <<a, b>>[1] = a /\ <<a, b>>[2] = b
    OBVIOUS
  <2>3. ASSUME Char(p) = a, Char(p + 1) = b PROVE Slice(p, p + 2) = <<a, b>>
    <3>1. \A k \in 1..Len(Slice(p, p + 2)) : Slice(p, p + 2)[k] = <<a, b>>[k]
      BY <2>1, <2>2, <2>3
    <3>2. QED BY <2>1, <2>2, <3>1, SeqEqual
  <2>4. QED BY <2>1, <2>2, <2>3
<1>3. SubSeq(Slice(i, j), 1, 2) = Slice(i, i + 2) /\ Within(i, i + 2)
  <2>1. 1 \in 1..(j - i + 1) /\ 2 \in (1 - 1)..(j - i) /\ i + 1 - 1 = i
    BY <1>1
  <2>2. SubSeq(Slice(i, j), 1, 2) = Slice(i + 1 - 1, i + 2) /\ Within(i + 1 - 1, i + 2)
    BY <2>1, SubSlice
  <2>3. QED BY <2>1, <2>2
<1>4. Rest(Slice(i, j), Len(Slice(i, j)) - 1) = Slice(j - 2, j) /\ Within(j - 2, j)
  <2>1. /\ j - i - 1 \in 1..(j - i + 1) /\ j - i \in ((j - i - 1) - 1)..(j - i)
        /\ i + (j - i - 1) - 1 = j - 2 /\ i + (j - i) = j
    BY <1>1
  <2>2. /\ SubSeq(Slice(i, j), j - i - 1, j - i) = Slice(i + (j - i - 1) - 1, i + (j - i))
        /\ Within(i + (j - i - 1) - 1, i + (j - i))
    BY <2>1, SubSlice
  <2>3. QED BY <1>1, <2>1, <2>2 DEF Rest
<1>5. j - 2 \in Nat /\ (j - 2) + 2 = j /\ (j - 2) + 1 = j - 1
  BY <1>1
<1>6. Slice(i, i + 2) = <<a, b>> <=> Char(i) = a /\ Char(i + 1) = b
  BY <1>1, <1>2, <1>3
<1>7. Slice(j - 2, j) = <<a, b>> <=> Char(j - 2) = a /\ Char(j - 1) = b
  BY <1>2, <1>4, <1>5
<1>8. QED BY <1>3, <1>4, <1>6, <1>7

LEMMA BlockIs ==
  ASSUME NEW i, NEW j, Within(i, j)
  PROVE  IsBlockComment(Slice(i, j)) <=> BlockAt(i, j)
<1> DEFINE w == Slice(i, j)
<1>1. i \in Nat /\ j \in Nat /\ i <= j /\ Len(w) = j - i
  BY SliceChars
<1>2. CASE i + 3 < j
  <2>1. Len(w) > 3 /\ i + 1 < j
    BY <1>1, <1>2
  <2>2. SubSeq(w, 1, 2) = <<"/", "*">> <=> Char(i) = "/" /\ Char(i + 1) = "*"
    BY <2>1, TwoIs
  <2>3. Rest(w, Len(w) - 1) = <<"*", "/">> <=> Char(j - 2) = "*" /\ Char(j - 1) = "/"
    BY <2>1, TwoIs
  <2>4. \A k \in 1..(j - i) : w[k] = Char(i + k - 1)
    BY SliceIs
  <2>5. (\A k \in 3..(Len(w) - 2) : ~(w[k] = "*" /\ w[k + 1] = "/"))
          <=> \A p \in (i + 2)..(j - 3) : ~(Char(p) = "*" /\ Char(p + 1) = "/")
    <3> HIDE DEF w
    <3>1. ASSUME NEW k \in 3..(Len(w) - 2)
          PROVE  i + k - 1 \in (i + 2)..(j - 3) /\ w[k] = Char(i + k - 1) /\ w[k + 1] = Char((i + k - 1) + 1)
      <4>1. /\ i + k - 1 \in (i + 2)..(j - 3) /\ k \in 1..(j - i) /\ k + 1 \in 1..(j - i)
            /\ i + (k + 1) - 1 = (i + k - 1) + 1
        BY <1>1
      <4>2. w[k + 1] = Char(i + (k + 1) - 1)
        BY <2>4, <4>1
      <4>3. QED BY <2>4, <4>1, <4>2
    <3>2. ASSUME NEW p \in (i + 2)..(j - 3)
          PROVE  p - i + 1 \in 3..(Len(w) - 2) /\ i + (p - i + 1) - 1 = p
      BY <1>1
    <3>3. ASSUME NEW p \in (i + 2)..(j - 3)
          PROVE  w[p - i + 1] = Char(p) /\ w[(p - i + 1) + 1] = Char(p + 1)
      <4> DEFINE k == p - i + 1
      <4>1. k \in 3..(Len(w) - 2) /\ i + k - 1 = p
        BY <3>2
      <4> HIDE DEF k
      <4>2. w[k] = Char(p) /\ w[k + 1] = Char(p + 1)
        BY <3>1, <4>1
      <4>3. QED BY <4>2 DEF k
    <3>4. ASSUME \A k \in 3..(Len(w) - 2) : ~(w[k] = "*" /\ w[k + 1] = "/"), NEW p \in (i + 2)..(j - 3)
          PROVE  ~(Char(p) = "*" /\ Char(p + 1) = "/")
      BY <3>2, <3>3, <3>4
    <3>5. ASSUME \A p \in (i + 2)..(j - 3) : ~(Char(p) = "*" /\ Char(p + 1) = "/"), NEW k \in 3..(Len(w) - 2)
          PROVE  ~(w[k] = "*" /\ w[k + 1] = "/")
      BY <3>1, <3>5
    <3>6. QED BY <3>4, <3>5
  <2> HIDE DEF w
  <2>6. QED BY <1>2, <2>1, <2>2, <2>3, <2>5 DEF IsBlockComment, BlockAt, w
<1>3. CASE ~(i + 3 < j)
  <2>1. ~(Len(w) > 3)
    BY <1>1, <1>3
  <2>2. QED BY <1>3, <2>1 DEF IsBlockComment, BlockAt
<1>4. QED BY <1>2, <1>3

LEMMA BlankIs ==
  ASSUME NEW i, NEW j, Within(i, j)
  PROVE  IsBlank(Slice(i, j)) <=> BlankAt(i, j)
<1> DEFINE w == Slice(i, j)
<1>1. i \in Nat /\ j \in Nat /\ i <= j /\ Len(w) = j - i /\ (i < j => w[1] = Char(i))
  BY SliceChars
<1>2. Len(w) = 1 /\ w[1] \in Blanks \cup Breaks <=> j = i + 1 /\ Char(i) \in Blanks \cup Breaks
  BY <1>1
<1>3. Len(w) > 1 /\ SubSeq(w, 1, 2) = <<"/", "/">> /\ Range(w) \cap Breaks = {} <=> LineAt(i, j)
  <2>1. Range(w) \cap Breaks = {} <=> NoBreaks(i, j)
    <3> DEFINE T == {c \in Range(w) \cup {Char(k) : k \in i..(j - 1)} : c \notin Breaks}
    <3>1. Range(w) \cap Breaks = {} <=> Range(w) \subseteq T
      OBVIOUS
    <3>2. NoBreaks(i, j) <=> \A k \in i..(j - 1) : Char(k) \in T
      BY DEF NoBreaks
    <3> HIDE DEF T
    <3>3. QED BY <3>1, <3>2, SliceWithin
  <2>2. Len(w) > 1 <=> i + 1 < j
    BY <1>1
  <2>3. i + 1 < j => (SubSeq(w, 1, 2) = <<"/", "/">> <=> Char(i) = "/" /\ Char(i + 1) = "/")
    BY TwoIs
  <2> HIDE DEF w
  <2>4. QED BY <2>1, <2>2, <2>3 DEF LineAt
<1>4. IsBlockComment(w) <=> BlockAt(i, j)
  BY BlockIs
<1> HIDE DEF w
<1>5. QED BY <1>2, <1>3, <1>4 DEF IsBlank, BlankAt, w

LexemeAt(i, j) ==
  NumberAt(i, j) \/ WordAt(i, j) \/ CharAt(i, j) \/ StringAt(i, j) \/ SymbolAt(i, j) \/ BlankAt(i, j)

LEMMA LexemeIs ==
  ASSUME NEW i, NEW j, Within(i, j)
  PROVE  Lexeme(i, j) <=> LexemeAt(i, j)
<1>1. /\ IsNumber(Slice(i, j)) <=> NumberAt(i, j)
      /\ IsWord(Slice(i, j)) <=> WordAt(i, j)
      /\ IsCharLiteral(Slice(i, j)) <=> CharAt(i, j)
      /\ IsString(Slice(i, j)) <=> StringAt(i, j)
      /\ IsSymbol(Slice(i, j)) <=> SymbolAt(i, j)
      /\ IsBlank(Slice(i, j)) <=> BlankAt(i, j)
  BY NumberIs, WordIs, CharIs, StringIs, SymbolIs, BlankIs
<1>2. QED BY <1>1, Zenon DEF Lexeme, IsToken, LexemeAt

-----------------------------------------------------------------------------
(* The first character of a lexeme says of which kind it is.               *)

LEMMA Kinds ==
  /\ \A c \in Digit :
       c \notin Letters \cup {"_", "'", "\"", "/"} \cup Blanks \cup Breaks \cup DOMAIN Punctuation \cup DOMAIN Pair
  /\ \A c \in Letters :
       c \notin Digit \cup {"'", "\"", "/"} \cup Blanks \cup Breaks \cup DOMAIN Punctuation \cup DOMAIN Pair
  /\ "_" \notin Digit
  BY ClassesAssumption, CharactersAssumption DEF Digit

LEMMA Marks ==
  /\ DOMAIN Punctuation = {",", ";", "(", ")", "[", "]", "{", "}", "+", "-", "*", "%", "."}
  /\ DOMAIN Pair = {"&", "|", "!", "=", "<", ">"} /\ DOMAIN Alone = {"!", "=", "<", ">"}
  BY DEF Punctuation, Pair, Alone

LEMMA FirstOfDigits ==
  ASSUME NEW i \in Nat, NEW j \in Nat, DigitsAt(i, j)
  PROVE  i < j /\ Char(i) \in Digit
  BY DEF DigitsAt

LEMMA FirstOfNumber ==
  ASSUME NEW i \in Nat, NEW j \in Nat, NumberAt(i, j)
  PROVE  i < j /\ Char(i) \in Digit
<1>1. ASSUME NEW k \in Nat, MantissaAt(i, k) PROVE i < k /\ Char(i) \in Digit
  <2>1. CASE DigitsAt(i, k)
    BY <2>1, FirstOfDigits
  <2>2. CASE \E p \in (i + 1)..(k - 1) : DigitsAt(i, p)
    <3>1. PICK p \in (i + 1)..(k - 1) : DigitsAt(i, p)
      BY <2>2
    <3>2. p \in Nat /\ p < k
      BY <1>1, <3>1
    <3>3. QED BY <3>1, <3>2, FirstOfDigits
  <2>3. QED BY <1>1, <2>1, <2>2 DEF MantissaAt
<1>2. CASE MantissaAt(i, j)
  BY <1>1, <1>2
<1>3. CASE \E p \in (i + 1)..(j - 1) : MantissaAt(i, p)
  <2>1. PICK p \in (i + 1)..(j - 1) : MantissaAt(i, p)
    BY <1>3
  <2>2. p \in Nat /\ p < j
    BY <2>1
  <2>3. QED BY <1>1, <2>1, <2>2
<1>4. QED BY <1>2, <1>3 DEF NumberAt

LEMMA FirstChars ==
  ASSUME NEW i, NEW j, Within(i, j)
  PROVE  /\ NumberAt(i, j) => Char(i) \in Digit
         /\ WordAt(i, j) => Char(i) \in Letters \cup {"_"}
         /\ CharAt(i, j) => Char(i) = "'"
         /\ StringAt(i, j) => Char(i) = "\""
         /\ SymbolAt(i, j) => Char(i) \in DOMAIN Punctuation \cup DOMAIN Pair \cup {"/"}
         /\ BlankAt(i, j) => Char(i) \in Blanks \cup Breaks \cup {"/"}
<1>1. i \in Nat /\ j \in Nat
  BY SliceChars
<1>2. NumberAt(i, j) => Char(i) \in Digit
  BY <1>1, FirstOfNumber
<1>3. WordAt(i, j) => Char(i) \in Letters \cup {"_"}
  <2>1. i < j => i \in i..(j - 1)
    BY <1>1
  <2>2. QED BY <2>1 DEF WordAt, WordChars
<1>4. CharAt(i, j) => Char(i) = "'"
  BY DEF CharAt
<1>5. StringAt(i, j) => Char(i) = "\""
  BY DEF StringAt
<1>6. SymbolAt(i, j) => Char(i) \in DOMAIN Punctuation \cup DOMAIN Pair \cup {"/"}
  <2>1. DOMAIN Alone \subseteq DOMAIN Pair
    BY Marks
  <2>2. QED BY <2>1 DEF SymbolAt
<1>7. BlankAt(i, j) => Char(i) \in Blanks \cup Breaks \cup {"/"}
  BY DEF BlankAt, LineAt, BlockAt
<1>8. QED BY <1>2, <1>3, <1>4, <1>5, <1>6, <1>7

LEMMA Only ==
  ASSUME NEW i, NEW j, Within(i, j)
  PROVE  /\ Char(i) \in Digit => (Lexeme(i, j) <=> NumberAt(i, j))
         /\ Char(i) \in Letters \cup {"_"} => (Lexeme(i, j) <=> WordAt(i, j))
         /\ Char(i) = "'" => (Lexeme(i, j) <=> CharAt(i, j))
         /\ Char(i) = "\"" => (Lexeme(i, j) <=> StringAt(i, j))
         /\ Char(i) \in DOMAIN Punctuation \cup DOMAIN Pair => (Lexeme(i, j) <=> SymbolAt(i, j))
         /\ Char(i) = "/" => (Lexeme(i, j) <=> SymbolAt(i, j) \/ BlankAt(i, j))
         /\ Char(i) \in Blanks \cup Breaks => (Lexeme(i, j) <=> BlankAt(i, j))
         /\ Char(i) \notin Digit \cup Letters \cup {"_", "'", "\"", "/"} \cup Blanks \cup Breaks
                             \cup DOMAIN Punctuation \cup DOMAIN Pair => ~ Lexeme(i, j)
<1> DEFINE c == Char(i)
           P == DOMAIN Punctuation \cup DOMAIN Pair
           B == Blanks \cup Breaks
<1>1. Lexeme(i, j) <=> LexemeAt(i, j)
  BY LexemeIs
<1>2. /\ NumberAt(i, j) => c \in Digit
      /\ WordAt(i, j) => c \in Letters \cup {"_"}
      /\ CharAt(i, j) => c = "'"
      /\ StringAt(i, j) => c = "\""
      /\ SymbolAt(i, j) => c \in P \cup {"/"}
      /\ BlankAt(i, j) => c \in B \cup {"/"}
  BY FirstChars
<1>3. /\ c \in Digit => c \notin Letters \cup {"_", "'", "\"", "/"} \cup B \cup P
      /\ c \in Letters => c \notin Digit \cup {"'", "\"", "/"} \cup B \cup P
      /\ "_" \notin Digit
  BY Kinds
<1>4. /\ {"_", "'", "\"", "/"} \cap P = {} /\ B \cap P = {} /\ {"_", "'", "\"", "/"} \cap B = {}
  BY Marks DEF Blanks, Breaks
<1> HIDE DEF c, P, B
<1>5. /\ c \in Digit => (LexemeAt(i, j) <=> NumberAt(i, j))
      /\ c \in Letters \cup {"_"} => (LexemeAt(i, j) <=> WordAt(i, j))
      /\ c = "'" => (LexemeAt(i, j) <=> CharAt(i, j))
      /\ c = "\"" => (LexemeAt(i, j) <=> StringAt(i, j))
  BY <1>2, <1>3, <1>4 DEF LexemeAt
<1>6. /\ c \in P => (LexemeAt(i, j) <=> SymbolAt(i, j))
      /\ c = "/" => (LexemeAt(i, j) <=> SymbolAt(i, j) \/ BlankAt(i, j))
      /\ c \in B => (LexemeAt(i, j) <=> BlankAt(i, j))
      /\ c \notin Digit \cup Letters \cup {"_", "'", "\"", "/"} \cup B \cup P => ~ LexemeAt(i, j)
  BY <1>2, <1>3, <1>4 DEF LexemeAt
<1>7. QED BY <1>1, <1>5, <1>6 DEF c, P, B

-----------------------------------------------------------------------------
(* What a step has to do with the reading of the text from its place on.   *)

Passes(i, j) == TokensFrom(i) = TokensFrom(j) /\ (GoodFrom(i) <=> GoodFrom(j))
Reads(i, j) == Readable(i) /\ Longest(i) = j /\ ~ IsBlank(Slice(i, j))

LEMMA BlankPasses ==
  ASSUME text \in Texts, NEW i \in 1..Len(text), NEW j \in (i + 1)..(Len(text) + 1),
         Longest(i) = j, ~ Refused(i), BlankAt(i, j)
  PROVE  Passes(i, j)
<1>1. Len(text) \in Nat /\ i \in Nat /\ i # Len(text) + 1 /\ i \in 1..(Len(text) + 1)
      /\ j \in 1..(Len(text) + 1) /\ j > i /\ j \in i..(Len(text) + 1)
  BY TextLength
<1>2. Readable(i)
  BY <1>1 DEF Readable
<1>3. IsBlank(Slice(i, j))
  <2>1. Within(i, j)
    BY <1>1 DEF Within
  <2>2. QED BY <2>1, BlankIs
<1>4. TokensFrom(j) \in Spans
  BY <1>1, TokensUnfold
<1>5. TokensFrom(i) = <<>> \o TokensFrom(j)
  BY <1>1, <1>2, <1>3, TokensUnfold
<1>6. TokensFrom(i) = TokensFrom(j)
  BY <1>4, <1>5, ConcatEmptySeq DEF Spans
<1>7. GoodFrom(i) <=> GoodFrom(j)
  BY <1>1, <1>2, GoodUnfold
<1>8. QED BY <1>6, <1>7 DEF Passes

LEMMA PassesOn ==
  ASSUME NEW i, NEW j, NEW k, Passes(i, j), Passes(j, k)
  PROVE  Passes(i, k)
  BY DEF Passes

\* Only numbers and comments may be refused.
LEMMA NotRefused ==
  ASSUME text \in Texts, NEW i \in 1..(Len(text) + 1), Char(i) \notin Digit \cup {"/"}
  PROVE  ~ Refused(i)
<1> DEFINE j == Longest(i)
           w == Slice(i, j)
<1>1. Within(i, j)
  BY LongestOne DEF Within
<1>2. ~ NumberAt(i, j) /\ i \in Nat /\ j \in Nat
  BY <1>1, FirstChars, SliceChars
<1>3. ~ IsNumber(w)
  BY <1>1, <1>2, NumberIs
<1>4. ~ IsMantissa(w) /\ ~ IsDigits(w)
  BY <1>3 DEF IsNumber, IsMantissa
<1> HIDE DEF w, j
<1>5. Char(i) # "/"
  OBVIOUS
<1>6. Refused(i) <=> \/ Char(i) = "/" /\ Char(i + 1) = "*" /\ ~IsBlockComment(w)
                     \/ IsDigits(w) /\ (Char(j) = "." \/ Decimal(w) > LongMax)
                     \/ IsMantissa(w) /\ Char(j) \in {"e", "E"}
                     \/ IsNumber(w) /\ ~IsDigits(w) /\ w \in HugeDoubles
  BY Zenon DEF Refused, w, j
<1>7. QED BY <1>3, <1>4, <1>5, <1>6

\* A blank or a break is read alone.
LEMMA OneBlank ==
  ASSUME text \in Texts, NEW i \in 1..Len(text), Char(i) \in Blanks \cup Breaks
  PROVE  Passes(i, i + 1) /\ i + 1 \in 1..(Len(text) + 1)
<1>1. Len(text) \in Nat /\ i \in Nat /\ i \in 1..(Len(text) + 1) /\ i + 1 \in (i + 1)..(Len(text) + 1)
      /\ i + 1 \in i..(Len(text) + 1) /\ i + 1 \in 1..(Len(text) + 1)
  BY TextLength
<1>2. Char(i) # "/" /\ Char(i) \notin Digit
  BY Kinds DEF Blanks, Breaks
<1>3. ASSUME NEW k \in i..(Len(text) + 1)
      PROVE  Lexeme(i, k) <=> k = i + 1
  <2>1. Within(i, k)
    BY <1>1 DEF Within
  <2>2. Lexeme(i, k) <=> BlankAt(i, k)
    BY <2>1, Only
  <2>3. BlankAt(i, k) <=> k = i + 1
    BY <1>2 DEF BlankAt, LineAt, BlockAt
  <2>4. QED BY <2>2, <2>3
<1>4. Longest(i) = i + 1
  <2>1. \A k \in (i + 1 + 1)..(Len(text) + 1) : k \in i..(Len(text) + 1) /\ k # i + 1
    BY <1>1
  <2>2. QED BY <1>1, <1>3, <2>1, LongestIs
<1>5. ~ Refused(i)
  BY <1>1, <1>2, NotRefused
<1>6. BlankAt(i, i + 1)
  BY DEF BlankAt
<1>7. QED BY <1>1, <1>4, <1>5, <1>6, BlankPasses

-----------------------------------------------------------------------------
(* One lemma for each step of tokenize: it passes blanks, takes the        *)
(* longest lexeme, stops where there is none, or is at the end.            *)

Fits(type, value, w) ==
  \/ type = "INT" /\ IsDigits(w)
  \/ type = "DOUBLE" /\ IsNumber(w) /\ ~IsDigits(w)
  \/ type = "CHAR" /\ IsCharLiteral(w)
  \/ type = "STRING" /\ IsString(w)
  \/ type = KeywordOf(w) /\ IsWord(w) /\ (type = "ID" => value = w)
  \/ type = SymbolType(w) /\ IsSymbol(w)

Passed == \E to \in (at + 1)..(Len(text) + 1) : \E lines : Skip(to, lines) /\ Passes(at, to)
Taken ==
  \E to \in (at + 1)..(Len(text) + 1) : \E lines, type, value :
    /\ AddToken(type, value, to, lines) /\ Reads(at, to)
    /\ Fits(type, value, Slice(at, to))
Stopped == Fail /\ at \in 1..Len(text) /\ ~ Readable(at)
Closed == End /\ at = Len(text) + 1

LEMMA BlankPassed == IInv /\ Blank => Passed
<1> SUFFICES ASSUME IInv, Blank PROVE Passed
  OBVIOUS
<1>1. Char(at) \in Blanks /\ Char(at) # NUL /\ Skip(at + 1, 0)
  BY DEF Blank, Blanks, NUL
<1>2. at \in 1..Len(text) /\ Len(text) \in Nat /\ text \in Texts
  BY <1>1, InsideText, Places
<1>3. Passes(at, at + 1) /\ at + 1 \in (at + 1)..(Len(text) + 1)
  BY <1>1, <1>2, OneBlank
<1>4. QED BY <1>1, <1>3 DEF Passed

LEMMA LineBreakPassed == IInv /\ LineBreak => Passed
<1> SUFFICES ASSUME IInv, LineBreak PROVE Passed
  OBVIOUS
<1>1. Char(at) \in Breaks /\ Char(at) # NUL
  BY DEF LineBreak, Breaks, NUL
<1>2. at \in 1..Len(text) /\ Len(text) \in Nat /\ text \in Texts
  BY <1>1, InsideText, Places
<1>3. Passes(at, at + 1) /\ at + 1 \in (at + 1)..(Len(text) + 1)
  BY <1>1, <1>2, OneBlank
<1>4. CASE Char(at) = "\r" /\ Char(at + 1) = "\n"
  <2>1. at + 1 \in 1..Len(text) /\ Char(at + 1) \in Breaks
    <3>1. Char(at + 1) # NUL /\ Char(at + 1) \in Breaks
      BY <1>4 DEF Breaks, NUL
    <3>2. QED BY <3>1, InsideText
  <2>2. Passes(at + 1, at + 1 + 1) /\ at + 1 + 1 \in 1..(Len(text) + 1)
    BY <1>2, <2>1, OneBlank
  <2>3. at + 1 + 1 = at + 2 /\ at + 2 \in (at + 1)..(Len(text) + 1)
    BY <1>2, <2>1
  <2>4. Passes(at, at + 2)
    BY <1>3, <2>2, <2>3, PassesOn
  <2>5. Skip(at + 2, 1)
    BY <1>4 DEF LineBreak
  <2>6. QED BY <2>3, <2>4, <2>5 DEF Passed
<1>5. CASE ~(Char(at) = "\r" /\ Char(at + 1) = "\n")
  <2>1. Skip(at + 1, 1)
    BY <1>5 DEF LineBreak
  <2>2. QED BY <1>3, <2>1 DEF Passed
<1>6. QED BY <1>4, <1>5

LEMMA EndClosed == IInv /\ End => Closed
<1> SUFFICES ASSUME IInv, End PROVE Closed
  OBVIOUS
<1>1. Char(at) = NUL /\ text \in Texts /\ at \in 1..(Len(text) + 1) /\ Len(text) \in Nat
  BY Places DEF End
<1>2. text \in Seq(STRING) /\ NUL \notin Range(text)
  BY <1>1, TextsAreSequences, TerminatorAssumption
<1>3. ASSUME at \in 1..Len(text) PROVE FALSE
  <2>1. DOMAIN text = 1..Len(text)
    BY <1>2, LenProperties
  <2>2. text[at] = NUL
    BY <1>1, <1>3 DEF Char
  <2>3. QED BY <1>2, <1>3, <2>1, <2>2 DEF Range
<1>4. QED BY <1>1, <1>3 DEF Closed

LEMMA InText ==
  ASSUME text \in Texts, NEW i \in 1..Len(text)
  PROVE  Char(i) # NUL
<1>1. text \in Seq(STRING) /\ NUL \notin Range(text)
  BY TextsAreSequences, TerminatorAssumption
<1>2. DOMAIN text = 1..Len(text)
  BY <1>1, LenProperties
<1>3. QED BY <1>1, <1>2 DEF Char, Range

LEMMA MinLeast ==
  ASSUME NEW S, S \subseteq Nat, S # {}
  PROVE  Min(S) \in S /\ \A x \in S : Min(S) <= x
  BY FirstPlace DEF Min

\* Nothing is read where there is no lexeme.
LEMMA Stops ==
  ASSUME IInv, Fail, at \in 1..Len(text), \A k \in (at + 1)..(Len(text) + 1) : ~ Lexeme(at, k)
  PROVE  Stopped
<1>1. at \in 1..(Len(text) + 1) /\ at \in at..(Len(text) + 1) /\ text \in Texts
  BY Places
<1>2. Longest(at) = at
  BY <1>1, LongestIs
<1>3. ~ Readable(at)
  BY <1>1, <1>2 DEF Readable
<1>4. QED BY <1>3 DEF Stopped

LEMMA Takes ==
  ASSUME IInv, at \in 1..Len(text), NEW to \in (at + 1)..(Len(text) + 1),
         Lexeme(at, to), \A k \in (to + 1)..(Len(text) + 1) : ~ Lexeme(at, k),
         ~ Refused(at), ~ BlankAt(at, to),
         NEW type, NEW value, NEW lines, AddToken(type, value, to, lines), Fits(type, value, Slice(at, to))
  PROVE  Taken
<1>1. at \in 1..(Len(text) + 1) /\ to \in at..(Len(text) + 1) /\ text \in Texts /\ to > at
  BY Places
<1>2. Longest(at) = to
  BY <1>1, LongestIs
<1>3. Readable(at)
  BY <1>1, <1>2 DEF Readable
<1>4. ~ IsBlank(Slice(at, to))
  <2>1. Within(at, to)
    BY <1>1 DEF Within
  <2>2. QED BY <2>1, BlankIs
<1>5. Reads(at, to)
  BY <1>2, <1>3, <1>4 DEF Reads
<1>6. QED BY <1>5 DEF Taken

LEMMA TakesPlain ==
  ASSUME IInv, at \in 1..Len(text), NEW to \in (at + 1)..(Len(text) + 1),
         Char(at) \notin Digit \cup {"/"} \cup Blanks \cup Breaks,
         Lexeme(at, to), \A k \in (to + 1)..(Len(text) + 1) : ~ Lexeme(at, k),
         NEW type, NEW value, NEW lines, AddToken(type, value, to, lines), Fits(type, value, Slice(at, to))
  PROVE  Taken
<1>1. at \in 1..(Len(text) + 1) /\ to \in at..(Len(text) + 1) /\ text \in Texts
  BY Places
<1>2. ~ Refused(at)
  BY <1>1, NotRefused
<1>3. ~ BlankAt(at, to)
  <2>1. Within(at, to)
    BY <1>1 DEF Within
  <2>2. QED BY <2>1, FirstChars
<1>4. QED BY <1>2, <1>3, Takes

LEMMA InvalidCharStopped == IInv /\ InvalidChar => Stopped
<1> SUFFICES ASSUME IInv, InvalidChar PROVE Stopped
  OBVIOUS
<1>1. /\ Fail /\ Char(at) # NUL
      /\ Char(at) \notin Digit \cup Letters \cup {"_", "'", "\"", "/"} \cup Blanks \cup Breaks
                             \cup DOMAIN Punctuation \cup DOMAIN Pair
  BY DEF InvalidChar
<1>2. at \in 1..Len(text) /\ text \in Texts /\ Len(text) \in Nat
  BY <1>1, InsideText, Places
<1>3. ASSUME NEW k \in (at + 1)..(Len(text) + 1) PROVE ~ Lexeme(at, k)
  <2>1. Within(at, k)
    BY <1>2 DEF Within
  <2>2. QED BY <1>1, <2>1, Only
<1>4. QED BY <1>1, <1>2, <1>3, Stops

\* The symbols that begin with a character.
LEMMA Symbols ==
  ASSUME NEW i, NEW j, Within(i, j), i < j
  PROVE  /\ Char(i) \in DOMAIN Punctuation => (Lexeme(i, j) <=> j = i + 1)
         /\ Char(i) \in DOMAIN Pair =>
              (Lexeme(i, j) <=> \/ j = i + 1 /\ Char(i) \in DOMAIN Alone
                                \/ j = i + 2 /\ Char(i + 1) = Pair[Char(i)].next)
<1>1. /\ Char(i) \in DOMAIN Punctuation => Char(i) \notin DOMAIN Pair
      /\ Char(i) \in DOMAIN Pair => Char(i) \notin DOMAIN Punctuation /\ Char(i) # "/"
  BY Marks
<1>2. Char(i) \in DOMAIN Punctuation \cup DOMAIN Pair => (Lexeme(i, j) <=> SymbolAt(i, j))
  BY Only
<1>3. i \in Nat /\ j \in Nat /\ i + 1 # i + 2
  BY SliceChars
<1>4. QED BY <1>1, <1>2, <1>3 DEF SymbolAt

LEMMA TypeOfSymbol ==
  ASSUME NEW i, NEW j, Within(i, j), i < j
  PROVE  /\ j = i + 2 => SymbolType(Slice(i, j)) = Pair[Char(i)].type
         /\ j = i + 1 /\ Char(i) \in DOMAIN Punctuation => SymbolType(Slice(i, j)) = Punctuation[Char(i)]
         /\ j = i + 1 /\ Char(i) \in DOMAIN Alone => SymbolType(Slice(i, j)) = Alone[Char(i)]
         /\ j = i + 1 /\ Char(i) = "/" => SymbolType(Slice(i, j)) = "DIV"
<1> DEFINE w == Slice(i, j)
<1>1. i \in Nat /\ j \in Nat /\ Len(w) = j - i /\ w[1] = Char(i)
  BY SliceChars
<1>2. (j = i + 2 => Len(w) = 2) /\ (j = i + 1 => Len(w) # 2)
  BY <1>1
<1>3. /\ Char(i) \in DOMAIN Alone => Char(i) \notin DOMAIN Punctuation
      /\ Char(i) = "/" => Char(i) \notin DOMAIN Punctuation /\ Char(i) \notin DOMAIN Alone
  BY Marks
<1> HIDE DEF w
<1>4. SymbolType(w) =
        IF Len(w) = 2 THEN Pair[w[1]].type
        ELSE IF w[1] \in DOMAIN Punctuation THEN Punctuation[w[1]]
        ELSE IF w[1] \in DOMAIN Alone THEN Alone[w[1]] ELSE "DIV"
  BY Zenon DEF SymbolType
<1>5. QED BY <1>1, <1>2, <1>3, <1>4 DEF w

LEMMA FitsSymbol ==
  ASSUME NEW i, NEW j, Within(i, j), i < j, SymbolAt(i, j), NEW type, type = SymbolType(Slice(i, j)), NEW value
  PROVE  Fits(type, value, Slice(i, j))
<1>1. IsSymbol(Slice(i, j))
  BY SymbolIs
<1>2. QED BY <1>1 DEF Fits

LEMMA PunctuateTaken == IInv /\ Punctuate => Taken
<1> SUFFICES ASSUME IInv, Punctuate PROVE Taken
  OBVIOUS
<1>1. /\ Char(at) \in DOMAIN Punctuation /\ Char(at) # NUL
      /\ AddToken(Punctuation[Char(at)], NUL, at + 1, 0)
  BY Marks DEF Punctuate, NUL
<1>2. at \in 1..Len(text) /\ Len(text) \in Nat /\ text \in Texts /\ at \in Nat
  BY <1>1, InsideText, Places
<1>3. \A k \in (at + 1)..(Len(text) + 1) : Within(at, k) /\ at < k
  BY <1>2 DEF Within
<1>4. \A k \in (at + 1)..(Len(text) + 1) : Lexeme(at, k) <=> k = at + 1
  BY <1>1, <1>3, Symbols
<1>5. /\ at + 1 \in (at + 1)..(Len(text) + 1)
      /\ \A k \in (at + 1 + 1)..(Len(text) + 1) : k \in (at + 1)..(Len(text) + 1) /\ k # at + 1
  BY <1>2
<1>6. Fits(Punctuation[Char(at)], NUL, Slice(at, at + 1))
  <2>1. SymbolAt(at, at + 1)
    BY <1>1 DEF SymbolAt
  <2>2. QED BY <1>1, <1>3, <1>5, <2>1, TypeOfSymbol, FitsSymbol
<1>7. Char(at) \notin Digit \cup {"/"} \cup Blanks \cup Breaks
  BY <1>1, Kinds, Marks DEF Blanks, Breaks
<1>8. QED BY <1>1, <1>2, <1>4, <1>5, <1>6, <1>7, TakesPlain

LEMMA OperatorTaken == IInv /\ Operator => Taken \/ Stopped
<1> SUFFICES ASSUME IInv, Operator PROVE Taken \/ Stopped
  OBVIOUS
<1>1. Char(at) \in DOMAIN Pair /\ Char(at) # NUL
  BY PairNext DEF Operator
<1>2. at \in 1..Len(text) /\ Len(text) \in Nat /\ text \in Texts /\ at \in Nat
  BY <1>1, InsideText, Places
<1>3. \A k \in (at + 1)..(Len(text) + 1) : Within(at, k) /\ at < k
  BY <1>2 DEF Within
<1>4. \A k \in (at + 1)..(Len(text) + 1) :
        Lexeme(at, k) <=> \/ k = at + 1 /\ Char(at) \in DOMAIN Alone
                          \/ k = at + 2 /\ Char(at + 1) = Pair[Char(at)].next
  BY <1>1, <1>3, Symbols
<1>5. Char(at) \notin Digit \cup {"/"} \cup Blanks \cup Breaks
  BY <1>1, Kinds, Marks DEF Blanks, Breaks
<1>6. CASE Char(at + 1) = Pair[Char(at)].next
  <2>1. AddToken(Pair[Char(at)].type, NUL, at + 2, 0)
    BY <1>6 DEF Operator
  <2>2. at + 1 \in 1..Len(text)
    BY <1>1, <1>6, PairNext, InsideText
  <2>3. /\ at + 2 \in (at + 1)..(Len(text) + 1) /\ at + 2 # at + 1
        /\ \A k \in (at + 2 + 1)..(Len(text) + 1) : k \in (at + 1)..(Len(text) + 1) /\ k # at + 1 /\ k # at + 2
    BY <1>2, <2>2
  <2>4. Fits(Pair[Char(at)].type, NUL, Slice(at, at + 2))
    <3>1. SymbolAt(at, at + 2)
      BY <1>1, <1>6 DEF SymbolAt
    <3>2. QED BY <1>3, <2>3, <3>1, TypeOfSymbol, FitsSymbol
  <2>5. Lexeme(at, at + 2) /\ \A k \in (at + 2 + 1)..(Len(text) + 1) : ~ Lexeme(at, k)
    BY <1>4, <1>6, <2>3
  <2>6. QED BY <1>2, <1>5, <2>1, <2>3, <2>4, <2>5, TakesPlain
<1>7. CASE Char(at + 1) # Pair[Char(at)].next /\ Char(at) \in DOMAIN Alone
  <2>1. AddToken(Alone[Char(at)], NUL, at + 1, 0)
    BY <1>7 DEF Operator
  <2>2. /\ at + 1 \in (at + 1)..(Len(text) + 1)
        /\ \A k \in (at + 1 + 1)..(Len(text) + 1) : k \in (at + 1)..(Len(text) + 1) /\ k # at + 1
    BY <1>2
  <2>3. Fits(Alone[Char(at)], NUL, Slice(at, at + 1))
    <3>1. SymbolAt(at, at + 1)
      BY <1>7 DEF SymbolAt
    <3>2. QED BY <1>3, <1>7, <2>2, <3>1, TypeOfSymbol, FitsSymbol
  <2>4. Lexeme(at, at + 1) /\ \A k \in (at + 1 + 1)..(Len(text) + 1) : ~ Lexeme(at, k)
    BY <1>4, <1>7, <2>2
  <2>5. QED BY <1>2, <1>5, <2>1, <2>2, <2>3, <2>4, TakesPlain
<1>8. CASE Char(at + 1) # Pair[Char(at)].next /\ Char(at) \notin DOMAIN Alone
  <2>1. Fail
    BY <1>8 DEF Operator
  <2>2. QED BY <1>2, <1>4, <1>8, <2>1, Stops
<1>9. QED BY <1>6, <1>7, <1>8

LEMMA CharLiteralTaken == IInv /\ CharLiteral => Taken \/ Stopped
<1> SUFFICES ASSUME IInv, CharLiteral PROVE Taken \/ Stopped
  OBVIOUS
<1>1. Char(at) = "'" /\ Char(at) # NUL
  BY Visible DEF CharLiteral
<1>2. at \in 1..Len(text) /\ Len(text) \in Nat /\ text \in Texts /\ at \in Nat
  BY <1>1, InsideText, Places
<1>3. \A k \in (at + 1)..(Len(text) + 1) : Within(at, k) /\ at < k
  BY <1>2 DEF Within
<1>4. \A k \in (at + 1)..(Len(text) + 1) : Lexeme(at, k) <=> CharAt(at, k)
  BY <1>1, <1>3, Only
<1>5. Char(at) \notin Digit \cup {"/"} \cup Blanks \cup Breaks
  BY <1>1, Kinds DEF Blanks, Breaks
\* The only place where the literal may end.
<1>6. ASSUME NEW quote \in {at + 2, at + 3}, NEW value, NEW right \in BOOLEAN,
             \A k \in (at + 1)..(Len(text) + 1) : CharAt(at, k) <=> k = quote + 1 /\ Char(quote) = "'" /\ right,
             IF ~ right \/ Char(quote) # "'" THEN Fail ELSE AddToken("CHAR", value, quote + 1, 0)
      PROVE  Taken \/ Stopped
  <2>1. CASE ~ right \/ Char(quote) # "'"
    <3>1. Fail /\ \A k \in (at + 1)..(Len(text) + 1) : ~ Lexeme(at, k)
      BY <1>4, <1>6, <2>1
    <3>2. QED BY <1>2, <3>1, Stops
  <2>2. CASE right /\ Char(quote) = "'"
    <3>1. quote \in 1..Len(text)
      BY <2>2, InsideText, Visible
    <3>2. /\ quote + 1 \in (at + 1)..(Len(text) + 1)
          /\ \A k \in (quote + 1 + 1)..(Len(text) + 1) : k \in (at + 1)..(Len(text) + 1) /\ k # quote + 1
      BY <1>2, <1>6, <3>1
    <3>3. CharAt(at, quote + 1) /\ \A k \in (quote + 1 + 1)..(Len(text) + 1) : ~ CharAt(at, k)
      BY <1>6, <2>2, <3>2
    <3>4. Lexeme(at, quote + 1) /\ \A k \in (quote + 1 + 1)..(Len(text) + 1) : ~ Lexeme(at, k)
      BY <1>4, <3>2, <3>3
    <3>5. IsCharLiteral(Slice(at, quote + 1))
      BY <1>3, <3>2, <3>3, CharIs
    <3>6. Fits("CHAR", value, Slice(at, quote + 1))
      BY <3>5 DEF Fits
    <3>7. AddToken("CHAR", value, quote + 1, 0)
      BY <1>6, <2>2
    <3>8. QED BY <1>2, <1>5, <3>2, <3>4, <3>6, <3>7, TakesPlain
  <2>3. QED BY <1>6, <2>1, <2>2
<1>7. CASE Char(at + 1) = "\\"
  <2> DEFINE right == Char(at + 2) \in CharEscapes
  <2>1. IF ~ right \/ Char(at + 3) # "'" THEN Fail ELSE AddToken("CHAR", Escape[Char(at + 2)], at + 3 + 1, 0)
    BY <1>7 DEF CharLiteral
  <2>2. at + 3 + 1 = at + 4 /\ at + 4 # at + 3
    BY <1>2
  <2>3. \A k \in (at + 1)..(Len(text) + 1) : CharAt(at, k) <=> k = at + 3 + 1 /\ Char(at + 3) = "'" /\ right
    BY <1>1, <1>7, <2>2 DEF CharAt
  <2>4. right \in BOOLEAN
    OBVIOUS
  <2> HIDE DEF right
  <2>5. QED BY <1>6, <2>1, <2>3, <2>4
<1>8. CASE Char(at + 1) # "\\"
  <2> DEFINE right == Char(at + 1) \notin {NUL, "'"}
  <2>1. IF ~ right \/ Char(at + 2) # "'" THEN Fail ELSE AddToken("CHAR", Char(at + 1), at + 2 + 1, 0)
    BY <1>8 DEF CharLiteral
  <2>2. at + 2 + 1 = at + 3
    BY <1>2
  <2>3. ASSUME Char(at + 2) = "'" PROVE Char(at + 1) # NUL
    <3>1. at + 2 \in 1..Len(text)
      BY <2>3, InsideText, Visible
    <3>2. at + 1 \in 1..Len(text)
      BY <1>2, <3>1
    <3>3. QED BY <1>2, <3>2, InText
  <2>4. \A k \in (at + 1)..(Len(text) + 1) : CharAt(at, k) <=> k = at + 2 + 1 /\ Char(at + 2) = "'" /\ right
    BY <1>1, <1>8, <2>2, <2>3 DEF CharAt
  <2>5. right \in BOOLEAN
    OBVIOUS
  <2> HIDE DEF right
  <2>6. QED BY <1>6, <2>1, <2>4, <2>5
<1>9. QED BY <1>7, <1>8

QuoteAt(j) == Char(j) = "\""

LEMMA StringLiteralTaken == IInv /\ StringLiteral => Taken \/ Stopped
<1> SUFFICES ASSUME IInv, StringLiteral PROVE Taken \/ Stopped
  OBVIOUS
<1>1. Char(at) = "\"" /\ Char(at) # NUL
  BY DEF StringLiteral, NUL
<1>2. at \in 1..Len(text) /\ Len(text) \in Nat /\ text \in Texts /\ at \in Nat
  BY <1>1, InsideText, Places
<1>3. \A k \in (at + 1)..(Len(text) + 1) : Within(at, k) /\ at < k
  BY <1>2 DEF Within
<1>4. \A k \in (at + 1)..(Len(text) + 1) : Lexeme(at, k) <=> StringAt(at, k)
  BY <1>1, <1>3, Only
<1>5. Char(at) \notin Digit \cup {"/"} \cup Blanks \cup Breaks
  BY <1>1, Kinds DEF Blanks, Breaks
<1>6. Quotes(at + 1) \subseteq Nat
  <2>1. Quotes(at + 1) \subseteq (at + 1)..Len(text)
    BY QuotePlaces
  <2>2. QED BY <1>2, <2>1
<1>7. \A j : j \in Quotes(at + 1) <=> j \in (at + 1)..Len(text) /\ QuoteAt(j) /\ ~ Escaped(at + 1, j)
  BY Zenon DEF Quotes, QuoteAt
\* A literal ends at the first quote that is not escaped.
<1>8. ASSUME NEW k \in (at + 1)..(Len(text) + 1), StringAt(at, k)
      PROVE  k - 1 \in Quotes(at + 1) /\ \A j \in Quotes(at + 1) : k - 1 <= j
  <2>1. at + 1 < k /\ QuoteAt(k - 1) /\ BodyAt(at + 1, k - 1)
    BY <1>8, Zenon DEF StringAt, QuoteAt
  <2>2. k - 1 \in (at + 1)..Len(text)
    BY <1>2, <2>1
  <2>3. k - 1 \in Quotes(at + 1)
    BY <1>7, <2>1, <2>2 DEF BodyAt
  <2>4. ASSUME NEW j \in Quotes(at + 1), j < k - 1 PROVE FALSE
    <3>1. j \in (at + 1)..(k - 1 - 1) /\ QuoteAt(j) /\ ~ Escaped(at + 1, j)
      BY <1>2, <1>7, <2>4
    <3>2. QED BY <2>1, <3>1, Zenon DEF BodyAt, QuoteAt
  <2>5. k - 1 \in Int
    BY <2>2
  <2>6. QED BY <1>6, <2>3, <2>4, <2>5
<1>9. CASE Quotes(at + 1) = {}
  <2>1. Fail
    BY <1>9 DEF StringLiteral
  <2>2. QED BY <1>2, <1>4, <1>8, <1>9, <2>1, Stops
<1>10. CASE Quotes(at + 1) # {}
  <2> DEFINE close == Min(Quotes(at + 1))
             wrong == \E j \in (at + 1)..(close - 1) : Escaped(at + 1, j) /\ Char(j) \notin StringEscapes
             lines == Cardinality({j \in (at + 1)..(close - 1) : Char(j) = "\n"})
  <2>1. IF wrong THEN Fail ELSE AddToken("STRING", StringText(at + 1, close), close + 1, lines)
    BY <1>10 DEF StringLiteral
  <2>2. close \in Quotes(at + 1) /\ \A j \in Quotes(at + 1) : close <= j
    BY <1>6, <1>10, MinLeast
  <2> HIDE DEF close
  <2>3. close \in (at + 1)..Len(text) /\ QuoteAt(close) /\ ~ Escaped(at + 1, close) /\ close \in Nat
    BY <1>6, <1>7, <2>2
  <2>4. ASSUME NEW j \in (at + 1)..(close - 1), ~ Escaped(at + 1, j) PROVE ~ QuoteAt(j)
    <3>1. j \in (at + 1)..Len(text) /\ ~(close <= j)
      BY <1>2, <2>3
    <3>2. QED BY <1>7, <2>2, <2>4, <3>1
  <2>5. BodyAt(at + 1, close) <=> ~ wrong
    BY <2>3, <2>4, Zenon DEF BodyAt, QuoteAt
  <2>6. close + 1 \in (at + 1)..(Len(text) + 1) /\ at + 1 < close + 1 /\ (close + 1) - 1 = close
    BY <1>2, <2>3
  <2>7. StringAt(at, close + 1) <=> ~ wrong
    <3> HIDE DEF wrong
    <3>1. QED BY <1>1, <2>3, <2>5, <2>6, Zenon DEF StringAt, QuoteAt
  <2>8. ASSUME NEW k \in (at + 1)..(Len(text) + 1), StringAt(at, k) PROVE k = close + 1
    <3>1. k - 1 = close
      BY <1>6, <1>8, <2>2, <2>3, <2>8
    <3>2. QED BY <1>2, <3>1
  <2> HIDE DEF wrong
  <2>9. CASE wrong
    <3>1. \A k \in (at + 1)..(Len(text) + 1) : ~ Lexeme(at, k)
      BY <1>4, <2>7, <2>8, <2>9
    <3>2. QED BY <1>2, <2>1, <2>9, <3>1, Stops
  <2>10. CASE ~ wrong
    <3>1. Lexeme(at, close + 1)
      BY <1>4, <2>6, <2>7, <2>10
    <3>2. \A k \in (close + 1 + 1)..(Len(text) + 1) : k \in (at + 1)..(Len(text) + 1) /\ k # close + 1
      BY <1>2, <2>3
    <3>3. \A k \in (close + 1 + 1)..(Len(text) + 1) : ~ Lexeme(at, k)
      BY <1>4, <2>8, <3>2
    <3>4. IsString(Slice(at, close + 1))
      BY <1>3, <2>6, <2>7, <2>10, StringIs
    <3>5. Fits("STRING", StringText(at + 1, close), Slice(at, close + 1))
      BY <3>4 DEF Fits
    <3>6. AddToken("STRING", StringText(at + 1, close), close + 1, lines)
      BY <2>1, <2>10
    <3> HIDE DEF lines
    <3>7. QED BY <1>2, <1>5, <2>6, <3>1, <3>3, <3>5, <3>6, TakesPlain
  <2>11. QED BY <2>9, <2>10
<1>11. QED BY <1>9, <1>10

LEMMA WordTaken == IInv /\ Word => Taken
<1> SUFFICES ASSUME IInv, Word PROVE Taken
  OBVIOUS
<1> DEFINE to == After(at + 1, WordChars)
           word == SubSeq(text, at, to - 1)
           value == IF KeywordOf(word) = "ID" THEN word ELSE NUL
<1>1. Char(at) \in Letters \cup {"_"} /\ Char(at) \in WordChars
  BY DEF Word, WordChars
<1>2. Char(at) # NUL /\ Char(at) \notin Digit \cup {"/"} \cup Blanks \cup Breaks
  BY <1>1, Classes, Kinds DEF Blanks, Breaks
<1>3. at \in 1..Len(text) /\ Len(text) \in Nat /\ text \in Texts /\ at \in Nat
  BY <1>2, InsideText, Places
<1>4. at + 1 \in 1..(Len(text) + 1)
  BY <1>3
<1>5. /\ to \in (at + 1)..(Len(text) + 1) /\ Char(to) \notin WordChars
      /\ \A k \in (at + 1)..(to - 1) : Char(k) \in WordChars
  BY <1>3, <1>4, Classes, AfterStays
<1>6. AddToken(KeywordOf(word), value, to, 0)
  BY DEF Word
<1>7. word = Slice(at, to)
  BY DEF Slice
<1> HIDE DEF to
<1>8. \A k \in (at + 1)..(Len(text) + 1) : Within(at, k) /\ at < k
  BY <1>3 DEF Within
<1>9. \A k \in (at + 1)..(Len(text) + 1) : Lexeme(at, k) <=> WordAt(at, k)
  BY <1>1, <1>8, Only
<1>10. WordAt(at, to)
  <2>1. \A k \in at..(to - 1) : k = at \/ k \in (at + 1)..(to - 1)
    BY <1>3, <1>5
  <2>2. QED BY <1>1, <1>2, <1>5, <1>8, <2>1 DEF WordAt
<1>11. ASSUME NEW k \in (to + 1)..(Len(text) + 1) PROVE ~ Lexeme(at, k)
  <2>1. to \in at..(k - 1) /\ k \in (at + 1)..(Len(text) + 1)
    BY <1>3, <1>5
  <2>2. QED BY <1>5, <1>9, <2>1 DEF WordAt
<1>12. IsWord(Slice(at, to))
  BY <1>5, <1>8, <1>10, WordIs
<1>13. Fits(KeywordOf(word), value, Slice(at, to))
  <2>1. KeywordOf(word) = KeywordOf(Slice(at, to)) /\ (KeywordOf(word) = "ID" => value = Slice(at, to))
    BY <1>7
  <2> HIDE DEF word, value
  <2>2. QED BY <1>12, <2>1 DEF Fits
<1> HIDE DEF word, value
<1>14. QED BY <1>2, <1>3, <1>5, <1>6, <1>9, <1>10, <1>11, <1>13, TakesPlain

-----------------------------------------------------------------------------
(* What begins with a slash: comments and division.                        *)

LEMMA RefusedSlash ==
  ASSUME text \in Texts, NEW i \in 1..(Len(text) + 1), Char(i) = "/"
  PROVE  Refused(i) <=> Char(i + 1) = "*" /\ ~ BlockAt(i, Longest(i))
<1> DEFINE j == Longest(i)
           w == Slice(i, j)
<1>1. Within(i, j)
  BY LongestOne DEF Within
<1>2. ~ NumberAt(i, j)
  BY <1>1, FirstChars, Kinds
<1>3. ~ IsNumber(w)
  BY <1>1, <1>2, NumberIs
<1>4. ~ IsMantissa(w) /\ ~ IsDigits(w)
  BY <1>3 DEF IsNumber, IsMantissa
<1>5. IsBlockComment(w) <=> BlockAt(i, j)
  BY <1>1, BlockIs
<1> HIDE DEF w, j
<1>6. Refused(i) <=> \/ Char(i) = "/" /\ Char(i + 1) = "*" /\ ~IsBlockComment(w)
                     \/ IsDigits(w) /\ (Char(j) = "." \/ Decimal(w) > LongMax)
                     \/ IsMantissa(w) /\ Char(j) \in {"e", "E"}
                     \/ IsNumber(w) /\ ~IsDigits(w) /\ w \in HugeDoubles
  BY Zenon DEF Refused, w, j
<1>7. QED BY <1>3, <1>4, <1>5, <1>6 DEF j

LEMMA OnlySlash ==
  ASSUME NEW i, NEW j, Within(i, j), Char(i) = "/"
  PROVE  Lexeme(i, j) <=> j = i + 1 \/ LineAt(i, j) \/ BlockAt(i, j)
<1>1. Lexeme(i, j) <=> SymbolAt(i, j) \/ BlankAt(i, j)
  BY Only
<1>2. "/" \notin DOMAIN Pair /\ "/" \notin Blanks \cup Breaks
  BY Marks DEF Blanks, Breaks
<1>3. QED BY <1>1, <1>2 DEF SymbolAt, BlankAt

LEMMA CommentStop ==
  ASSUME text \in Texts, NEW i \in 1..(Len(text) + 1), NEW to,
         to = CHOOSE j \in i..(Len(text) + 1) :
                /\ Char(j) \in Breaks \cup {NUL}
                /\ \A k \in i..(j - 1) : Char(k) \notin Breaks
  PROVE  to \in i..(Len(text) + 1) /\ NoBreaks(i, to) /\ Char(to) \in Breaks \cup {NUL}
<1> DEFINE Stop == {j \in i..(Len(text) + 1) : Char(j) \in Breaks \cup {NUL}}
<1>1. Len(text) \in Nat /\ i \in Nat
  BY TextLength
<1>2. Len(text) + 1 \in Stop
  BY <1>1, BehindText
<1>3. PICK j \in Stop : \A k \in Stop : j <= k
  <2>1. Stop \subseteq Nat
    BY <1>1
  <2> HIDE DEF Stop
  <2>2. QED BY <1>2, <2>1, FirstPlace
<1>4. \A k \in i..(j - 1) : Char(k) \notin Breaks
  BY <1>1, <1>3
<1>5. QED BY <1>1, <1>3, <1>4 DEF NoBreaks

LEMMA CommentOrDivTaken == IInv /\ CommentOrDiv => Passed \/ Taken \/ Stopped
<1> SUFFICES ASSUME IInv, CommentOrDiv PROVE Passed \/ Taken \/ Stopped
  OBVIOUS
<1>1. Char(at) = "/" /\ Char(at) # NUL
  BY Visible DEF CommentOrDiv
<1>2. at \in 1..Len(text) /\ Len(text) \in Nat /\ text \in Texts /\ at \in Nat /\ at \in 1..(Len(text) + 1)
  BY <1>1, InsideText, Places
<1>3. \A k \in (at + 1)..(Len(text) + 1) : Within(at, k) /\ at < k
  BY <1>2 DEF Within
<1>4. \A k \in (at + 1)..(Len(text) + 1) : Lexeme(at, k) <=> k = at + 1 \/ LineAt(at, k) \/ BlockAt(at, k)
  BY <1>1, <1>3, OnlySlash
<1>5. Refused(at) <=> Char(at + 1) = "*" /\ ~ BlockAt(at, Longest(at))
  BY <1>1, <1>2, RefusedSlash
\* A comment that is the longest lexeme here.
<1>6. ASSUME NEW to \in (at + 2)..(Len(text) + 1), Lexeme(at, to), BlankAt(at, to),
             \A k \in (to + 1)..(Len(text) + 1) : ~ Lexeme(at, k), NEW lines, Skip(to, lines),
             Char(at + 1) = "*" => BlockAt(at, to)
      PROVE  Passed
  <2>1. to \in (at + 1)..(Len(text) + 1) /\ to \in at..(Len(text) + 1)
    BY <1>2
  <2>2. Longest(at) = to
    BY <1>2, <1>6, <2>1, LongestIs
  <2>3. ~ Refused(at)
    BY <1>5, <1>6, <2>2
  <2>4. Passes(at, to)
    BY <1>2, <1>6, <2>1, <2>2, <2>3, BlankPasses
  <2>5. QED BY <1>6, <2>1, <2>4 DEF Passed
<1>7. CASE Char(at + 1) = "/"
  <2> DEFINE to == CHOOSE j \in (at + 2)..(Len(text) + 1) :
                     /\ Char(j) \in Breaks \cup {NUL}
                     /\ \A k \in (at + 2)..(j - 1) : Char(k) \notin Breaks
  <2>1. at + 1 \in 1..Len(text)
    BY <1>7, InsideText, Visible
  <2>2. at + 2 \in 1..(Len(text) + 1)
    BY <1>2, <2>1
  <2>3. to \in (at + 2)..(Len(text) + 1) /\ NoBreaks(at + 2, to) /\ Char(to) \in Breaks \cup {NUL}
    BY <1>2, <2>2, CommentStop
  <2>4. Skip(to, 0)
    BY <1>7 DEF CommentOrDiv
  <2> HIDE DEF to
  <2>5. NoBreaks(at, at + 2)
    BY <1>1, <1>7, TwoChars DEF Breaks
  <2>6. NoBreaks(at, to)
    BY <1>2, <2>3, <2>5, NoBreaksJoin
  <2>7. at + 1 < to /\ to \in (at + 1)..(Len(text) + 1)
    BY <1>2, <2>3
  <2>8. LineAt(at, to)
    BY <1>1, <1>7, <2>6, <2>7 DEF LineAt
  <2>9. ASSUME NEW k \in (to + 1)..(Len(text) + 1) PROVE ~ Lexeme(at, k)
    <3>1. k \in (at + 1)..(Len(text) + 1) /\ k # at + 1 /\ to \in at..(k - 1) /\ to \in 1..Len(text)
      BY <1>2, <2>3
    <3>2. Char(to) \in Breaks
      BY <1>2, <2>3, <3>1, InText
    <3>3. ~ LineAt(at, k)
      BY <3>1, <3>2 DEF LineAt, NoBreaks
    <3>4. ~ BlockAt(at, k)
      BY <1>7 DEF BlockAt
    <3>5. QED BY <1>4, <3>1, <3>3, <3>4
  <2>10. Lexeme(at, to) /\ BlankAt(at, to)
    BY <1>4, <2>7, <2>8 DEF BlankAt
  <2>11. Char(at + 1) # "*"
    BY <1>7
  <2>12. QED BY <1>6, <2>3, <2>4, <2>9, <2>10, <2>11
<1>8. CASE Char(at + 1) = "*"
  <2> DEFINE S == Closings(at + 2)
  <2>1. S \subseteq Nat
    BY <1>2 DEF Closings
  <2>2. \A p : p \in S <=> p \in (at + 2)..Len(text) /\ Char(p) = "*" /\ Char(p + 1) = "/"
    BY Zenon DEF Closings
  <2>3. ASSUME NEW k \in at..(Len(text) + 1), BlockAt(at, k)
        PROVE  k - 2 \in S /\ \A p \in S : k - 2 <= p
    <3>1. at + 3 < k /\ Char(k - 2) = "*" /\ Char(k - 1) = "/"
      BY <2>3 DEF BlockAt
    <3>2. k - 2 \in (at + 2)..Len(text) /\ (k - 2) + 1 = k - 1
      BY <1>2, <3>1
    <3>3. k - 2 \in S
      BY <2>2, <3>1, <3>2
    <3>4. ASSUME NEW p \in S, p < k - 2 PROVE FALSE
      <4>1. p \in (at + 2)..(k - 3) /\ Char(p) = "*" /\ Char(p + 1) = "/"
        BY <1>2, <2>2, <3>2, <3>4
      <4>2. QED BY <2>3, <4>1 DEF BlockAt
    <3>5. k - 2 \in Int
      BY <3>2
    <3>6. QED BY <2>1, <3>3, <3>4, <3>5
  <2>4. CASE S = {}
    <3>1. Fail
      BY <1>8, <2>4 DEF CommentOrDiv
    <3>2. Longest(at) \in at..(Len(text) + 1)
      BY <1>2, LongestOne
    <3>3. ~ BlockAt(at, Longest(at))
      BY <2>3, <2>4, <3>2
    <3>4. Refused(at)
      BY <1>5, <1>8, <3>3
    <3>5. QED BY <1>2, <3>1, <3>4 DEF Stopped, Readable
  <2>5. CASE S # {}
    <3> DEFINE close == Min(S)
    <3>1. Skip(close + 2, BreaksBetween(at + 2, close))
      BY <1>8, <2>5 DEF CommentOrDiv
    <3>2. close \in S /\ \A p \in S : close <= p
      BY <2>1, <2>5, MinLeast
    <3> HIDE DEF S, close
    <3>3. close \in (at + 2)..Len(text) /\ Char(close) = "*" /\ Char(close + 1) = "/" /\ close \in Nat
      BY <2>1, <2>2, <3>2
    <3>4. close + 1 \in 1..Len(text)
      BY <3>3, InsideText, Visible
    <3>5. /\ close + 2 \in (at + 2)..(Len(text) + 1) /\ at + 3 < close + 2
          /\ (close + 2) - 2 = close /\ (close + 2) - 1 = close + 1
      BY <1>2, <3>3, <3>4
    <3>6. ASSUME NEW p \in (at + 2)..((close + 2) - 3) PROVE ~(Char(p) = "*" /\ Char(p + 1) = "/")
      <4>1. p \in (at + 2)..Len(text) /\ ~(close <= p)
        BY <1>2, <3>3
      <4>2. QED BY <2>2, <3>2, <4>1
    <3>7. BlockAt(at, close + 2)
      BY <1>1, <1>8, <3>3, <3>5, <3>6 DEF BlockAt
    <3>8. ASSUME NEW k \in (close + 2 + 1)..(Len(text) + 1) PROVE ~ Lexeme(at, k)
      <4>1. k \in (at + 1)..(Len(text) + 1) /\ k \in at..(Len(text) + 1) /\ k # at + 1 /\ ~(k - 2 <= close)
        BY <1>2, <3>3
      <4>2. ~ LineAt(at, k)
        BY <1>8 DEF LineAt
      <4>3. ~ BlockAt(at, k)
        BY <2>3, <3>2, <4>1
      <4>4. QED BY <1>4, <4>1, <4>2, <4>3
    <3>9. Lexeme(at, close + 2) /\ BlankAt(at, close + 2)
      <4>1. close + 2 \in (at + 1)..(Len(text) + 1)
        BY <1>2, <3>5
      <4>2. QED BY <1>4, <3>7, <4>1 DEF BlankAt
    <3>10. QED BY <1>6, <3>1, <3>5, <3>7, <3>8, <3>9
  <2>6. QED BY <2>4, <2>5
<1>9. CASE Char(at + 1) \notin {"/", "*"}
  <2>1. AddToken("DIV", NUL, at + 1, 0)
    BY <1>9 DEF CommentOrDiv
  <2>2. /\ at + 1 \in (at + 1)..(Len(text) + 1)
        /\ \A k \in (at + 1 + 1)..(Len(text) + 1) : k \in (at + 1)..(Len(text) + 1) /\ k # at + 1
    BY <1>2
  <2>3. \A k : ~ LineAt(at, k) /\ ~ BlockAt(at, k)
    BY <1>9 DEF LineAt, BlockAt
  <2>4. Lexeme(at, at + 1) /\ \A k \in (at + 1 + 1)..(Len(text) + 1) : ~ Lexeme(at, k)
    BY <1>4, <2>2, <2>3
  <2>5. ~ Refused(at) /\ ~ BlankAt(at, at + 1)
    BY <1>1, <1>5, <1>9, <2>3 DEF BlankAt, Blanks, Breaks
  <2>6. Fits("DIV", NUL, Slice(at, at + 1))
    <3>1. SymbolAt(at, at + 1)
      BY <1>1 DEF SymbolAt
    <3>2. QED BY <1>1, <1>3, <2>2, <3>1, TypeOfSymbol, FitsSymbol
  <2>7. QED BY <1>2, <2>1, <2>2, <2>4, <2>5, <2>6, Takes
<1>10. QED BY <1>7, <1>8, <1>9

-----------------------------------------------------------------------------
(* Numbers: how far their digits, their fraction and their exponent go.    *)

WholeEnd(i) == After(i, Digit)
HasPoint(i) == Char(WholeEnd(i)) = "."
FractionEnd(i) == IF HasPoint(i) THEN After(WholeEnd(i) + 1, Digit) ELSE WholeEnd(i)
HasExponent(i) == Char(FractionEnd(i)) \in {"e", "E"}
SignEnd(i) == IF Char(FractionEnd(i) + 1) \in {"+", "-"} THEN FractionEnd(i) + 2 ELSE FractionEnd(i) + 1
NumberEnd(i) == IF HasExponent(i) THEN After(SignEnd(i), Digit) ELSE FractionEnd(i)

LEMMA DigitsUpTo ==
  ASSUME text \in Texts, NEW i \in 1..(Len(text) + 1)
  PROVE  /\ After(i, Digit) \in i..(Len(text) + 1) /\ Char(After(i, Digit)) \notin Digit
         /\ Char(i) \in Digit <=> i < After(i, Digit)
         /\ \A k \in Nat : DigitsAt(i, k) <=> i < k /\ k <= After(i, Digit)
<1> DEFINE j == After(i, Digit)
<1>1. Len(text) \in Nat /\ i \in Nat
  BY TextLength
<1>2. j \in i..(Len(text) + 1) /\ Char(j) \notin Digit /\ \A k \in i..(j - 1) : Char(k) \in Digit
  BY DigitsRun
<1> HIDE DEF j
<1>3. Char(i) \in Digit <=> i < j
  BY <1>1, <1>2
<1>4. ASSUME NEW k \in Nat PROVE DigitsAt(i, k) <=> i < k /\ k <= j
  <2>1. CASE k <= j
    <3>1. \A m \in i..(k - 1) : m \in i..(j - 1)
      BY <1>1, <1>2, <2>1
    <3>2. QED BY <1>2, <2>1, <3>1 DEF DigitsAt
  <2>2. CASE ~(k <= j)
    <3>1. j \in i..(k - 1)
      BY <1>1, <1>2, <2>2
    <3>2. QED BY <1>2, <2>2, <3>1 DEF DigitsAt
  <2>3. QED BY <2>1, <2>2
<1>5. QED BY <1>2, <1>3, <1>4 DEF j

LEMMA NoDigits == "." \notin Digit /\ "+" \notin Digit /\ "-" \notin Digit /\ "e" \notin Digit /\ "E" \notin Digit
<1>1. "." \in DOMAIN Punctuation /\ "+" \in DOMAIN Punctuation /\ "-" \in DOMAIN Punctuation
  BY Marks
<1>2. "." \notin Digit /\ "+" \notin Digit /\ "-" \notin Digit
  BY <1>1, Kinds
<1>3. QED BY <1>2, ClassesAssumption

LEMMA WholeParts ==
  ASSUME text \in Texts, NEW i \in 1..Len(text), Char(i) \in Digit
  PROVE  /\ WholeEnd(i) \in (i + 1)..(Len(text) + 1) /\ Char(WholeEnd(i)) \notin Digit
         /\ \A k \in Nat : DigitsAt(i, k) <=> i < k /\ k <= WholeEnd(i)
<1>1. Len(text) \in Nat /\ i \in Nat /\ i \in 1..(Len(text) + 1)
  BY TextLength
<1>2. /\ WholeEnd(i) \in i..(Len(text) + 1) /\ Char(WholeEnd(i)) \notin Digit /\ i < WholeEnd(i)
      /\ \A k \in Nat : DigitsAt(i, k) <=> i < k /\ k <= WholeEnd(i)
  BY <1>1, DigitsUpTo DEF WholeEnd
<1>3. QED BY <1>1, <1>2

LEMMA FractionParts ==
  ASSUME text \in Texts, NEW i \in 1..Len(text), Char(i) \in Digit
  PROVE  /\ FractionEnd(i) \in WholeEnd(i)..(Len(text) + 1) /\ Char(FractionEnd(i)) \notin Digit
         /\ ~ HasPoint(i) => FractionEnd(i) = WholeEnd(i)
         /\ HasPoint(i) => /\ FractionEnd(i) >= WholeEnd(i) + 1
                           /\ Char(WholeEnd(i) + 1) \in Digit <=> WholeEnd(i) + 1 < FractionEnd(i)
         /\ \A k \in Nat : MantissaAt(i, k) <=>
              \/ i < k /\ k <= WholeEnd(i)
              \/ HasPoint(i) /\ WholeEnd(i) + 1 < k /\ k <= FractionEnd(i)
<1> DEFINE w == WholeEnd(i)
           f == FractionEnd(i)
<1>1. Len(text) \in Nat /\ i \in Nat
  BY TextLength
<1>2. /\ w \in (i + 1)..(Len(text) + 1) /\ Char(w) \notin Digit
      /\ \A k \in Nat : DigitsAt(i, k) <=> i < k /\ k <= w
  BY WholeParts
<1>3. HasPoint(i) <=> Char(w) = "."
  BY DEF HasPoint
<1>4. f = IF HasPoint(i) THEN After(w + 1, Digit) ELSE w
  BY DEF FractionEnd
<1> HIDE DEF w, f
<1>5. ASSUME HasPoint(i)
      PROVE  /\ f \in (w + 1)..(Len(text) + 1) /\ Char(f) \notin Digit
             /\ Char(w + 1) \in Digit <=> w + 1 < f
             /\ \A k \in Nat : DigitsAt(w + 1, k) <=> w + 1 < k /\ k <= f
  <2>1. w \in 1..Len(text)
    BY <1>3, <1>5, InsideText, Visible
  <2>2. w + 1 \in 1..(Len(text) + 1)
    BY <1>1, <2>1
  <2>3. QED BY <1>4, <1>5, <2>2, DigitsUpTo
<1>6. ASSUME NEW k \in Nat
      PROVE  MantissaAt(i, k) <=> \/ i < k /\ k <= w
                                  \/ HasPoint(i) /\ w + 1 < k /\ k <= f
  <2>1. ASSUME NEW p \in (i + 1)..(k - 1), Char(p) = ".", DigitsAt(i, p), DigitsAt(p + 1, k)
        PROVE  HasPoint(i) /\ w + 1 < k /\ k <= f
    <3>1. p \in Nat /\ p <= w
      BY <1>1, <1>2, <2>1
    <3>2. DigitsAt(i, w)
      BY <1>1, <1>2
    <3>3. p < w => p \in i..(w - 1)
      BY <1>1, <1>2, <2>1
    <3>4. p = w
      BY <1>2, <2>1, <3>1, <3>2, <3>3, NoDigits DEF DigitsAt
    <3>5. HasPoint(i)
      BY <1>3, <2>1, <3>4
    <3>6. QED BY <1>5, <2>1, <3>4, <3>5
  <2>2. ASSUME HasPoint(i), w + 1 < k, k <= f
        PROVE  \E p \in (i + 1)..(k - 1) : Char(p) = "." /\ DigitsAt(i, p) /\ DigitsAt(p + 1, k)
    <3>1. w \in (i + 1)..(k - 1) /\ w \in Nat /\ i < w /\ w <= w
      BY <1>1, <1>2, <2>2
    <3>2. Char(w) = "." /\ DigitsAt(i, w) /\ DigitsAt(w + 1, k)
      BY <1>2, <1>3, <1>5, <2>2, <3>1
    <3>3. QED BY <3>1, <3>2
  <2>3. QED BY <1>2, <2>1, <2>2 DEF MantissaAt
<1>7. f \in w..(Len(text) + 1) /\ Char(f) \notin Digit /\ (~ HasPoint(i) => f = w)
  <2>1. CASE HasPoint(i)
    BY <1>1, <1>2, <1>5, <2>1
  <2>2. CASE ~ HasPoint(i)
    BY <1>1, <1>2, <1>4, <2>2
  <2>3. QED BY <2>1, <2>2
<1>8. HasPoint(i) => f >= w + 1 /\ (Char(w + 1) \in Digit <=> w + 1 < f)
  BY <1>1, <1>2, <1>5
<1>9. QED BY <1>6, <1>7, <1>8 DEF w, f

\* An exponent after a mantissa that is whole.
Mantissa(i) == HasPoint(i) => Char(WholeEnd(i) + 1) \in Digit

LEMMA ExponentParts ==
  ASSUME text \in Texts, NEW i \in 1..Len(text), Char(i) \in Digit, HasExponent(i)
  PROVE  /\ SignEnd(i) \in (FractionEnd(i) + 1)..(Len(text) + 1)
         /\ NumberEnd(i) \in SignEnd(i)..(Len(text) + 1)
         /\ Char(SignEnd(i)) \in Digit <=> SignEnd(i) < NumberEnd(i)
         /\ \A k \in Nat : ExponentAt(FractionEnd(i), k) <=> SignEnd(i) < k /\ k <= NumberEnd(i)
<1> DEFINE f == FractionEnd(i)
           s == SignEnd(i)
           e == NumberEnd(i)
<1>1. Len(text) \in Nat /\ i \in Nat
  BY TextLength
<1>2. f \in Nat
  BY <1>1, WholeParts, FractionParts
<1>3. s = IF Char(f + 1) \in {"+", "-"} THEN f + 2 ELSE f + 1
  BY DEF SignEnd
<1>4. e = After(s, Digit)
  BY DEF NumberEnd
<1>5. Char(f) \in {"e", "E"}
  BY DEF HasExponent
<1> HIDE DEF f, s, e
<1>6. f \in 1..Len(text)
  BY <1>5, InsideText, Visible
<1>7. Char(f + 1) \in {"+", "-"} => f + 1 \in 1..Len(text)
  BY InsideText, Visible
<1>8. s \in (f + 1)..(Len(text) + 1) /\ s \in 1..(Len(text) + 1)
  BY <1>1, <1>2, <1>3, <1>6, <1>7
<1>9. /\ e \in s..(Len(text) + 1)
      /\ Char(s) \in Digit <=> s < e
      /\ \A k \in Nat : DigitsAt(s, k) <=> s < k /\ k <= e
  BY <1>4, <1>8, DigitsUpTo
<1>10. ASSUME NEW k \in Nat PROVE ExponentAt(f, k) <=> DigitsAt(s, k)
  <2>1. DigitsAt(f + 1, k) => Char(f + 1) \in Digit
    BY <1>2, FirstOfDigits
  <2>2. DigitsAt(f + 2, k) => f + 1 < k
    BY <1>2 DEF DigitsAt
  <2>3. QED BY <1>3, <2>1, <2>2, NoDigits DEF ExponentAt
<1>11. QED BY <1>8, <1>9, <1>10 DEF f, s, e

LEMMA NumberParts ==
  ASSUME text \in Texts, NEW i \in 1..Len(text), Char(i) \in Digit, NEW k \in Nat
  PROVE  NumberAt(i, k) <=>
           \/ MantissaAt(i, k)
           \/ HasExponent(i) /\ Mantissa(i) /\ SignEnd(i) < k /\ k <= NumberEnd(i)
<1> DEFINE w == WholeEnd(i)
           f == FractionEnd(i)
<1>1. Len(text) \in Nat /\ i \in Nat
  BY TextLength
<1>2. w \in (i + 1)..(Len(text) + 1) /\ Char(w) \notin Digit /\ \A m \in Nat : DigitsAt(i, m) <=> i < m /\ m <= w
  BY WholeParts
<1>3. /\ f \in w..(Len(text) + 1) /\ Char(f) \notin Digit
      /\ ~ HasPoint(i) => f = w
      /\ HasPoint(i) => f >= w + 1 /\ (Char(w + 1) \in Digit <=> w + 1 < f)
      /\ \A m \in Nat : MantissaAt(i, m) <=> (i < m /\ m <= w) \/ (HasPoint(i) /\ w + 1 < m /\ m <= f)
  BY FractionParts
<1>4. HasExponent(i) <=> Char(f) \in {"e", "E"}
  BY DEF HasExponent
<1>5. Mantissa(i) <=> (HasPoint(i) => Char(w + 1) \in Digit)
  BY DEF Mantissa
<1>6. HasPoint(i) <=> Char(w) = "."
  BY DEF HasPoint
<1> HIDE DEF w, f
<1>7. MantissaAt(i, f) <=> Mantissa(i)
  BY <1>1, <1>2, <1>3, <1>5
<1>8. ASSUME NEW p \in (i + 1)..(k - 1), Char(p) \in {"e", "E"}, MantissaAt(i, p)
      PROVE  p = f
  <2>1. p \in Nat /\ Char(p) \notin Digit /\ Char(p) # "."
    BY <1>1, <1>8, NoDigits
  <2>2. CASE i < p /\ p <= w
    <3>1. DigitsAt(i, w)
      BY <1>1, <1>2
    <3>2. p < w => p \in i..(w - 1)
      BY <1>1, <1>2, <2>1, <2>2
    <3>3. p = w
      BY <1>2, <2>1, <2>2, <3>1, <3>2 DEF DigitsAt
    <3>4. QED BY <1>3, <1>6, <2>1, <3>3
  <2>3. CASE HasPoint(i) /\ w + 1 < p /\ p <= f
    <3>1. w \in 1..Len(text)
      BY <1>6, <2>3, InsideText, Visible
    <3>2. w + 1 \in 1..(Len(text) + 1)
      BY <1>1, <3>1
    <3>3. f = After(w + 1, Digit)
      BY <2>3 DEF FractionEnd, w, f
    <3>4. \A m \in (w + 1)..(f - 1) : Char(m) \in Digit
      BY <3>2, <3>3, DigitsRun
    <3>5. p < f => p \in (w + 1)..(f - 1)
      BY <1>1, <1>2, <1>3, <2>1, <2>3
    <3>6. QED BY <1>1, <1>2, <1>3, <2>1, <2>3, <3>4, <3>5
  <2>4. QED BY <1>3, <1>8, <2>1, <2>2, <2>3
<1>9. ASSUME NEW p \in (i + 1)..(k - 1), Char(p) \in {"e", "E"}, MantissaAt(i, p), ExponentAt(p, k)
      PROVE  HasExponent(i) /\ Mantissa(i) /\ SignEnd(i) < k /\ k <= NumberEnd(i)
  <2>1. p = f
    BY <1>8, <1>9
  <2>2. HasExponent(i) /\ Mantissa(i)
    BY <1>4, <1>7, <1>9, <2>1
  <2>3. ExponentAt(FractionEnd(i), k)
    BY <1>9, <2>1 DEF f
  <2>4. QED BY <2>2, <2>3, ExponentParts
<1>10. ASSUME HasExponent(i), Mantissa(i), SignEnd(i) < k, k <= NumberEnd(i)
       PROVE  f \in (i + 1)..(k - 1) /\ Char(f) \in {"e", "E"} /\ MantissaAt(i, f) /\ ExponentAt(f, k)
  <2>1. SignEnd(i) \in (f + 1)..(Len(text) + 1) /\ ExponentAt(f, k)
    BY <1>10, ExponentParts DEF f
  <2>2. f \in (i + 1)..(k - 1)
    BY <1>1, <1>2, <1>3, <1>10, <2>1
  <2>3. QED BY <1>4, <1>7, <1>10, <2>1, <2>2
<1>11. QED BY <1>9, <1>10 DEF NumberAt

LEMMA NumberTaken == IInv /\ Number => Taken \/ Stopped
<1> SUFFICES ASSUME IInv, Number PROVE Taken \/ Stopped
  OBVIOUS
<1> DEFINE w == WholeEnd(at)
           f == FractionEnd(at)
           s == SignEnd(at)
           to == NumberEnd(at)
           point == HasPoint(at)
           exp == HasExponent(at)
           literal == Slice(at, to)
           N == Len(text)
<1>1. Char(at) \in Digit /\ Char(at) # NUL
  BY Classes DEF Number
<1>2. at \in 1..N /\ N \in Nat /\ text \in Texts /\ at \in Nat /\ at \in 1..(N + 1)
  BY <1>1, InsideText, Places
<1>3. IF \/ point /\ Char(w + 1) \notin Digit
         \/ exp /\ Char(s) \notin Digit
      THEN Fail
      ELSE IF point \/ exp
           THEN IF literal \in HugeDoubles THEN Fail ELSE AddToken("DOUBLE", literal, to, 0)
           ELSE IF Decimal(literal) > LongMax THEN Fail
                ELSE AddToken("INT", ToInt(Decimal(literal)), to, 0)
  BY Zenon DEF Number, WholeEnd, FractionEnd, SignEnd, NumberEnd, HasPoint, HasExponent, Slice
<1>4. w \in (at + 1)..(N + 1) /\ \A k \in Nat : DigitsAt(at, k) <=> at < k /\ k <= w
  BY <1>1, <1>2, WholeParts
<1>5. /\ f \in w..(N + 1)
      /\ ~ point => f = w
      /\ point => f >= w + 1 /\ (Char(w + 1) \in Digit <=> w + 1 < f)
      /\ \A k \in Nat : MantissaAt(at, k) <=> (at < k /\ k <= w) \/ (point /\ w + 1 < k /\ k <= f)
  BY <1>1, <1>2, FractionParts
<1>6. exp => s \in (f + 1)..(N + 1) /\ to \in s..(N + 1) /\ (Char(s) \in Digit <=> s < to)
  BY <1>1, <1>2, ExponentParts
<1>7. \A k \in Nat : NumberAt(at, k) <=> \/ MantissaAt(at, k)
                                         \/ exp /\ (point => Char(w + 1) \in Digit) /\ s < k /\ k <= to
  <2>1. Mantissa(at) <=> (point => Char(w + 1) \in Digit)
    BY DEF Mantissa
  <2>2. QED BY <1>1, <1>2, <2>1, NumberParts
<1>8. ~ exp => to = f
  BY DEF NumberEnd
<1>9. (point <=> Char(w) = ".") /\ (exp <=> Char(f) \in {"e", "E"})
  BY DEF HasPoint, HasExponent
<1> HIDE DEF w, f, s, to, point, exp, literal, N
<1>10. ASSUME NEW k \in at..(N + 1)
       PROVE  Within(at, k) /\ (Lexeme(at, k) <=> NumberAt(at, k)) /\ k \in Nat
  <2>1. Within(at, k)
    BY <1>2 DEF Within, N
  <2>2. k \in Nat
    BY <1>2
  <2>3. Lexeme(at, k) <=> NumberAt(at, k)
    BY <1>1, <2>1, Only
  <2>4. QED BY <2>1, <2>2, <2>3
<1>11. ASSUME NEW k \in at..(N + 1)
       PROVE  /\ IsDigits(Slice(at, k)) <=> DigitsAt(at, k)
              /\ IsMantissa(Slice(at, k)) <=> MantissaAt(at, k)
              /\ IsNumber(Slice(at, k)) <=> NumberAt(at, k)
  BY <1>10, DigitsIs, MantissaIs, NumberIs
\* The number that ends at j is the longest.
<1>12. ASSUME NEW j \in (at + 1)..(N + 1), NumberAt(at, j), \A k \in (j + 1)..(N + 1) : ~ NumberAt(at, k)
       PROVE  /\ Longest(at) = j /\ Lexeme(at, j) /\ \A k \in (j + 1)..(N + 1) : ~ Lexeme(at, k)
              /\ ~ BlankAt(at, j) /\ j \in at..(N + 1)
  <2>1. j \in at..(N + 1) /\ \A k \in (j + 1)..(N + 1) : k \in at..(N + 1)
    BY <1>2
  <2>2. Lexeme(at, j) /\ \A k \in (j + 1)..(N + 1) : ~ Lexeme(at, k)
    BY <1>10, <1>12, <2>1
  <2>3. Longest(at) = j
    BY <1>2, <2>1, <2>2, LongestIs DEF N
  <2>4. ~ BlankAt(at, j)
    BY <1>1, <1>10, <2>1, FirstChars, Kinds
  <2>5. QED BY <2>1, <2>2, <2>3, <2>4
<1>13. Refused(at) <=>
         LET l == Slice(at, Longest(at)) IN
         \/ IsDigits(l) /\ (Char(Longest(at)) = "." \/ Decimal(l) > LongMax)
         \/ IsMantissa(l) /\ Char(Longest(at)) \in {"e", "E"}
         \/ IsNumber(l) /\ ~IsDigits(l) /\ l \in HugeDoubles
  <2>1. Char(at) # "/"
    BY <1>1, Kinds
  <2>2. QED BY <2>1, Zenon DEF Refused
<1>14. CASE point /\ Char(w + 1) \notin Digit
  <2>1. f = w + 1
    BY <1>2, <1>4, <1>5, <1>14
  <2>2. NumberAt(at, w) /\ DigitsAt(at, w) /\ w \in Nat
    BY <1>2, <1>4, <1>5, <1>7
  <2>3. \A k \in (w + 1)..(N + 1) : ~ NumberAt(at, k)
    BY <1>2, <1>4, <1>5, <1>7, <1>14, <2>1
  <2>4. Longest(at) = w /\ w \in at..(N + 1)
    BY <1>4, <1>12, <2>2, <2>3
  <2>5. IsDigits(Slice(at, w))
    BY <1>11, <2>2, <2>4
  <2>6. Refused(at)
    BY <1>9, <1>13, <1>14, <2>4, <2>5
  <2>7. Fail
    BY <1>3, <1>14
  <2>8. QED BY <1>2, <2>6, <2>7 DEF Stopped, Readable, N
<1>15. CASE ~(point /\ Char(w + 1) \notin Digit) /\ exp /\ Char(s) \notin Digit
  <2>1. to = s
    BY <1>2, <1>4, <1>5, <1>6, <1>15
  <2>2. MantissaAt(at, f) /\ NumberAt(at, f) /\ f \in Nat /\ f \in (at + 1)..(N + 1)
    BY <1>2, <1>4, <1>5, <1>7, <1>15
  <2>3. \A k \in (f + 1)..(N + 1) : ~ NumberAt(at, k)
    BY <1>2, <1>4, <1>5, <1>6, <1>7, <1>15, <2>1
  <2>4. Longest(at) = f /\ f \in at..(N + 1)
    BY <1>12, <2>2, <2>3
  <2>5. IsMantissa(Slice(at, f))
    BY <1>11, <2>2, <2>4
  <2>6. Refused(at)
    BY <1>9, <1>13, <1>15, <2>4, <2>5
  <2>7. Fail
    BY <1>3, <1>15
  <2>8. QED BY <1>2, <2>6, <2>7 DEF Stopped, Readable, N
<1>16. CASE ~(point /\ Char(w + 1) \notin Digit) /\ ~(exp /\ Char(s) \notin Digit)
  <2>1. to \in (at + 1)..(N + 1) /\ NumberAt(at, to) /\ to \in Nat
    BY <1>2, <1>4, <1>5, <1>6, <1>7, <1>8, <1>16
  <2>2. \A k \in (to + 1)..(N + 1) : ~ NumberAt(at, k)
    BY <1>2, <1>4, <1>5, <1>6, <1>7, <1>8, <1>16
  <2>3. /\ Longest(at) = to /\ to \in at..(N + 1)
        /\ Lexeme(at, to) /\ ~ BlankAt(at, to) /\ \A k \in (to + 1)..(N + 1) : ~ Lexeme(at, k)
    BY <1>12, <2>1, <2>2
  <2>4. /\ IsDigits(literal) <=> DigitsAt(at, to)
        /\ IsMantissa(literal) <=> MantissaAt(at, to)
        /\ IsNumber(literal)
    BY <1>11, <2>1, <2>3 DEF literal
  <2>5. Refused(at) <=> \/ IsDigits(literal) /\ (Char(to) = "." \/ Decimal(literal) > LongMax)
                        \/ IsMantissa(literal) /\ Char(to) \in {"e", "E"}
                        \/ ~IsDigits(literal) /\ literal \in HugeDoubles
    BY <1>13, <2>3, <2>4 DEF literal
  <2>6. CASE point \/ exp
    <3>1. ~ DigitsAt(at, to)
      BY <1>2, <1>4, <1>5, <1>6, <1>8, <1>16, <2>1, <2>6
    <3>2. ~(MantissaAt(at, to) /\ Char(to) \in {"e", "E"})
      <4>1. CASE exp
        BY <1>2, <1>4, <1>5, <1>6, <1>16, <2>1, <4>1
      <4>2. CASE ~ exp
        BY <1>8, <1>9, <4>2
      <4>3. QED BY <4>1, <4>2
    <3>3. Refused(at) <=> literal \in HugeDoubles
      BY <2>4, <2>5, <3>1, <3>2
    <3>4. CASE literal \in HugeDoubles
      <4>1. Fail
        BY <1>3, <1>16, <2>6, <3>4
      <4>2. QED BY <1>2, <3>3, <3>4, <4>1 DEF Stopped, Readable, N
    <3>5. CASE literal \notin HugeDoubles
      <4>1. AddToken("DOUBLE", literal, to, 0)
        BY <1>3, <1>16, <2>6, <3>5
      <4>2. Fits("DOUBLE", literal, Slice(at, to))
        BY <2>4, <3>1 DEF Fits, literal
      <4>3. QED BY <1>2, <2>1, <2>3, <3>3, <3>5, <4>1, <4>2, Takes DEF N
    <3>6. QED BY <3>4, <3>5
  <2>7. CASE ~ point /\ ~ exp
    <3>1. to = w /\ DigitsAt(at, to)
      BY <1>2, <1>4, <1>5, <1>8, <2>1, <2>7
    <3>2. Char(to) # "." /\ Char(to) \notin {"e", "E"}
      BY <1>5, <1>9, <2>7, <3>1
    <3>3. Refused(at) <=> Decimal(literal) > LongMax
      BY <2>4, <2>5, <3>1, <3>2
    <3>4. CASE Decimal(literal) > LongMax
      <4>1. Fail
        BY <1>3, <1>16, <2>7, <3>4
      <4>2. QED BY <1>2, <3>3, <3>4, <4>1 DEF Stopped, Readable, N
    <3>5. CASE ~(Decimal(literal) > LongMax)
      <4>1. AddToken("INT", ToInt(Decimal(literal)), to, 0)
        BY <1>3, <1>16, <2>7, <3>5
      <4>2. Fits("INT", ToInt(Decimal(literal)), Slice(at, to))
        BY <2>4, <3>1 DEF Fits, literal
      <4>3. QED BY <1>2, <2>1, <2>3, <3>3, <3>5, <4>1, <4>2, Takes DEF N
    <3>6. QED BY <3>4, <3>5
  <2>8. QED BY <2>6, <2>7
<1>17. QED BY <1>14, <1>15, <1>16

-----------------------------------------------------------------------------
(* The invariant: what was read so far and what the rest reads as are the  *)
(* reading of the text.                                                    *)

SpanOf(ts) == [k \in DOMAIN ts |-> <<ts[k].from, ts[k].to>>]
AllFit(ts) == \A k \in DOMAIN ts : FitsType(ts[k])

Halfway == SpanOf(tokens) \o TokensFrom(at) = TokensFrom(1) /\ (GoodFrom(at) <=> GoodFrom(1)) /\ AllFit(tokens)
MatchInv == LInv /\ (status = "reading" => Halfway) /\ LongestMatch

LEMMA NextReading == IInv /\ Next => Passed \/ Taken \/ Stopped \/ Closed
<1> SUFFICES ASSUME IInv, Next PROVE Passed \/ Taken \/ Stopped \/ Closed
  OBVIOUS
<1>1. CASE Blank BY <1>1, BlankPassed
<1>2. CASE LineBreak BY <1>2, LineBreakPassed
<1>3. CASE End BY <1>3, EndClosed
<1>4. CASE Punctuate BY <1>4, PunctuateTaken
<1>5. CASE Operator BY <1>5, OperatorTaken
<1>6. CASE CommentOrDiv BY <1>6, CommentOrDivTaken
<1>7. CASE CharLiteral BY <1>7, CharLiteralTaken
<1>8. CASE StringLiteral BY <1>8, StringLiteralTaken
<1>9. CASE Word BY <1>9, WordTaken
<1>10. CASE Number BY <1>10, NumberTaken
<1>11. CASE InvalidChar BY <1>11, InvalidCharStopped
<1>12. QED BY <1>1, <1>2, <1>3, <1>4, <1>5, <1>6, <1>7, <1>8, <1>9, <1>10, <1>11 DEF Next

LEMMA SpansOf ==
  ASSUME IInv
  PROVE  /\ SpanOf(tokens) \in Spans /\ Len(SpanOf(tokens)) = Len(tokens)
         /\ Len(tokens) \in Nat /\ DOMAIN tokens = 1..Len(tokens)
<1>1. PICK T : tokens \in Seq(T)
  BY DEF IInv, Sequential
<1>2. Len(tokens) \in Nat /\ DOMAIN tokens = 1..Len(tokens)
  BY <1>1, LenProperties
<1>3. \A k \in DOMAIN tokens : tokens[k].from \in Int /\ tokens[k].to \in Int
  BY DEF IInv, Sequential
<1> DEFINE n == Len(tokens)
           v == SpanOf(tokens)
<1>4. v \in [1..n -> Int \X Int]
  BY <1>2, <1>3 DEF SpanOf
<1> HIDE DEF v
<1>5. v \in Seq(Int \X Int) /\ Len(v) = n
  BY <1>2, <1>4
<1>6. QED BY <1>2, <1>5 DEF v, Spans

\* A token behind the others.
LEMMA Appended ==
  ASSUME IInv, NEW e, tokens' = Append(tokens, e), e.from \in Int, e.to \in Int
  PROVE  /\ SpanOf(tokens') = SpanOf(tokens) \o << <<e.from, e.to>> >>
         /\ Len(tokens') = Len(tokens) + 1 /\ DOMAIN tokens' = 1..(Len(tokens) + 1)
         /\ \A k \in 1..Len(tokens) : tokens'[k] = tokens[k]
         /\ tokens'[Len(tokens) + 1] = e
         /\ Front(tokens') = tokens /\ Last(tokens') = e /\ tokens' # <<>>
<1> DEFINE n == Len(tokens)
<1>1. PICK T0 : tokens \in Seq(T0)
  BY DEF IInv, Sequential
<1> DEFINE T == T0 \cup {e}
<1>2. tokens \in Seq(T) /\ n \in Nat /\ DOMAIN tokens = 1..n
  BY <1>1, SeqMonotonic, LenProperties
<1> HIDE DEF T
<1>3. e \in T
  BY DEF T
<1>4. /\ tokens' \in Seq(T) /\ tokens' # <<>> /\ Len(tokens') = n + 1
      /\ \A k \in 1..n : tokens'[k] = tokens[k]
      /\ tokens'[n + 1] = e
  BY <1>2, <1>3, AppendProperties
<1>5. DOMAIN tokens' = 1..(n + 1)
  BY <1>4, LenProperties
<1>6. Front(tokens') = tokens
  <2>1. \A k \in 1..n : tokens'[k] \in T /\ k + 1 - 1 = k
    BY <1>2, <1>4, ElementOfSeq
  <2>2. /\ SubSeq(tokens', 1, n) \in Seq(T)
        /\ Len(SubSeq(tokens', 1, n)) = IF 1 <= n THEN n - 1 + 1 ELSE 0
        /\ \A k \in 1..(n - 1 + 1) : SubSeq(tokens', 1, n)[k] = tokens'[1 + k - 1]
    BY <1>2, <2>1, SubSeqProperties
  <2>3. Len(SubSeq(tokens', 1, n)) = n
    BY <1>2, <2>2
  <2>4. \A k \in 1..n : SubSeq(tokens', 1, n)[k] = tokens[k]
    <3>1. \A k \in 1..n : k \in 1..(n - 1 + 1) /\ 1 + k - 1 = k
      BY <1>2
    <3>2. QED BY <1>4, <2>2, <3>1
  <2>5. SubSeq(tokens', 1, n) = tokens
    BY <1>2, <2>2, <2>3, <2>4, SeqEqual
  <2>6. Len(tokens') - 1 = n
    BY <1>2, <1>4
  <2>7. QED BY <2>5, <2>6 DEF Front
<1>7. Last(tokens') = e
  BY <1>4 DEF Last
<1>8. SpanOf(tokens') = SpanOf(tokens) \o << <<e.from, e.to>> >>
  <2> DEFINE u == SpanOf(tokens)
             x == << <<e.from, e.to>> >>
             v == SpanOf(tokens')
  <2>1. u \in Spans /\ Len(u) = n
    BY SpansOf
  <2>2. x \in Spans /\ Len(x) = 1 /\ x[1] = <<e.from, e.to>>
    BY DEF Spans
  <2>3. \A k \in 1..n : u[k] = <<tokens[k].from, tokens[k].to>>
    BY <1>2 DEF SpanOf
  <2>4. DOMAIN v = 1..(n + 1) /\ \A k \in 1..(n + 1) : v[k] = <<tokens'[k].from, tokens'[k].to>>
    BY <1>5 DEF SpanOf
  <2>5. v = [k \in 1..(n + 1) |-> v[k]]
    BY <1>5 DEF SpanOf
  <2> HIDE DEF u, x, v
  <2>6. /\ u \o x \in Spans /\ Len(u \o x) = n + 1
        /\ \A k \in 1..(n + 1) : (u \o x)[k] = IF k <= n THEN u[k] ELSE x[k - n]
    <3>1. u \in Seq(Int \X Int) /\ x \in Seq(Int \X Int)
      BY <2>1, <2>2 DEF Spans
    <3>2. /\ u \o x \in Seq(Int \X Int) /\ Len(u \o x) = Len(u) + Len(x)
          /\ \A k \in 1..(Len(u) + Len(x)) : (u \o x)[k] = IF k <= Len(u) THEN u[k] ELSE x[k - Len(u)]
      BY <3>1, ConcatProperties
    <3>3. QED BY <2>1, <2>2, <3>2 DEF Spans
  <2>7. ASSUME NEW k \in 1..(n + 1) PROVE (u \o x)[k] = v[k]
    <3>1. CASE k <= n
      <4>1. k \in 1..n
        BY <1>2, <3>1
      <4>2. QED BY <1>4, <2>3, <2>4, <2>6, <3>1, <4>1
    <3>2. CASE ~(k <= n)
      <4>1. k = n + 1 /\ k - n = 1
        BY <1>2, <3>2
      <4>2. QED BY <1>4, <2>2, <2>4, <2>6, <3>2, <4>1
    <3>3. QED BY <3>1, <3>2
  <2>8. \A k \in 1..(n + 1) : v[k] \in Int \X Int
    <3>1. \A k \in 1..(n + 1) : (u \o x)[k] \in Int \X Int
      BY <2>6, ElementOfSeq DEF Spans
    <3>2. QED BY <2>7, <3>1
  <2>9. v \in Spans /\ Len(v) = n + 1
    <3>1. v \in [1..(n + 1) -> Int \X Int] /\ n + 1 \in Nat
      BY <1>2, <2>5, <2>8
    <3>2. QED BY <3>1 DEF Spans
  <2>10. v = u \o x
    BY <2>6, <2>7, <2>9, SeqEqual DEF Spans
  <2>11. QED BY <2>10 DEF u, v, x
<1>9. QED BY <1>2, <1>4, <1>5, <1>6, <1>7, <1>8

\* Sequences of places are joined in any order of joining.
LEMMA SpansJoin ==
  ASSUME NEW s \in Spans, NEW t \in Spans, NEW v \in Spans
  PROVE  (s \o t) \o v = s \o (t \o v)
<1> DEFINE T == Int \X Int
<1>1. s \in Seq(T) /\ t \in Seq(T) /\ v \in Seq(T)
  BY DEF Spans
<1> HIDE DEF T
<1>2. QED BY <1>1, ConcatAssociative

LEMMA InitMatch == Init => MatchInv
<1> SUFFICES ASSUME Init PROVE MatchInv
  OBVIOUS
<1>1. text \in Texts /\ at = 1 /\ tokens = <<>> /\ status = "reading"
  BY DEF Init
<1>2. LInv
  BY InitInv, InitCounts DEF LInv
<1>3. SpanOf(tokens) = <<>> /\ AllFit(tokens)
  BY <1>1 DEF SpanOf, AllFit
<1>4. 1 \in 1..(Len(text) + 1)
  BY <1>1, TextLength
<1>5. TokensFrom(1) \in Spans
  BY <1>1, <1>4, TokensUnfold
<1>6. <<>> \o TokensFrom(1) = TokensFrom(1)
  BY <1>5, ConcatEmptySeq DEF Spans
<1>7. Halfway
  BY <1>1, <1>3, <1>6 DEF Halfway
<1>8. LongestMatch
  BY <1>1 DEF LongestMatch
<1>9. QED BY <1>2, <1>7, <1>8 DEF MatchInv

\* What is read of a text that is read to its end.
LEMMA AtStart ==
  ASSUME IInv, Halfway
  PROVE  /\ SpanOf(tokens) \in Spans /\ TokensFrom(at) \in Spans /\ Len(tokens) \in Nat
         /\ TokensFrom(at) = <<>> => SpanOf(tokens) = TokensFrom(1)
<1>1. SpanOf(tokens) \in Spans /\ TokensFrom(at) \in Spans /\ Len(tokens) \in Nat
  BY Places, SpansOf, TokensUnfold
<1>2. SpanOf(tokens) \o <<>> = SpanOf(tokens)
  BY <1>1, ConcatEmptySeq DEF Spans
<1>3. QED BY <1>1, <1>2 DEF Halfway

LEMMA PassedHalfway ==
  ASSUME IInv, Halfway, Passed
  PROVE  Halfway' /\ status' = status
<1>1. PICK to \in (at + 1)..(Len(text) + 1) : Passes(at, to) /\ \E lines : Skip(to, lines)
  BY DEF Passed
<1>2. at' = to /\ text' = text /\ tokens' = tokens /\ status' = status
  BY <1>1 DEF Skip
<1>3. TokensFrom(at)' = TokensFrom(to) /\ (GoodFrom(at)' <=> GoodFrom(to))
      /\ TokensFrom(1)' = TokensFrom(1) /\ GoodFrom(1)' = GoodFrom(1)
  BY <1>2, SameReading
<1>4. SpanOf(tokens)' = SpanOf(tokens) /\ (AllFit(tokens)' <=> AllFit(tokens))
  BY <1>2, SameReading DEF SpanOf, AllFit
<1>5. QED BY <1>1, <1>2, <1>3, <1>4 DEF Halfway, Passes

LEMMA TakenHalfway ==
  ASSUME IInv, Halfway, Taken
  PROVE  Halfway' /\ status' = status
<1>0. PICK to \in (at + 1)..(Len(text) + 1) : \E lines, type, value :
        AddToken(type, value, to, lines) /\ Reads(at, to) /\ Fits(type, value, Slice(at, to))
  BY DEF Taken
<1>1. PICK lines, type, value :
        AddToken(type, value, to, lines) /\ Reads(at, to) /\ Fits(type, value, Slice(at, to))
  BY <1>0
<1> DEFINE e == [type |-> type, value |-> value, line |-> line + lines, from |-> at, to |-> to]
           one == << <<at, to>> >>
           u == SpanOf(tokens)
<1>2. tokens' = Append(tokens, e) /\ at' = to /\ text' = text /\ status' = status
  BY <1>1 DEF AddToken
<1>3. /\ Len(text) \in Nat /\ at \in Nat /\ text \in Texts /\ to \in 1..(Len(text) + 1)
      /\ at \in 1..(Len(text) + 1) /\ at # Len(text) + 1 /\ to \in Int /\ at \in Int
  BY Places
<1>4. e.from = at /\ e.to = to /\ e.type = type /\ e.value = value
  OBVIOUS
<1> HIDE DEF e
<1>5. FitsType(e)
  BY <1>1, <1>4 DEF FitsType, Fits
<1>6. /\ SpanOf(tokens') = u \o one /\ DOMAIN tokens' = 1..(Len(tokens) + 1)
      /\ \A k \in 1..Len(tokens) : tokens'[k] = tokens[k]
      /\ tokens'[Len(tokens) + 1] = e
  BY <1>2, <1>3, <1>4, Appended
<1>7. Readable(at) /\ Longest(at) = to /\ ~ IsBlank(Slice(at, to))
  BY <1>1 DEF Reads
<1>8. TokensFrom(at) = one \o TokensFrom(to)
  BY <1>3, <1>7, TokensUnfold
<1>9. GoodFrom(at) <=> GoodFrom(to)
  BY <1>3, <1>7, GoodUnfold
<1>10. u \in Spans /\ one \in Spans /\ TokensFrom(to) \in Spans
  <2>1. one \in Spans
    BY <1>3 DEF Spans
  <2>2. TokensFrom(to) \in Spans
    BY <1>3, TokensUnfold
  <2>3. QED BY <2>1, <2>2, SpansOf
<1> HIDE DEF one, u
<1>11. (u \o one) \o TokensFrom(to) = u \o (one \o TokensFrom(to))
  BY <1>10, SpansJoin
<1>12. /\ TokensFrom(at)' = TokensFrom(to) /\ (GoodFrom(at)' <=> GoodFrom(to))
       /\ TokensFrom(1)' = TokensFrom(1) /\ GoodFrom(1)' = GoodFrom(1)
  BY <1>2, SameReading
<1>13. SpanOf(tokens') \o TokensFrom(to) = TokensFrom(1)
  BY <1>6, <1>8, <1>11 DEF Halfway, u
<1>14. AllFit(tokens)'
  <2>1. ASSUME NEW k \in 1..(Len(tokens) + 1) PROVE FitsType(tokens'[k])
    <3>1. Len(tokens) \in Nat /\ DOMAIN tokens = 1..Len(tokens)
      BY SpansOf
    <3>2. CASE k = Len(tokens) + 1
      BY <1>5, <1>6, <3>2
    <3>3. CASE k # Len(tokens) + 1
      <4>1. k \in DOMAIN tokens /\ tokens'[k] = tokens[k]
        BY <1>6, <3>1, <3>3
      <4>2. QED BY <4>1 DEF Halfway, AllFit
    <3>4. QED BY <3>2, <3>3
  <2>2. \A t : FitsType(t)' <=> FitsType(t)
    BY <1>2, SameReading
  <2>3. QED BY <1>6, <2>1, <2>2 DEF AllFit
<1>15. SpanOf(tokens)' = SpanOf(tokens')
  BY DEF SpanOf
<1>16. QED BY <1>2, <1>9, <1>12, <1>13, <1>14, <1>15 DEF Halfway

LEMMA StoppedMatch ==
  ASSUME IInv, Halfway, Stopped
  PROVE  LongestMatch' /\ status' = "error"
<1>1. text' = text /\ tokens' = tokens /\ status' = "error" /\ ~ Readable(at) /\ at \in 1..Len(text)
  BY DEF Stopped, Fail
<1>2. text \in Texts /\ at \in 1..(Len(text) + 1) /\ at # Len(text) + 1
  BY <1>1, Places
<1>3. TokensFrom(at) = <<>> /\ ~ GoodFrom(at)
  BY <1>1, <1>2, TokensUnfold, GoodUnfold
<1>4. SpanOf(tokens) = TokensFrom(1) /\ ~ GoodFrom(1) /\ AllFit(tokens)
  BY <1>3, AtStart DEF Halfway
<1>5. TokensFrom(1)' = TokensFrom(1) /\ GoodFrom(1)' = GoodFrom(1) /\ \A t : FitsType(t)' <=> FitsType(t)
  BY <1>1, SameReading
<1>6. [k \in DOMAIN tokens' |-> <<tokens'[k].from, tokens'[k].to>>] = TokensFrom(1)'
  BY <1>1, <1>4, <1>5 DEF SpanOf
<1>7. \A k \in DOMAIN tokens' : FitsType(tokens[k])'
  BY <1>1, <1>4, <1>5 DEF AllFit
<1>8. GoodFrom(1) = FALSE
  <2>1. 1 \in 1..(Len(text) + 1)
    BY <1>2, Places
  <2>2. QED BY <1>2, <1>4, <2>1, GoodUnfold
<1>9. (status' = "done") = GoodFrom(1)'
  BY <1>1, <1>5, <1>8
<1>10. QED BY <1>1, <1>6, <1>7, <1>9 DEF LongestMatch

LEMMA ClosedMatch ==
  ASSUME IInv, Halfway, Closed
  PROVE  LongestMatch' /\ status' = "done"
<1> DEFINE e == [type |-> "END", value |-> NUL, line |-> line, from |-> at, to |-> at]
<1>1. tokens' = Append(tokens, e) /\ text' = text /\ status' = "done" /\ at = Len(text) + 1
  BY DEF Closed, End
<1>2. text \in Texts /\ at \in 1..(Len(text) + 1) /\ at \in Int /\ 1 \in 1..(Len(text) + 1)
  BY Places
<1>3. e.from = at /\ e.to = at /\ e.type = "END"
  OBVIOUS
<1> HIDE DEF e
<1>4. Front(tokens') = tokens /\ Last(tokens') = e /\ tokens' # <<>>
  BY <1>1, <1>2, <1>3, Appended
<1>5. TokensFrom(at) = <<>> /\ GoodFrom(at)
  BY <1>1, <1>2, TokensUnfold, GoodUnfold
<1>6. SpanOf(tokens) = TokensFrom(1) /\ GoodFrom(1) /\ AllFit(tokens)
  BY <1>5, AtStart DEF Halfway
<1>7. TokensFrom(1)' = TokensFrom(1) /\ GoodFrom(1)' = GoodFrom(1) /\ \A t : FitsType(t)' <=> FitsType(t)
  BY <1>1, SameReading
<1>8. [k \in DOMAIN tokens |-> <<tokens[k].from, tokens[k].to>>] = TokensFrom(1)'
  BY <1>6, <1>7 DEF SpanOf
<1>9. \A k \in DOMAIN Front(tokens') : FitsType(Front(tokens)[k])'
  BY <1>4, <1>6, <1>7 DEF AllFit
<1>10. (status' = "done") = GoodFrom(1)'
  <2>1. GoodFrom(1) = TRUE
    BY <1>2, <1>6, GoodUnfold
  <2>2. QED BY <1>1, <1>7, <2>1
<1>11. QED BY <1>1, <1>3, <1>4, <1>8, <1>9, <1>10 DEF LongestMatch

LEMMA StepMatch == MatchInv /\ [Next]_vars => MatchInv'
<1> SUFFICES ASSUME MatchInv, [Next]_vars PROVE MatchInv'
  OBVIOUS
<1>1. LInv' /\ IInv
  BY StepInv DEF MatchInv, LInv
<1>2. CASE Next
  <2>1. status = "reading" /\ Halfway
    BY <1>2, NextReads DEF Reading, MatchInv
  <2>2. CASE Passed
    BY <1>1, <2>1, <2>2, PassedHalfway DEF MatchInv, LongestMatch
  <2>3. CASE Taken
    BY <1>1, <2>1, <2>3, TakenHalfway DEF MatchInv, LongestMatch
  <2>4. CASE Stopped
    BY <1>1, <2>1, <2>4, StoppedMatch DEF MatchInv
  <2>5. CASE Closed
    BY <1>1, <2>1, <2>5, ClosedMatch DEF MatchInv
  <2>6. QED BY <1>1, <1>2, <2>2, <2>3, <2>4, <2>5, NextReading
<1>3. CASE UNCHANGED vars
  <2>1. text' = text /\ at' = at /\ tokens' = tokens /\ status' = status
    BY <1>3 DEF vars
  <2>2. /\ \A i : TokensFrom(i)' = TokensFrom(i) /\ GoodFrom(i)' = GoodFrom(i)
        /\ \A t : FitsType(t)' <=> FitsType(t)
    BY <2>1, SameReading
  <2>4. Halfway' <=> Halfway
    BY <2>1, <2>2 DEF Halfway, SpanOf, AllFit
  <2>5. LongestMatch' <=> LongestMatch
    BY <2>1, <2>2 DEF LongestMatch
  <2>6. QED BY <1>1, <2>1, <2>4, <2>5 DEF MatchInv
<1>4. QED BY <1>2, <1>3

(* On every text the token list is the reading of the text by the longest  *)
(* lexeme at each place, with the type of each lexeme, and the text is     *)
(* accepted exactly when that reading gets through: the look-aheads of     *)
(* tokenize and its consume functions (lexer.c) decide as the language of  *)
(* lexemes does, whatever precedes or follows a lexeme.                    *)
THEOREM LongestLexemes == Spec => []LongestMatch
<1>1. MatchInv /\ [Next]_vars => MatchInv'
  BY StepMatch
<1>2. MatchInv => LongestMatch
  BY DEF MatchInv
<1>3. QED BY InitMatch, <1>1, <1>2, PTL DEF Spec
=============================================================================
