--------------------------------- MODULE Dates ---------------------------------
(***************************************************************************)
(* arg_strptime of arg_date.c: a text is read as a date and time in the    *)
(* order of a format.                                                      *)
(*                                                                         *)
(* A format is a sequence of items: characters, and conversions with their *)
(* modifier.  A letter in lower case stands for both cases, which are not  *)
(* told apart in names.                                                    *)
(***************************************************************************)
EXTENDS Integers, Sequences, SequencesExt, FiniteSetsExt

Blanks == {" "}
At(text, i) == IF i \in DOMAIN text THEN text[i] ELSE "\\0"

\* The first place from i on where the text has no character of the set.
Past(text, i, set) == Min({j \in i..(Len(text) + 1) : At(text, j) \notin set})

Numerals == <<"1", "2", "3", "4", "5", "6", "7", "8", "9">>
Worth == [c \in Range(Numerals) \cup {"0"} |-> IF c = "0" THEN 0 ELSE CHOOSE n \in 1..9 : Numerals[n] = c]

\* The names of days and months: what is short for them, and the rest.
AbDay == << <<"s", "u", "n">>, <<"m", "o", "n">>, <<"t", "u", "e">>, <<"w", "e", "d">>, <<"t", "h", "u">>, <<"f", "r", "i">>, <<"s", "a", "t">> >>
RestOfDay == << <<"d", "a", "y">>, <<"d", "a", "y">>, <<"s", "d", "a", "y">>, <<"n", "e", "s", "d", "a", "y">>, <<"r", "s", "d", "a", "y">>, <<"d", "a", "y">>, <<"u", "r", "d", "a", "y">> >>
AbMon == << <<"j", "a", "n">>, <<"f", "e", "b">>, <<"m", "a", "r">>, <<"a", "p", "r">>, <<"m", "a", "y">>, <<"j", "u", "n">>,
            <<"j", "u", "l">>, <<"a", "u", "g">>, <<"s", "e", "p">>, <<"o", "c", "t">>, <<"n", "o", "v">>, <<"d", "e", "c">> >>
RestOfMon == << <<"u", "a", "r", "y">>, <<"r", "u", "a", "r", "y">>, <<"c", "h">>, <<"i", "l">>, <<>>, <<"e">>,
                <<"y">>, <<"u", "s", "t">>, <<"t", "e", "m", "b", "e", "r">>, <<"o", "b", "e", "r">>, <<"e", "m", "b", "e", "r">>, <<"e", "m", "b", "e", "r">> >>

Literal(c) == [conv |-> "", c |-> c, alt |-> "", apart |-> FALSE]
Conversion(conv) == [conv |-> conv, c |-> "", alt |-> "", apart |-> FALSE]

\* Conversions that stand for a format of their own, which knows nothing of a
\* century or year that was read before.
Apart(conv) == [Conversion(conv) EXCEPT !.apart = TRUE]
DateFormat == <<Apart("m"), Literal("/"), Apart("d"), Literal("/"), Apart("y")>>
ClockFormat == <<Apart("H"), Literal(":"), Apart("M"), Literal(":"), Apart("S")>>
Composite ==
  [D |-> DateFormat, x |-> DateFormat, T |-> ClockFormat, X |-> ClockFormat,
   c |-> DateFormat \o <<Literal(" ")>> \o ClockFormat,
   R |-> SubSeq(ClockFormat, 1, 3),
   r |-> <<Apart("I"), Literal(":"), Apart("M"), Literal(":"), Apart("S"), Literal(" "), Apart("p")>>]

\* LEGAL_ALT: which modifier a conversion takes.
LegalAlt(item) ==
  \/ item.alt = ""
  \/ item.alt = "E" /\ item.conv \in {"c", "X", "x", "C", "Y", "y"}
  \/ item.alt = "O" /\ item.conv \in {"d", "e", "H", "I", "M", "m", "S", "U", "W", "w", "y"}
Expand(item) == IF LegalAlt(item) /\ item.conv \in DOMAIN Composite THEN Composite[item.conv] ELSE <<item>>
-----------------------------------------------------------------------------
\* conv_num: the digits that are read are no more than the upper limit has, and
\* the value and the place behind them, or none.
Limits ==
  [C |-> <<0, 99>>, d |-> <<1, 31>>, e |-> <<1, 31>>, k |-> <<0, 23>>, H |-> <<0, 23>>, l |-> <<1, 12>>, I |-> <<1, 12>>,
   j |-> <<1, 366>>, M |-> <<0, 59>>, m |-> <<1, 12>>, S |-> <<0, 61>>, U |-> <<0, 53>>, W |-> <<0, 53>>, w |-> <<0, 6>>,
   Y |-> <<0, 9999>>, y |-> <<0, 99>>]
ValueOf(digits) == FoldLeft(LAMBDA v, c : 10 * v + Worth[c], 0, digits)
Power(n) == FoldLeft(LAMBDA v, k : 10 * v, 1, [k \in 1..n |-> k])
None == [value |-> 0, at |-> 0]

DigitsRead(text, i, most) ==
  LET value(k) == ValueOf(SubSeq(text, i, i + k - 1)) IN
  Max({k \in 0..4 : \A j \in 1..k :
         At(text, i + j - 1) \in DOMAIN Worth /\ (j > 1 => most >= Power(j - 1) /\ value(j - 1) * 10 <= most)})
Within(least, most, n, at) == IF n \in least..most THEN [value |-> n, at |-> at] ELSE None
NumberOf(text, i, least, most, k) ==
  IF k = 0 THEN None ELSE Within(least, most, ValueOf(SubSeq(text, i, i + k - 1)), i + k)
ConvNum(text, i, least, most) == NumberOf(text, i, least, most, DigitsRead(text, i, most))

\* A name in full or else what is short for it, of the first day or month that
\* has one there.
Stands(name, text, i) == \A j \in DOMAIN name : At(text, i + j - 1) = name[j]
NameRead(text, i, short, rest) ==
  LET found == {n \in DOMAIN short : Stands(short[n], text, i)}
      n == Min(found)
  IN IF found = {} THEN None
     ELSE [value |-> n - 1, at |-> i + Len(short[n]) + (IF Stands(short[n] \o rest[n], text, i) THEN Len(rest[n]) ELSE 0)]

\* What a number means; split tells that a century or a year was read.
YearBase == 1900
TwoDigits(n) == IF n <= 68 THEN n + 2000 - YearBase ELSE n
Stored(conv, tm, split, n) ==
  CASE conv = "C" -> [tm EXCEPT !.year = IF split THEN (@ % 100) + n * 100 ELSE n * 100]
    [] conv \in {"d", "e"} -> [tm EXCEPT !.mday = n]
    [] conv \in {"H", "k"} -> [tm EXCEPT !.hour = n]
    [] conv \in {"I", "l"} -> [tm EXCEPT !.hour = n % 12]
    [] conv = "j" -> [tm EXCEPT !.yday = n - 1]
    [] conv = "M" -> [tm EXCEPT !.min = n]
    [] conv = "m" -> [tm EXCEPT !.mon = n - 1]
    [] conv = "S" -> [tm EXCEPT !.sec = n]
    [] conv \in {"U", "W"} -> tm
    [] conv = "w" -> [tm EXCEPT !.wday = n]
    [] conv = "Y" -> [tm EXCEPT !.year = n - YearBase]
    [] conv = "y" -> [tm EXCEPT !.year = IF split THEN (@ \div 100) * 100 + n ELSE TwoDigits(n)]

\* One item: where it goes on, 0 when the text does not fit.
State(at, tm, split) == [at |-> at, tm |-> tm, split |-> split]
NoState(s) == [s EXCEPT !.at = 0]
NumberItem(s, item, read) ==
  IF read.at = 0 THEN NoState(s)
  ELSE State(read.at, Stored(item.conv, s.tm, s.split /\ ~item.apart, read.value),
             s.split \/ (item.conv \in {"C", "y"} /\ ~item.apart))
NameItem(s, read, isday) ==
  IF read.at = 0 THEN NoState(s)
  ELSE State(read.at, IF isday THEN [s.tm EXCEPT !.wday = read.value] ELSE [s.tm EXCEPT !.mon = read.value], s.split)

\* am or pm is compared with all that is left of the text.
HalfItem(text, s) ==
  LET rest == SubSeq(text, s.at, Len(text)) IN
  CASE rest = <<"a", "m">> /\ s.tm.hour <= 11 -> State(s.at + 2, s.tm, s.split)
    [] rest = <<"p", "m">> /\ s.tm.hour <= 11 -> State(s.at + 2, [s.tm EXCEPT !.hour = @ + 12], s.split)
    [] OTHER -> NoState(s)

ReadItem(text, s, item) ==
  IF s.at = 0 \/ ~LegalAlt(item) THEN NoState(s)
  ELSE CASE item.conv = "" /\ item.c \notin Blanks ->
              IF At(text, s.at) = item.c THEN State(s.at + 1, s.tm, s.split) ELSE NoState(s)
         [] item.c \in Blanks \/ item.conv \in {"n", "t"} -> State(Past(text, s.at, Blanks), s.tm, s.split)
         [] item.conv \in DOMAIN Limits -> NumberItem(s, item, ConvNum(text, s.at, Limits[item.conv][1], Limits[item.conv][2]))
         [] item.conv \in {"A", "a"} -> NameItem(s, NameRead(text, s.at, AbDay, RestOfDay), TRUE)
         [] item.conv \in {"B", "b", "h"} -> NameItem(s, NameRead(text, s.at, AbMon, RestOfMon), FALSE)
         [] item.conv = "p" -> HalfItem(text, s)
         [] OTHER -> NoState(s)

\* arg_strptime: the place behind what was read, 0 when the format does not fit
\* or has an unknown conversion, and the date, which keeps what is not read.
Strptime(text, format, tm) ==
  FoldLeft(LAMBDA s, item : ReadItem(text, s, item), State(1, tm, FALSE), FlattenSeq([k \in DOMAIN format |-> Expand(format[k])]))
=============================================================================
