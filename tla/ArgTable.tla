------------------------------- MODULE ArgTable -------------------------------
(***************************************************************************)
(* The argument table of argtable3: the entries an application makes       *)
(* (arg_lit.c, arg_file.c, arg_str.c, arg_int.c, arg_dbl.c, arg_rex.c,     *)
(* arg_date.c, arg_rem.c, arg_end.c), how each kind scans one occurrence,  *)
(* and the option lists that are built for getopt (argtable3.c).           *)
(*                                                                         *)
(* Texts are sequences of characters; NoText is a null pointer.            *)
(***************************************************************************)
EXTENDS Dates

CONSTANTS
  IntMax, LongMax,     \* INT_MAX and LONG_MAX
  Kilo, Mega, Giga,    \* what the suffixes KB, MB and GB multiply by
  Doubles,             \* the texts strtod reads to their end
  Matches(_, _)        \* is a text matched by the pattern of an entry?

ASSUME ScaleAssumption ==
  /\ {IntMax, LongMax, Kilo, Mega, Giga} \subseteq Nat \ {0}
  /\ IntMax < LongMax /\ Kilo < Mega /\ Mega < Giga
  /\ <<>> \in Doubles

NoText == <<"null">>
IntMin == -IntMax - 1
TERMINATOR == 0          \* where an error belongs that is no entry's
-----------------------------------------------------------------------------
\* Constructors.  short are the letters and long the names of an entry; an
\* entry with neither is untagged.
Entry(kind, short, long, value, min, max) ==
  [kind |-> kind, short |-> short, long |-> long, value |-> value,
   min |-> min, max |-> Max({min, max})]

LitN(short, long, min, max) == Entry("lit", short, long, "no", min, max)
FileN(short, long, min, max) == Entry("file", short, long, "required", min, max)
StrN(short, long, min, max) == Entry("str", short, long, "required", min, max)
IntN(short, long, min, max) == Entry("int", short, long, "required", min, max)
DblN(short, long, min, max) == Entry("dbl", short, long, "required", min, max)

\* beyond is what the memory behind a text is read as.
RexN(short, long, pattern, icase, beyond, min, max) ==
  Entry("rex", short, long, "required", min, max) @@ [pattern |-> pattern, icase |-> icase, beyond |-> beyond]

\* left is the date that was in the entry's array before.
DateN(short, long, format, left, min, max) ==
  Entry("date", short, long, "required", min, max) @@ [format |-> format, left |-> left]
Rem == Entry("rem", <<>>, <<>>, "no", 1, 1)
End(max) == [Entry("end", <<>>, <<>>, "no", 1, max) EXCEPT !.max = max]

\* An application may make the value of an entry optional (ARG_HASOPTVALUE).
Optional(e) == [e EXCEPT !.value = "optional"]

Untagged(e) == e.short = <<>> /\ e.long = <<>>

\* arg_endindex: the entries before the terminator are the ones parsed.
EndIndex(table) == Min({i \in DOMAIN table : table[i].kind = "end"})
Indices(table) == 1..(EndIndex(table) - 1)

\* The options for getopt, in the order of the table: long ones with the index
\* of their entry, and letters.
LongOptions(table) ==
  FlattenSeq([i \in Indices(table) |->
    [j \in DOMAIN table[i].long |-> [name |-> table[i].long[j], has_arg |-> table[i].value, val |-> i]]])
FindShortOption(table, c) ==
  Min({i \in Indices(table) : c \in Range(table[i].short)} \cup {EndIndex(table)})
KnownLetter(table, c) == c # ":" /\ FindShortOption(table, c) # EndIndex(table)
-----------------------------------------------------------------------------
\* Scanning of numbers: the digits of strtol in every base, and toupper of the
\* letters in prefixes and suffixes.
DigitValue ==
  Worth @@ [a |-> 10, b |-> 11, c |-> 12, d |-> 13, e |-> 14, f |-> 15]
        @@ [A |-> 10, B |-> 11, C |-> 12, D |-> 13, E |-> 14, F |-> 15]
Capitals == [x |-> "X", o |-> "O", b |-> "B", k |-> "K", m |-> "M", g |-> "G"]
Upper(c) == IF c \in DOMAIN Capitals THEN Capitals[c] ELSE c

IsDigit(c, base) == c \in DOMAIN DigitValue /\ DigitValue[c] < base
From(text, i) == SubSeq(text, i, Len(text))
Sign(c) == IF c = "-" THEN -1 ELSE 1
Saturated(n) == Max({-LongMax - 1, Min({n, LongMax})})
Wrapped(n) == IF n > LongMax THEN n - 2 * (LongMax + 1) ELSE n

AfterSign(text, sign) == IF At(text, sign) \in {"+", "-"} THEN sign + 1 ELSE sign
AfterPrefix(text, i, base) ==
  IF base = 16 /\ At(text, i) = "0" /\ Upper(At(text, i + 1)) = "X" /\ IsDigit(At(text, i + 2), 16) THEN i + 2 ELSE i

\* strtol, from place i of the text: its value and where it stops.
Stopped(val, end) == [val |-> val, end |-> end]
Numeral(digits, base) == FoldLeft(LAMBDA v, c : v * base + DigitValue[c], 0, digits)
DigitsFrom(text, sign, first, base, i) ==
  LET end == Past(text, first, {c \in DOMAIN DigitValue : IsDigit(c, base)}) IN
  IF end = first THEN Stopped(0, i)
  ELSE Stopped(Saturated(Sign(At(text, sign)) * Numeral(SubSeq(text, first, end - 1), base)), end)
Strtol(text, i, base) ==
  LET sign == Past(text, i, Blanks) IN DigitsFrom(text, sign, AfterPrefix(text, AfterSign(text, sign), base), base, i)

\* strtol0X: blanks, a sign, 0 and the letter, and the rest by strtol.
Behind0X(text, letter, sign, zero, rest) ==
  IF At(text, zero) # "0" \/ Upper(At(text, zero + 1)) # letter \/ rest.end = zero + 2 THEN Stopped(0, 1)
  ELSE Stopped(Wrapped(Sign(At(text, sign)) * rest.val), rest.end)
Strtol0X(text, letter, base) ==
  LET sign == Past(text, 1, Blanks)
      zero == AfterSign(text, sign)
  IN Behind0X(text, letter, sign, zero, Strtol(text, zero + 2, base))

\* detectsuffix: the suffix in either case, then blanks only.
DetectSuffix(text, i, suffix) ==
  /\ \A j \in DOMAIN suffix : Upper(At(text, i + j - 1)) = suffix[j]
  /\ Past(text, i + Len(suffix), Blanks) = Len(text) + 1

OrElse(read, other) == IF read.end # 1 THEN read ELSE other
Converted(text) ==
  OrElse(Strtol0X(text, "X", 16), OrElse(Strtol0X(text, "O", 8), OrElse(Strtol0X(text, "B", 2), Strtol(text, 1, 10))))

Quotient(a, b) == IF a >= 0 THEN a \div b ELSE -((-a) \div b)

\* Mistake: a value is tested as if it were not multiplied.
BadUnits(text, end) ==
  LET scale(n) == [by |-> n, least |-> IntMin, most |-> IntMax]
  IN CASE DetectSuffix(text, end, <<"K", "B">>) -> scale(Kilo)
       [] DetectSuffix(text, end, <<"M", "B">>) -> scale(Mega)
       [] DetectSuffix(text, end, <<"G", "B">>) -> scale(Giga)
       [] OTHER -> scale(1)

\* The suffix: its factor, and between which values no overflow occurs.
Units(text, end) ==
  LET scale(n) == [by |-> n, least |-> Quotient(IntMin, n), most |-> IntMax \div n]
  IN CASE DetectSuffix(text, end, <<"K", "B">>) -> scale(Kilo)
       [] DetectSuffix(text, end, <<"M", "B">>) -> scale(Mega)
       [] DetectSuffix(text, end, <<"G", "B">>) -> scale(Giga)
       [] OTHER -> scale(1)

Suffixed(text, end) ==
  \E suffix \in {<<"K", "B">>, <<"M", "B">>, <<"G", "B">>, <<>>} : DetectSuffix(text, end, suffix)

\* arg_int_scanfn on a text: an error, or the value.
Fault(code) == [error |-> code, value |-> 0]
IntOf(text, read, units) ==
  CASE read.end = 1 \/ ~Suffixed(text, read.end) -> Fault("BADINT")
    [] read.end # 1 /\ Suffixed(text, read.end) /\ read.val \notin units.least..units.most -> Fault("OVERFLOW")
    [] OTHER -> [error |-> "", value |-> units.by * read.val]
IntRead(text, read) == IntOf(text, read, Units(text, read.end))
IntScan(text) == IntRead(text, Converted(text))
-----------------------------------------------------------------------------
\* File names: arg_basename and arg_extension.
LastOf(text, c) == Max({i \in DOMAIN text : text[i] = c} \cup {0})
BaseName(filename) ==
  LET result == From(filename, LastOf(filename, "/") + 1) IN
  IF result \in {<<".">>, <<".", ".">>} THEN <<>> ELSE result

Extension(basename) ==
  IF LastOf(basename, ".") \in {0, 1, Len(basename)} THEN <<>> ELSE From(basename, LastOf(basename, "."))
-----------------------------------------------------------------------------
\* scanfn: what an entry that holds values makes of one more occurrence, with
\* its text or without.
Accepted(value) == [error |-> "", value |-> value]
Named(filename, basename) == [filename |-> filename, basename |-> basename, extension |-> Extension(basename)]
DateRead(text, read) == IF read.at = Len(text) + 1 THEN Accepted(read.tm) ELSE Fault("BADDATE")
ScanText(e, text) ==
  CASE e.kind = "lit" \/ (text = NoText /\ e.kind # "file") -> Accepted(NoText)
    [] e.kind = "file" -> Accepted(IF text = NoText THEN Named(NoText, <<>>) ELSE Named(text, BaseName(text)))
    [] text # NoText /\ e.kind = "str" -> Accepted(text)
    [] text # NoText /\ e.kind = "int" -> IntScan(text)
    [] text # NoText /\ e.kind = "dbl" -> IF text \in Doubles THEN Accepted(text) ELSE Fault("BADDOUBLE")
    [] text # NoText /\ e.kind = "rex" -> IF Matches(e, text) THEN Accepted(text) ELSE Fault("REGNOMATCH")
    [] text # NoText /\ e.kind = "date" -> DateRead(text, Strptime(text, e.format, e.left))

Scan(e, values, text) == IF Len(values) = e.max THEN Fault("MAXCOUNT") ELSE ScanText(e, text)

\* checkfn
Lacks(e, values) == e.kind \notin {"rem", "end"} /\ Len(values) < e.min

\* arg_register_error: in a full list the last error is overwritten.
\* Mistake: the list grows beyond its memory.
BadRegistered(errors, limit, error) == Append(errors, error)
Registered(errors, limit, error) ==
  IF Len(errors) < limit THEN Append(errors, error)
  ELSE [errors EXCEPT ![limit] = [code |-> "ELIMIT", parent |-> TERMINATOR, text |-> NoText]]
=============================================================================
