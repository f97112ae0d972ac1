----------------------------- MODULE MCArguments -----------------------------
(***************************************************************************)
(* Command lines for Arguments: for the compiler's own table and for       *)
(* tables of other kinds of entries.  Each input is a table with a set of  *)
(* words and the most words of a line.                                     *)
(***************************************************************************)
EXTENDS Arguments

Lines(words, most) == UNION {[1..n -> words] : n \in 0..most}
Calls(tab, lines) == [table : {tab}, argv : lines, posixly_correct : {FALSE}]
Posix(tab, lines) == [table : {tab}, argv : lines, posixly_correct : {TRUE}]

\* A name is abbreviated to nothing, to its beginning, or complete.
MainWords ==
  {<<"a">>, <<"f">>, <<"-">>, DashDash, <<"-", "t">>, <<"-", "t", "f">>, <<"-", "v">>, <<"-", "d", "k">>,
   <<"-", "-", "h">>, <<"-", "-", "h", "e">>, <<"-", "-", "t", "=", "f">>, <<"-", "-", "t", "o", "=">>,
   <<"-", "-", "v", "m">>, <<"-", "-", "x">>, <<"-", "-", "=", "f">>, <<"-", "-", "h", "=", "f">>,
   <<"-", "x">>, <<"-", "x", "-">>, <<"-", "x", "-", "h">>}

\* Flags in clusters, an optional text, two untagged entries.
FlagTable ==
  <<LitN(<<"q">>, <<<<"v", "e">>>>, 1, 2), Optional(StrN(<<"o">>, <<<<"v", "m">>>>, 0, 1)), Rem,
    IntN(<<>>, <<>>, 0, 1), StrN(<<>>, <<>>, 0, 2), End(2)>>
FlagWords ==
  {<<"1">>, <<"b">>, DashDash, <<"-", "q">>, <<"-", "q", "q">>, <<"-", "o">>, <<"-", "q", "o", "b">>,
   <<"-", "-", "v">>, <<"-", "-", "v", "e">>, <<"-", "-", "v", "m">>, <<"-", "-", "v", "m", "=", "b">>, <<"-", ":">>}

\* Long lines, for the permutations.
BlockTable == <<StrN(<<"o">>, <<>>, 0, 3), LitN(<<"q">>, <<>>, 0, 6), FileN(<<>>, <<>>, 0, 6), End(2)>>
BlockLines == Lines({<<"a">>, <<"-", "q">>, <<"-", "o">>}, 5) \cup
  {[i \in 1..9 |-> IF i = 9 THEN <<"-", "q">> ELSE line[i]] : line \in [1..8 -> {<<"a">>, <<"-", "q">>}]}

\* Numbers and file names as the text of an option.
NumberTable == <<IntN(<<"n">>, <<>>, 1, 1), DblN(<<"d">>, <<>>, 0, 1), End(1)>>
Numbers ==
  UNION {[1..n -> {"0", "1", "x", "b", "K", "-"}] : n \in 0..4} \cup
  {<<"1", "K", "B", " ">>, <<"1", " ", "K", "B">>, <<"9", "G", "B">>, <<" ", "+", "0", "o", "7">>, <<"0", "O", "8">>,
   <<"-", "0", "x", "0", "x", "1">>, <<"0", "X", "0", "X", "c">>, <<"9", "9", "9", "9", "9", "9">>}
  \cup {<<c>> : c \in DOMAIN Worth} \cup {<<"0", "x", c>> : c \in DOMAIN DigitValue \cup {"g"}}

\* The least and the greatest number that fit, and their neighbours, for each
\* suffix and in hexadecimal: an int is -128 .. 127, KB 4, MB 16, GB 64.
Decimal(n) == SelectSeq([k \in 1..3 |-> IF n < Power(3 - k) THEN " " ELSE Padded(n, 3)[k]], LAMBDA c : c # " ")
SizeUnits == <<>> :> 1 @@ <<"K", "B">> :> Kilo @@ <<"k", "b">> :> Kilo @@ <<"M", "B">> :> Mega @@ <<"m", "b">> :> Mega
            @@ <<"G", "b">> :> Giga
Limiting ==
  UNION {{Decimal((IntMax \div SizeUnits[s]) + more) \o s : more \in {0, 1}}
         \cup {<<"-">> \o Decimal(((IntMax + 1) \div SizeUnits[s]) + more) \o s : more \in {0, 1}} : s \in DOMAIN SizeUnits}
  \cup {<<"0", "x", "7", "f">>, <<"0", "X", "8", "0">>, <<"-", "0", "x", "8", "0">>, <<"-", "0", "x", "8", "1">>, <<"0", "X", "f", "F">>}
NameTable == <<FileN(<<"f">>, <<>>, 1, 1), End(1)>>
Names == UNION {[1..n -> {"a", ".", "/"}] : n \in 0..5}

\* A table whose usage line can be followed, with entries of many names.
UsageTable ==
  <<LitN(<<"q", "v">>, <<>>, 1, 1), LitN(<<"t">>, <<<<"h", "e">>>>, 0, 1), LitN(<<>>, <<<<"t", "o">>>>, 1, 2),
    IntN(<<"d">>, <<<<"v", "e">>, <<"v", "m">>>>, 2, 3), StrN(<<>>, <<<<"x">>, <<"v">>>>, 0, 3), FileN(<<>>, <<>>, 1, 3), End(2)>>

\* Texts of a glossary.
GlossaryTable(text) == <<Described(LitN(<<"q">>, <<<<"h", "e">>>>, 0, 1), text), Described(StrN(<<>>, <<<<"v", "m">>>>, 0, 1), text), End(1)>>
GlossaryTexts == UNION {[1..n -> {"a", " ", "\n"}] : n \in 0..5} \cup [1..8 -> {"a", " "}]

\* Patterns: one or two parts that are repeated, alternatives, and groups of
\* such parts followed by another.
Of(letters, written) == Pattern!Chars(letters, written)
AnyLetter == Range(Pattern!Ordered)
OneLetter == Of({"a"}, <<"a">>)
Others == Of(AnyLetter \ {"a"}, <<"[", "^", "a", "]">>)
AnyChar == Of(AnyLetter, <<".">>)
Atoms ==
  {OneLetter, Others, AnyChar, Of({"b"}, <<"b">>), Of({"a", "b"}, <<"[", "a", "-", "b", "]">>),
   Of({"-", "1"}, <<"[", "-", "1", "]">>),
   Of(Pattern!Digits, <<"\\", "d">>)}
Parts == {Pattern!Part(atom, times) : atom \in Atoms, times \in Pattern!Times}
Single(atom) == Pattern!Part(atom, Pattern!Once)
Looping == {part \in Parts : part.times.text = <<"*">>}
Repeating == {part \in Parts : part.times.text \in {<<"*">>, <<"+">>} /\ part.atom \in {OneLetter, Others, AnyChar}}
Ends == {Single(OneLetter), Single(Of({"b"}, <<"b">>)), Single(Pattern!Place("end", <<"$">>))}
Start == Single(Pattern!Place("begin", <<"^">>))
Inside == {<<<<p, q>>>> : p \in Repeating, q \in Ends} \cup {<<<<p>>, <<Start, q>>>> : p \in Repeating, q \in Ends}
Groups ==
  {Pattern!Part(Pattern!GroupOf(choices, <<"(">>), times) : choices \in Inside, times \in {t \in Pattern!Times : t.least # 1}}
  \cup {Pattern!Part(Pattern!GroupOf(choices, <<"(", "?", ":">>), Pattern!Once) : choices \in Inside}
MCExpressions ==
  {<<<<p, q>>>> : p \in Parts, q \in Looping \cup Ends} \cup {<<<<p>>, <<q, r>>>> : p \in Looping, q, r \in Ends}
  \cup {<<<<g, q>>>> : g \in Groups, q \in Ends}
NoExpressions == {}
MCPatternTexts == UNION {[1..n -> {"a", "b"}] : n \in 0..3} \cup {<<"1", "b">>, <<"-", "1">>, <<"A", "b">>}
PatternCalls ==
  UNION {Calls(<<RexN(<<"r">>, <<>>, Pattern!WrittenChoices(choices), FALSE, "a", 1, 1), End(1)>>, {<<<<"-", "r">>, <<"a", "b">>>>}) :
    choices \in MCExpressions}

\* Formats of dates: %Y-%m-%d and the like, centuries, names, clocks of 12 and
\* 24 hours.
Format(convs, between) ==
  FlattenSeq([k \in DOMAIN convs |-> IF k = 1 THEN <<Conversion(convs[k])>> ELSE <<Literal(between), Conversion(convs[k])>>])
Formats ==
  {Format(<<"Y", "m", "d">>, "-"), Format(<<"d", "B", "y">>, " "), Format(<<"a", "e", "b", "Y">>, " "), Format(<<"A", "h", "d">>, "."),
   Format(<<"H", "M">>, ":"), Format(<<"k", "S">>, ":"), Format(<<"l", "p">>, " "), Format(<<"j", "w">>, "/"),
   Format(<<"C", "m">>, "-"), Format(<<"C", "y", "d">>, " "), <<Conversion("y"), [Conversion("C") EXCEPT !.alt = "E"]>>,
   <<Conversion("D"), Conversion("n"), Conversion("r")>>, <<Conversion("c")>>, <<Conversion("R")>>,
   <<Conversion("Y"), Conversion("m"), Conversion("d"), Conversion("H")>>,
   <<[Conversion("y") EXCEPT !.alt = "E"], Literal("%"), [Conversion("m") EXCEPT !.alt = "O"]>>}
NoTime == [year |-> 0, mon |-> 0, mday |-> 0, hour |-> 0, min |-> 0, sec |-> 0, wday |-> 0, yday |-> 0]
OldTime == [year |-> 99, mon |-> 11, mday |-> 31, hour |-> 23, min |-> 59, sec |-> 59, wday |-> 5, yday |-> 364]
MCDateValues ==
  {[year |-> <<69, 101, 168>>[(m % 3) + 1], mon |-> m, mday |-> d, hour |-> <<0, 11, 12, 23>>[(m % 4) + 1], min |-> m, sec |-> d, wday |-> m % 7, yday |-> 30 * m + d] :
    m \in 0..11, d \in {9, 31}}
BadDates == {<<"1", "3">>, <<"m", "a">>, <<"7", "/", "4", "1">>, <<" ", "2">>, <<>>}
DateTable(format, left) == <<DateN(<<"d">>, <<>>, format, left, 1, 1), End(1)>>
DateCalls ==
  UNION {Calls(DateTable(format, left), {<<<<"-", "d">>, text>> : text \in BadDates \cup {WrittenDate(format, tm) : tm \in MCDateValues}}) :
    format \in Formats, left \in {NoTime, OldTime}}

MCInputs ==
  Calls(MainTable, Lines(MainWords, 3)) \cup Posix(MainTable, Lines(MainWords, 2))
  \cup Calls(FlagTable, Lines(FlagWords, 3)) \cup Calls(BlockTable, BlockLines) \cup Posix(BlockTable, Lines({<<"a">>, <<"-", "q">>}, 4))
  \cup Calls(NumberTable, {<<<<"-", "n">>, text>> : text \in Numbers \cup Limiting})
  \cup Calls(NumberTable, {<<<<"-", "d">>, text>> : text \in {<<>>, <<"1">>, <<"1", "x">>}})
  \cup Calls(NameTable, {<<<<"-", "f">>, text>> : text \in Names})
  \cup Calls(UsageTable, UsageLines(UsageTable) \cup {<<>>}) \cup Calls(MainTable, UsageLines(MainTable))
  \cup UNION {Calls(GlossaryTable(text), {<<>>}) : text \in GlossaryTexts} \cup PatternCalls \cup DateCalls

DashInputs == Calls(MainTable, Lines({<<"a">>, <<"-", "x">>, <<"-", "x", "-">>, <<"-", "t", "f">>}, 2))

MCDoubles == {<<>>, <<"1">>}
MCMatches(e, text) == RexMatches(e, text)
MCDisk == <<"a">> :> "program" @@ <<"f">> :> "library" @@ <<"-">> :> "faulty"
MCLocked == {<<"k">>}
===============================================================================
