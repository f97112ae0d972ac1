------------------------------ MODULE Arguments ------------------------------
(***************************************************************************)
(* What the arguments of a command line mean, read once from left to right *)
(* as the conventions of getopt_long say it, without moving any of them,   *)
(* and what arg_parse must have made of them in the end.                   *)
(***************************************************************************)
EXTENDS Reports

CONSTANTS
  Many,            \* the repetition count without a limit in a pattern
  Expressions,     \* the expressions whose patterns the tables hold
  PatternTexts,    \* the texts they are tried on
  DateValues       \* the dates that are written and read again

ASSUME ManyAssumption == Many \in Nat \ {0, 1}

Pattern == INSTANCE Patterns

\* arg_rex_scanfn: the pattern is compiled for each text.
RexMatches(e, text) ==
  Pattern!Match([text |-> text, beyond |-> e.beyond, icase |-> e.icase], Pattern!Compile(e.pattern))

\* What was read: the occurrences of entries with their texts, the arguments
\* that are options (or texts of options), the others, and was there a mistake?
Nothing == [given |-> <<>>, options |-> <<>>, operands |-> <<>>, wrong |-> FALSE]
Wrong(r) == [r EXCEPT !.wrong = TRUE]
Occurs(i, text, r) == [r EXCEPT !.given = <<[entry |-> i, text |-> text]>> \o @]
AsOptions(words, r) == [r EXCEPT !.options = words \o @]
AsOperands(words, r) == [r EXCEPT !.operands = words \o @]

\* The entries a long name can stand for.
Meant(name) ==
  LET called(i) == name \in Range(table[i].long)
      begins(i) == \E long \in Range(table[i].long) : IsPrefix(name, long)
  IN IF \E i \in Indices(table) : called(i) THEN {i \in Indices(table) : called(i)}
     ELSE {i \in Indices(table) : begins(i)}

RECURSIVE Read(_)

ReadLong(word, more) ==
  LET meant == Meant(NameOf(word))
      i == Min(meant)
      value == table[i].value
  IN CASE Cardinality(meant) # 1 -> Wrong(Read(more))
       [] Cardinality(meant) = 1 /\ HasEqual(word) /\ value = "no" -> Wrong(Read(more))
       [] Cardinality(meant) = 1 /\ HasEqual(word) /\ value # "no" ->
            Occurs(i, TextOf(word), IF TextOf(word) = <<>> THEN Wrong(Read(more)) ELSE Read(more))
       [] Cardinality(meant) = 1 /\ ~HasEqual(word) /\ value = "required" ->
            IF more = <<>> THEN Wrong(Nothing)
            ELSE Occurs(i, more[1], AsOptions(<<more[1]>>, IF more[1] = <<>> THEN Wrong(Read(Tail(more))) ELSE Read(Tail(more))))
       [] OTHER -> Occurs(i, NoText, Read(more))

\* A dash among letters begins a long name.
RECURSIVE ReadLetters(_, _)
ReadLetters(word, more) ==
  LET having == {j \in Indices(table) : word[1] \in Range(table[j].short)}
      i == Min(having)
      value == table[i].value
      rest == Tail(word)
  IN CASE word = <<>> -> Read(more)
       [] word # <<>> /\ word[1] = "-" -> ReadLong(rest, more)
       [] word # <<>> /\ word[1] # "-" /\ having = {} -> Wrong(ReadLetters(rest, more))
       [] OTHER ->
            CASE value = "no" -> Occurs(i, NoText, ReadLetters(rest, more))
              [] value # "no" /\ rest # <<>> -> Occurs(i, rest, Read(more))
              [] value = "optional" /\ rest = <<>> -> Occurs(i, NoText, Read(more))
              [] OTHER -> IF more = <<>> THEN Wrong(Nothing)
                          ELSE Occurs(i, more[1], AsOptions(<<more[1]>>, Read(Tail(more))))

Read(words) ==
  IF words = <<>> THEN Nothing
  ELSE LET word == Head(words)
           more == Tail(words)
       IN CASE word = DashDash -> AsOptions(<<word>>, AsOperands(more, Nothing))
            [] word # DashDash /\ IsOption(word) -> AsOptions(<<word>>, ReadLetters(Tail(word), more))
            [] OTHER -> IF posixly_correct THEN AsOperands(words, Nothing) ELSE AsOperands(<<word>>, Read(more))

-----------------------------------------------------------------------------
\* When getopt has come to the end, the options and their texts are in front
\* and the other arguments behind them, both in the order they were given,
\* however often blocks of arguments were exchanged on the way.
Free == SelectSeq([i \in Indices(table) |-> i], LAMBDA i : Untagged(table[i]))
Held == FoldLeft(LAMBDA n, i : n + Len(values[i]), 0, Free)

Arranged ==
  phase = "untagged" =>
    LET r == Read(given) IN
    argv = r.options \o r.operands /\ (Trying => optind = Len(r.options) + 1 + Held)

\* The texts an entry was given among the options, and the values they are.
TextsOf(r, i) == LET mine == SelectSeq(r.given, LAMBDA g : g.entry = i) IN [j \in DOMAIN mine |-> mine[j].text]
ValuesOf(r, i) == [j \in DOMAIN TextsOf(r, i) |-> ScanText(table[i], TextsOf(r, i)[j]).value]
Readable(r) == \A i \in Indices(table) : \A j \in DOMAIN TextsOf(r, i) : ScanText(table[i], TextsOf(r, i)[j]).error = ""

\* A parse without errors has read the options right, each entry got what it
\* was given in that order, the untagged entries together hold exactly the
\* other arguments in order, and every count is allowed.
NoErrorsMeansRight ==
  phase = "parsed" /\ errors = <<>> =>
    LET r == Read(given) IN
       /\ ~r.wrong /\ Readable(r) /\ InCounts
       /\ \A i \in Indices(table) : ~Untagged(table[i]) => values[i] = ValuesOf(r, i)
       /\ Held = Len(r.operands)

\* A mistake that is registered was made: either an option is wrong, or a text
\* is not of its kind, or there are too many occurrences of an entry or too
\* few, or the other arguments do not fit in turn into the untagged entries.
ErrorsMeanWrong ==
  phase = "parsed" /\ errors # <<>> =>
    LET r == Read(given) IN
    \/ r.wrong \/ ~Readable(r)
    \/ \E i \in Indices(table) : Len(TextsOf(r, i)) > table[i].max
    \/ ~InCounts
    \/ Held < Len(r.operands)

\* What arg_parse stores and registers is what a reading from left to right
\* gives, in both directions: no mistake is missed, and none is made up.
OutcomeRight == NoErrorsMeansRight /\ ErrorsMeanWrong

\* How a number may begin, with its sign and its base: a prefix is read by one
\* function and the rest by strtol, which takes blanks, a sign and 0x again.
Signs == {<<>>, <<"+">>, <<"-">>}
Blank == {<<>>, <<" ">>}
SignOf(s) == IF s = <<"-">> THEN -1 ELSE 1
Heads ==
  LET prefixed(letters, base, again) ==
        {[text |-> b \o s \o <<"0", letter>> \o c \o t \o again, sign |-> SignOf(s) * SignOf(t), base |-> base] :
           b \in Blank, c \in Blank, s \in Signs, t \in Signs, letter \in letters}
  IN {[text |-> b \o s, sign |-> SignOf(s), base |-> 10] : b \in Blank, s \in Signs}
     \cup prefixed({"b", "B"}, 2, <<>>) \cup prefixed({"o", "O"}, 8, <<>>)
     \cup UNION {prefixed({"x", "X"}, 16, again) : again \in {<<>>, <<"0", "x">>, <<"0", "X">>}}
Factors == <<>> :> 1 @@ <<"K", "B">> :> Kilo @@ <<"M", "B">> :> Mega @@ <<"G", "B">> :> Giga
Unblanked(text) == IF text # <<>> /\ Last(text) = " " THEN Front(text) ELSE text

\* The numbers that a text denotes: a head, as many digits as there are, and a
\* suffix.
Denoted(text) ==
  UNION { LET start == Len(head.text) + 1
              digits == {c \in DOMAIN DigitValue : DigitValue[c] < head.base}
              end == Max({j \in (start - 1)..Len(text) : \A k \in start..j : text[k] \in digits})
              factor == [j \in 1..(Len(Unblanked(text)) - end) |-> Upper(text[end + j])]
              number[j \in (start - 1)..Len(text)] == IF j < start THEN 0 ELSE head.base * number[j - 1] + DigitValue[text[j]]
          IN IF end < start \/ factor \notin DOMAIN Factors THEN {}
             ELSE {head.sign * number[end] * Factors[factor]} :
          head \in {h \in Heads : IsPrefix(h.text, text)} }

\* An integer option takes exactly the texts that denote a number, with the
\* number if an int can hold it; the limits that are tested before multiplying
\* by a suffix are neither too low nor too high (arg_int_scanfn).
IntegersRead ==
  phase = "reset" =>
    \A i \in Indices(table), j \in DOMAIN given : table[i].kind = "int" =>
      LET scan == ScanText(table[i], given[j])
          denoted == Denoted(given[j])
      IN IF denoted = {} THEN scan.error = "BADINT"
         ELSE \A n \in denoted :
                IF n \in IntMin..IntMax THEN scan = [error |-> "", value |-> n] ELSE scan.error = "OVERFLOW"

\* How a date is written: two digits or what the field needs.
Padded(n, k) == [j \in 1..k |-> CHOOSE c \in DOMAIN Worth : Worth[c] = (n \div Power(k - j)) % 10]
WrittenItem(item, tm) ==
  LET c == item.conv IN
  CASE c = "" -> <<item.c>>
    [] c \in {"n", "t"} -> <<" ">>
    [] c = "Y" -> Padded(tm.year + YearBase, 4)
    [] c = "y" -> Padded(tm.year % 100, 2)
    [] c = "C" -> Padded((tm.year + YearBase) \div 100, 2)
    [] c = "m" -> Padded(tm.mon + 1, 2)
    [] c \in {"d", "e"} -> Padded(tm.mday, 2)
    [] c \in {"H", "k"} -> Padded(tm.hour, 2)
    [] c \in {"I", "l"} -> Padded(((tm.hour + 11) % 12) + 1, 2)
    [] c = "M" -> Padded(tm.min, 2)
    [] c = "S" -> Padded(tm.sec, 2)
    [] c = "j" -> Padded(tm.yday + 1, 3)
    [] c = "w" -> Padded(tm.wday, 1)
    [] c \in {"b", "h"} -> AbMon[tm.mon + 1]
    [] c = "B" -> AbMon[tm.mon + 1] \o RestOfMon[tm.mon + 1]
    [] c = "a" -> AbDay[tm.wday + 1]
    [] c = "A" -> AbDay[tm.wday + 1] \o RestOfDay[tm.wday + 1]
    [] OTHER -> IF tm.hour < 12 THEN <<"a", "m">> ELSE <<"p", "m">>
Items(format) == FlattenSeq([k \in DOMAIN format |-> Expand(format[k])])
WrittenDate(format, tm) == FlattenSeq([k \in DOMAIN Items(format) |-> WrittenItem(Items(format)[k], tm)])

\* The fields that a format tells.
ConvsOf(format) == {Items(format)[k].conv : k \in DOMAIN Items(format)}
FieldsOf(format) ==
  LET convs == ConvsOf(format) IN
  UNION {IF convs \cap {"Y", "y", "C"} # {} THEN {"year"} ELSE {},
         IF convs \cap {"m", "b", "B", "h"} # {} THEN {"mon"} ELSE {},
         IF convs \cap {"d", "e"} # {} THEN {"mday"} ELSE {},
         IF convs \cap {"H", "k", "p"} # {} THEN {"hour"} ELSE {},
         IF "M" \in convs THEN {"min"} ELSE {},
         IF "S" \in convs THEN {"sec"} ELSE {},
         IF "j" \in convs THEN {"yday"} ELSE {},
         IF convs \cap {"w", "a", "A"} # {} THEN {"wday"} ELSE {}}

\* The years of a century that is told count from the year 0, not from 1900 as
\* all others do: arg_strptime does not subtract the base there, in either order
\* of %C and %y, and without %y the year is the century's first.
YearRead(format, tm) ==
  IF "C" \notin ConvsOf(format) THEN tm.year
  ELSE IF "y" \in ConvsOf(format) THEN tm.year + YearBase ELSE 100 * ((tm.year + YearBase) \div 100)

\* A date that is written as the format says is read as the same date, whatever
\* date was in its place before, which keeps only what the format does not
\* tell; the years with two digits and no century are those from 1969 on
\* (arg_strptime).
DatesRead ==
  phase = "parsed" =>
    \A i \in Indices(table), tm \in DateValues :
      table[i].kind = "date" /\ given # <<>> /\ Last(given) = WrittenDate(table[i].format, tm) =>
        LET told == FieldsOf(table[i].format) IN
        /\ errors = <<>>
        /\ values[i] = <<[f \in DOMAIN tm |-> IF f \notin told THEN table[i].left[f]
                                              ELSE IF f = "year" THEN YearRead(table[i].format, tm) ELSE tm[f]]>>

\* All kinds of texts that are converted: numbers, dates and file names.
TextsRead == IntegersRead /\ DatesRead /\ NamesSplit

\* The expressions that an entry's pattern writes down.
Expressed(e) == {choices \in Expressions : Pattern!WrittenChoices(choices) = e.pattern}
PatternEntries == {i \in Indices(table) : table[i].kind = "rex"}

\* Every pattern is understood, and no text is accepted for which a match does
\* not exist, although the matcher decides about repetitions by looking one
\* node ahead (trex_matchnode) and may read behind the end of the text.
PatternsSound ==
  phase = "parsed" =>
    \A i \in PatternEntries : \A choices \in Expressed(table[i]) :
      /\ Pattern!Compile(table[i].pattern) # Pattern!NoProgram
      /\ Pattern!Sound(choices, PatternTexts)

\* Where no choice is open the matcher misses nothing, and with the flag that
\* ignores case, ranges included, case makes no difference.
PatternsComplete ==
  phase = "parsed" =>
    \A i \in PatternEntries : \A choices \in Expressed(table[i]) :
      Pattern!Complete(choices, PatternTexts) /\ Pattern!CaseIgnored(choices, PatternTexts)

\* The lines a usage line allows, each type replaced by a text that every kind
\* of entry takes.  It does not tell that a flag is to be repeated, or that an
\* optional text must not stand apart from its letter.
Usable ==
  \A i \in Indices(table) :
    /\ table[i].kind # "rem" /\ table[i].value # "optional"
    /\ InSwitch(table[i]) => table[i].min <= 1
Typing(text) ==
  LET typed == [k \in DOMAIN text |-> IF text[k] = "D" THEN "1" ELSE text[k]]
      blank == LastOf(typed, " ")
  IN IF blank = 0 THEN <<typed>> ELSE <<SubSeq(typed, 1, blank - 1), From(typed, blank + 1)>>
Allowed(shown) ==
  LET typing == Typing(shown.text) IN
  CASE shown.how = "must" -> {typing}
    [] shown.how = "may" -> {<<>>, typing}
    [] OTHER -> {<<>>, typing, typing \o typing, typing \o typing \o typing}
UsageLines(tab) ==
  FoldLeft(LAMBDA lines, shown : {line \o more : line \in lines, more \in Allowed(shown)}, {<<>>}, PrintSyntax(200, tab))

\* A command line that follows the usage line is accepted (arg_print_syntax_ds
\* and arg_parse).
UsageAccepted ==
  phase = "parsed" /\ ~posixly_correct /\ Usable /\ given \in UsageLines(table) => errors = <<>>

\* What is left to do, in the order of the phases: letters of arguments, then
\* entries and arguments, then the driver's stages.
Size(words) == FoldLeft(LAMBDA n, word : n + Len(word) + 1, 0, words)
Letters == IF Rescan THEN Size(From(argv, Max({optind, 1}))) ELSE Len(place) + Size(From(argv, optind + 1))
One(condition) == IF condition THEN 1 ELSE 0
Left ==
  CASE exit # -1 -> <<0, 0>>
    [] phase = "parsed" /\ exit = -1 -> <<1, 3 - opened + One(loaded = "nothing") + One(~ran)>>
    [] phase = "check" -> <<2, EndIndex(table) - tabindex>>
    [] phase = "untagged" -> <<3, EndIndex(table) - tabindex + Len(argv) + 1 - optind>>
    [] phase = "tagged" -> <<4, Letters + One(optind = 0)>>
    [] OTHER -> <<5, 0>>

\* Every step brings the end nearer, unless a word is Endless: no order of
\* options, operands, clusters and missing texts makes getopt read something
\* again, although moving the arguments sets optind back.
Advances ==
  [][ \/ \E i \in DOMAIN given : Endless(given[i])
      \/ Left'[1] < Left[1]
      \/ Left'[1] = Left[1] /\ Left'[2] < Left[2] ]_vars

\* "arg_parse processes the command-line arguments" and returns the number of
\* errors: every parse ends (argtable3.h).  It does not for an Endless word.
ParseEnds == <>(phase = "parsed")
=============================================================================
