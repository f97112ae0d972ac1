--------------------------------- MODULE Help ---------------------------------
(***************************************************************************)
(* What argtable3 prints about a table and about the errors of a parse:    *)
(* the names of an option, put together in a buffer of fixed size, the     *)
(* usage line, the glossary, text in a column (argtable3.c), and the       *)
(* messages of each kind of entry (arg_*.c).                               *)
(***************************************************************************)
EXTENDS ArgTable

\* An entry's glossary and the name of its type.
Described(e, glossary) == e @@ [glossary |-> glossary]
Datatype(e) == IF e.kind \in {"lit", "end"} THEN NoText ELSE <<"D">>
Typed(e) == Datatype(e) # NoText
-----------------------------------------------------------------------------
\* A buffer: the text up to its NUL, where the search for the NUL begins, and
\* the highest cell that was written.  end is the cell it must not reach.
Empty == [text |-> <<>>, dest |-> 0, high |-> 0]

\* arg_cat: what fits, and a NUL in any case.
Cat(end, b, src) ==
  LET at == Min({Len(b.text), end - 1})
      k == Min({Len(src), end - 1 - at})
  IN [text |-> SubSeq(b.text, 1, at) \o SubSeq(src, 1, k), dest |-> at + k, high |-> Max({b.high, at + k})]

\* strncat as it is called here, with the room for the text and the NUL.
StrNCat(end, b, src) ==
  LET text == b.text \o SubSeq(src, 1, Min({Len(src), end - b.dest})) IN
  [b EXCEPT !.text = text, !.high = Max({@, Len(text)})]

\* The pieces of a syntax: names are added by strncat, the rest by arg_cat.
Put(src) == [name |-> FALSE, src |-> src]
PutName(src) == [name |-> TRUE, src |-> src]
Added(end, b, piece) == IF piece.name THEN StrNCat(end, b, piece.src) ELSE Cat(end, b, piece.src)
Filled(end, start, pieces) ==
  LET after[k \in 0..Len(pieces)] == IF k = 0 THEN start ELSE Added(end, after[k - 1], pieces[k])
  IN after[Len(pieces)]

ValuePieces(e, mark) ==
  IF ~Typed(e) THEN <<>>
  ELSE mark \o (IF e.value = "optional" THEN <<Put(<<"[">>), Put(Datatype(e)), Put(<<"]">>)>> ELSE <<Put(Datatype(e))>>)

\* arg_cat_option: one name.
CatOption(e) ==
  CASE e.short # <<>> -> <<Put(<<"-", e.short[1]>>)>> \o ValuePieces(e, <<Put(<<" ">>)>>)
    [] e.short = <<>> /\ e.long # <<>> -> <<Put(<<"-", "-">>), PutName(e.long[1])>> \o ValuePieces(e, <<Put(<<"=">>)>>)
    [] OTHER -> ValuePieces(e, <<>>)

\* arg_cat_optionv: all names.
Separated(separator, names) ==
  FlattenSeq([k \in DOMAIN names |-> IF k = Len(names) THEN names[k] ELSE names[k] \o <<Put(separator)>>])
CatOptionv(e, separator) ==
  LET both == IF e.short # <<>> /\ e.long # <<>> THEN <<Put(separator)>> ELSE <<>>
      mark == CASE e.long # <<>> -> <<Put(<<"=">>)>>
                [] e.long = <<>> /\ e.short # <<>> -> <<Put(<<" ">>)>>
                [] OTHER -> <<>>
  IN Separated(separator, [k \in DOMAIN e.short |-> <<Put(<<"-", e.short[k]>>)>>])
     \o both \o Separated(separator, [k \in DOMAIN e.long |-> <<Put(<<"-", "-">>), PutName(e.long[k])>>])
     \o ValuePieces(e, mark)

\* The callers pass one less than the size of their buffer.
\* Mistake: they pass the size.
BadEndOf(size) == size
EndOf(size) == size - 1
Syntax(size, e) == Filled(EndOf(size), Empty, CatOption(e))
Syntaxv(size, e, separator) == Filled(EndOf(size), Empty, CatOptionv(e, separator))
-----------------------------------------------------------------------------
\* The usage line, as the words of its entries: each is asked for, or optional
\* in brackets, or optional and repeated.
UsageWord(text, how) == [text |-> text, how |-> how]
InSwitch(e) == e.short # <<>> /\ e.value = "no"

\* arg_print_gnuswitch_ds: the letters without text, each once.
\* Mistake: all letters come in brackets.
BadGnuSwitch(table) ==
  LET flags == SelectSeq(SubSeq(table, 1, EndIndex(table) - 1), InSwitch) IN
  [k \in DOMAIN flags |-> UsageWord(<<"-", flags[k].short[1]>>, "may")]
GnuSwitch(table) ==
  LET flags == SelectSeq(SubSeq(table, 1, EndIndex(table) - 1), InSwitch)
      must == SelectSeq(flags, LAMBDA e : e.min > 0)
      may == SelectSeq(flags, LAMBDA e : e.min <= 0)
  IN [k \in DOMAIN must |-> UsageWord(<<"-", must[k].short[1]>>, "must")]
     \o [k \in DOMAIN may |-> UsageWord(<<"-", may[k].short[1]>>, "may")]

\* The mandatory instances, then the others.
Instances(e, text) ==
  [k \in 1..e.min |-> UsageWord(text, "must")]
  \o CASE e.max - e.min \in 0..2 -> [k \in 1..(e.max - e.min) |-> UsageWord(text, "may")]
       [] OTHER -> <<UsageWord(text, "repeated")>>

PrintSyntax(size, table) ==
  LET rest == SelectSeq(SubSeq(table, 1, EndIndex(table) - 1), LAMBDA e : ~InSwitch(e)) IN
  GnuSwitch(table)
  \o FlattenSeq([k \in DOMAIN rest |->
       IF Syntax(size, rest[k]).text = <<>> THEN <<>> ELSE Instances(rest[k], Syntax(size, rest[k]).text)])
-----------------------------------------------------------------------------
\* arg_print_formatted_ds: the lines of a column, each with the places of the
\* text it takes from and up to, and its indentation.
Line(indent, from, to) == [indent |-> indent, from |-> from, to |-> to]
Spaces == {" ", "\n"}

\* Where a line that begins here ends for want of room: behind the last word
\* that fits, or in the middle of a word.
\* Mistake: the search for a blank begins one character too far to the right.
BadLineEnd(text, start, width) ==
  LET breaks == {i \in (start + 1)..(start + width + 1) : At(text, i) \in Spaces} IN
  CASE Len(text) + 1 - start <= width -> Len(text) + 1
    [] Len(text) + 1 - start > width /\ breaks = {} -> start + width
    [] OTHER -> IF text[start] = "\n" THEN Max(breaks) + 1
                ELSE Max({i \in start..Max(breaks) : text[i] \notin Spaces}) + 1
LineEnd(text, start, width) ==
  LET breaks == {i \in (start + 1)..(start + width) : text[i] \in Spaces} IN
  CASE Len(text) + 1 - start <= width -> Len(text) + 1
    [] Len(text) + 1 - start > width /\ breaks = {} -> start + width
    [] OTHER -> IF text[start] = "\n" THEN Max(breaks) + 1
                ELSE Max({i \in start..Max(breaks) : text[i] \notin Spaces}) + 1

\* What was printed, where the rest of the text begins, and the indentation of
\* the next line, before and after a round of the loop.
AtFirst == [lines |-> <<>>, start |-> 1, indent |-> 0]
Round(text, lmargin, width, s) ==
  LET from == Past(text, s.start, Spaces \ {"\n"})
      end == LineEnd(text, from, width)
      to == Min({i \in from..(end - 1) : text[i] = "\n"} \cup {end})
  IN IF s.start > Len(text) THEN s
     ELSE [lines |-> Append(s.lines, Line(s.indent, from, to)),
           start |-> IF to < end THEN to + 1 ELSE to,
           indent |-> IF end <= Len(text) THEN lmargin ELSE 0]

\* Each round takes something from the text.
PrintFormatted(lmargin, rmargin, text) ==
  LET after[k \in 0..Len(text)] ==
        IF k = 0 THEN AtFirst ELSE Round(text, lmargin, rmargin - lmargin + 1, after[k - 1])
  IN after[Len(text)].lines

\* arg_print_glossary_gnu_ds: what does not fit in the column for the options
\* stands on a line of its own.
Explained(table) == {i \in Indices(table) : "glossary" \in DOMAIN table[i]}

Indented(e) ==
  IF e.short = <<>> /\ e.long # <<>> THEN [text |-> <<" ", " ", " ", " ">>, dest |-> 0, high |-> 4] ELSE Empty
PrintGlossaryGnu(size, column, lmargin, rmargin, table) ==
  [i \in Explained(table) |->
    LET b == Filled(EndOf(size), Indented(table[i]), CatOptionv(table[i], <<",", " ">>)) IN
    [syntax |-> b.text, alone |-> Len(b.text) > column, high |-> b.high,
     lines |-> PrintFormatted(lmargin, rmargin, table[i].glossary)]]
-----------------------------------------------------------------------------
\* The error functions: what is said of an error, with an argument or with the
\* names of the entry; nothing at all for an error that is not foreseen.
Says(what, quotes) == [what |-> what, quotes |-> quotes]
EndMessage(error) ==
  CASE error.code = "ELIMIT" -> Says("too many errors to display", FALSE)
    [] error.code = "ENOMATCH" -> Says("unexpected argument", TRUE)
    [] error.code = "EMISSARG" -> Says("requires an argument", TRUE)
    [] error.code = "ELONGOPT" -> Says("invalid option", TRUE)
    [] OTHER -> Says("invalid letter", FALSE)

\* Mistake: an overflow is not foreseen.
BadEntryMessage(kind, error) ==
  CASE error.code = "MINCOUNT" -> Says("missing option", FALSE)
    [] error.code = "MAXCOUNT" -> Says("excess option", kind # "lit")
    [] error.code = "BADINT" -> Says("invalid argument", TRUE)
    [] OTHER -> Says("", FALSE)
EntryMessage(kind, error) ==
  CASE error.code = "MINCOUNT" -> Says("missing option", FALSE)
    [] error.code = "MAXCOUNT" -> Says("excess option", kind # "lit")
    [] error.code = "BADINT" /\ kind = "int" -> Says("invalid argument", TRUE)
    [] error.code = "OVERFLOW" /\ kind = "int" -> Says("integer overflow", TRUE)
    [] error.code = "BADDOUBLE" /\ kind = "dbl" -> Says("invalid argument", TRUE)
    [] error.code = "BADDATE" /\ kind = "date" -> Says("illegal timestamp", TRUE)
    [] error.code = "REGNOMATCH" /\ kind = "rex" -> Says("illegal value", TRUE)
    [] OTHER -> Says("", FALSE)

\* arg_print_errors_ds: all errors, in the order they were registered.
PrintErrorList(table, errors) ==
  [k \in DOMAIN errors |->
    IF errors[k].parent = TERMINATOR THEN EndMessage(errors[k]) ELSE EntryMessage(table[errors[k].parent].kind, errors[k])]
=============================================================================
