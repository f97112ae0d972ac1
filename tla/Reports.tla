-------------------------------- MODULE Reports --------------------------------
(***************************************************************************)
(* What arg_parse leaves behind for the application, and what it is told:  *)
(* the parts of file names, the names of an entry in a buffer, texts in a  *)
(* column and the messages of errors.                                      *)
(***************************************************************************)
EXTENDS Driver, Help

\* The kinds that the constructors make, beside the terminator.  A letter is no
\* name of an error.
Kinds == {"lit", "file", "str", "int", "dbl", "rex", "date", "rem"}
Texts == Seq(STRING \ {"", "EMISSARG", "ELONGOPT"})

\* An entry for what remains has no names (arg_rem).
ASSUME EntriesAssumption == \A input \in Inputs :
  \A i \in Indices(input.table) :
    LET e == input.table[i] IN
    /\ e.kind \in Kinds /\ e.short \in Texts /\ e.long \in Seq(Texts)
    /\ e.kind = "rem" => Untagged(e)
    /\ {e.min, e.max} \subseteq Nat
    /\ "glossary" \in DOMAIN e => e.glossary \in Texts
ASSUME WordsAssumption == \A input \in Inputs : input.argv \in Seq(Texts)

\* A word that ends in a dash after letters that take no text, which getopt
\* begins again and again.
Endless(word) ==
  /\ Len(word) > 2 /\ word[1] = "-" /\ word[2] # "-" /\ Last(word) = "-"
  /\ \A k \in 2..(Len(word) - 1) : word[k] # "-" /\ (KnownLetter(table, word[k]) =>
       table[FindShortOption(table, word[k])].value = "no")
-----------------------------------------------------------------------------
\* The number of values of an entry is one that its table allows.
InCounts == \A i \in Indices(table) : table[i].kind # "rem" => Len(values[i]) \in table[i].min..table[i].max

\* A stored file name has a base without directories and an extension behind a
\* stem, which together with the directory make up the name (arg_file_scanfn).
NamesSplit ==
  phase = "parsed" =>
    \A i \in Indices(table) : table[i].kind = "file" =>
      \A j \in DOMAIN values[i] : values[i][j].filename # NoText =>
        LET v == values[i][j]
            dots == {k \in 2..(Len(v.basename) - 1) : v.basename[k] = "."}
        IN /\ IsSuffix(v.basename, v.filename) /\ "/" \notin Range(v.basename)
           /\ v.basename \notin {<<".">>, <<".", ".">>}
           /\ IsSuffix(v.extension, v.basename)
           /\ v.extension = <<>> \/ Len(v.basename) - Len(v.extension) + 1 \in dots
           /\ v.extension = <<>> => v.basename = <<>> \/ Last(v.basename) = "." \/ dots = {}

\* However long the names of an entry are for the buffer they are put together
\* in, nothing is written behind it, although strncat is told the room for its
\* text and its NUL together, and what does not fit is cut off at the end
\* (arg_cat_option, arg_cat_optionv).
BufferKept ==
  phase = "parsed" /\ given = <<>> =>
    \A size \in 6..14, i \in Indices(table) :
      LET kept(b, full) == b.high < size /\ IsPrefix(SubSeq(b.text, 1, Min({size - 2, Len(b.text)})), full.text) IN
      /\ kept(Syntax(size, table[i]), Syntax(200, table[i]))
      /\ kept(Syntaxv(size, table[i], <<"|">>), Syntaxv(200, table[i], <<"|">>))
      /\ \A k \in Explained(table) : PrintGlossaryGnu(size, 6, 0, 1, table)[k].high < size

\* Text in a column: no line is wider than the column, nothing but blanks is
\* left out or printed twice, and a word is broken only when it is wider than
\* the column (arg_print_formatted_ds).
InColumn(text, lines, width) ==
  LET blank(i) == text[i] \in Spaces
      next(k) == IF k < Len(lines) THEN lines[k + 1].from ELSE Len(text) + 1
  IN /\ \A k \in DOMAIN lines : lines[k].to - lines[k].from \in 0..width /\ lines[k].to <= next(k)
     /\ \A k \in DOMAIN lines : \A i \in lines[k].to..(next(k) - 1) : blank(i)
     /\ lines # <<>> => \A i \in 1..(lines[1].from - 1) : blank(i)
     /\ \A k \in DOMAIN lines : next(k) = lines[k].to /\ k < Len(lines) /\ lines[k].to > 1 =>
          \/ blank(lines[k].to - 1) \/ blank(lines[k].to)
          \/ lines[k].to - lines[k].from = width /\ \A i \in lines[k].from..lines[k].to : ~blank(i)
TextWrapped ==
  phase = "parsed" =>
    \A i \in Explained(table), lmargin \in 0..1, width \in 1..4 :
      LET row == PrintGlossaryGnu(200, 25, lmargin, lmargin + width - 1, table)[i] IN
      InColumn(table[i].glossary, row.lines, width)

\* Every error has its message, and a message about an option quotes one of the
\* arguments given that begins with a dash, or is the empty text, and no operand,
\* though getopt has gone on by then and the arguments have moved
\* (arg_parse_tagged, arg_*_errorfn).  Lines with an Endless word are left out.
ErrorsReported ==
  phase = "parsed" =>
    \A k \in DOMAIN errors :
      LET error == errors[k] IN
      /\ PrintErrorList(table, errors)[k].what # ""
      /\ error.code \in {"EMISSARG", "ELONGOPT"} /\ (\A j \in DOMAIN given : ~Endless(given[j])) =>
           error.text \in Range(given) /\ (error.text = <<>> \/ error.text[1] = "-")
=================================================================================
