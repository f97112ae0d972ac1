------------------------------- MODULE Lexemes -------------------------------
(***************************************************************************)
(* The lexemes of AtomC as a language, and a text as a sequence of longest *)
(* lexemes: what the token list of Lexer is checked against.               *)
(***************************************************************************)
EXTENDS Lexer

Rest(w, i) == SubSeq(w, i, Len(w))

IsDigits(w) == w # <<>> /\ Range(w) \subseteq Digit
IsMantissa(w) == IsDigits(w) \/ \E i \in 2..Len(w) :
  w[i] = "." /\ IsDigits(SubSeq(w, 1, i - 1)) /\ IsDigits(Rest(w, i + 1))
IsNumber(w) == IsMantissa(w) \/ \E i \in 2..Len(w) :
  /\ w[i] \in {"e", "E"} /\ IsMantissa(SubSeq(w, 1, i - 1))
  /\ \/ IsDigits(Rest(w, i + 1))
     \/ i < Len(w) /\ w[i + 1] \in {"+", "-"} /\ IsDigits(Rest(w, i + 2))

IsWord(w) == w # <<>> /\ Range(w) \subseteq WordChars /\ w[1] \notin Digit

IsCharLiteral(w) ==
  /\ Len(w) \in {3, 4} /\ w[1] = "'" /\ w[Len(w)] = "'"
  /\ IF Len(w) = 3 THEN w[2] \notin {"'", "\\"} ELSE w[2] = "\\" /\ w[3] \in CharEscapes

\* Characters, each other than a quote or a backslash, and escapes.
IsStringBody(w) ==
  LET body[n \in 0..Len(w)] ==
        \/ n = 0
        \/ n > 0 /\ w[n] \notin {"\"", "\\"} /\ body[n - 1]
        \/ n > 1 /\ w[n - 1] = "\\" /\ w[n] \in StringEscapes /\ body[n - 2]
  IN body[Len(w)]
IsString(w) ==
  Len(w) > 1 /\ w[1] = "\"" /\ w[Len(w)] = "\"" /\ IsStringBody(SubSeq(w, 2, Len(w) - 1))

IsSymbol(w) ==
  \/ Len(w) = 1 /\ w[1] \in DOMAIN Punctuation \cup DOMAIN Alone \cup {"/"}
  \/ Len(w) = 2 /\ w[1] \in DOMAIN Pair /\ w[2] = Pair[w[1]].next

SymbolType(w) ==
  IF Len(w) = 2 THEN Pair[w[1]].type
  ELSE IF w[1] \in DOMAIN Punctuation THEN Punctuation[w[1]]
  ELSE IF w[1] \in DOMAIN Alone THEN Alone[w[1]] ELSE "DIV"

IsBlockComment(w) ==
  /\ Len(w) > 3 /\ SubSeq(w, 1, 2) = <<"/", "*">> /\ Rest(w, Len(w) - 1) = <<"*", "/">>
  /\ \A i \in 3..(Len(w) - 2) : ~(w[i] = "*" /\ w[i + 1] = "/")
IsBlank(w) ==
  \/ Len(w) = 1 /\ w[1] \in Blanks \cup Breaks
  \/ Len(w) > 1 /\ SubSeq(w, 1, 2) = <<"/", "/">> /\ Range(w) \cap Breaks = {}
  \/ IsBlockComment(w)

IsToken(w) == IsNumber(w) \/ IsWord(w) \/ IsCharLiteral(w) \/ IsString(w) \/ IsSymbol(w)

\* The longest lexeme at i ends before Longest(i); i itself when there is none.
Longest(i) == Max({i} \cup {j \in (i + 1)..(Len(text) + 1) : IsToken(Slice(i, j)) \/ IsBlank(Slice(i, j))})

\* A lexeme the lexer refuses although a shorter one could be read: a comment
\* that does not end, a number that stops in its fraction or exponent, or one
\* that is out of range.
Refused(i) ==
  LET w == Slice(i, Longest(i))
      next == Char(Longest(i))
  IN \/ Char(i) = "/" /\ Char(i + 1) = "*" /\ ~IsBlockComment(w)
     \/ IsDigits(w) /\ (next = "." \/ Decimal(w) > LongMax)
     \/ IsMantissa(w) /\ next \in {"e", "E"}
     \/ IsNumber(w) /\ ~IsDigits(w) /\ w \in HugeDoubles

\* The reading of the text from i on, one longest lexeme after the other: the
\* places of its tokens, and whether it gets through.
Readable(i) == Longest(i) > i /\ ~Refused(i)

TokensFrom(i) ==
  LET last[n \in 0..Len(text)] ==      \* among the last n characters
        LET from == Len(text) + 1 - n
            to == Longest(from)
        IN IF n = 0 \/ ~Readable(from) THEN <<>>
           ELSE (IF IsBlank(Slice(from, to)) THEN <<>> ELSE << <<from, to>> >>) \o last[Len(text) + 1 - to]
  IN last[Len(text) + 1 - i]

GoodFrom(i) ==
  LET last[n \in 0..Len(text)] ==
        LET from == Len(text) + 1 - n
        IN n = 0 \/ (Readable(from) /\ last[Len(text) + 1 - Longest(from)])
  IN last[Len(text) + 1 - i]

\* A keyword is no identifier; an identifier keeps its name.
FitsType(t) ==
  LET w == Slice(t.from, t.to)
  IN \/ t.type = "INT" /\ IsDigits(w)
     \/ t.type = "DOUBLE" /\ IsNumber(w) /\ ~IsDigits(w)
     \/ t.type = "CHAR" /\ IsCharLiteral(w)
     \/ t.type = "STRING" /\ IsString(w)
     \/ t.type = KeywordOf(w) /\ IsWord(w) /\ (t.type = "ID" => t.value = w)
     \/ t.type = SymbolType(w) /\ IsSymbol(w)
-----------------------------------------------------------------------------
\* The token list is the longest-match reading of the text, each token has
\* the type of its lexeme, END closes an accepted text, and a text is accepted
\* exactly when that reading gets through: the look-aheads of "=", "/", "."
\* and "e" and the two passes over string literals agree with one grammar.
LongestMatch ==
  LET read == IF status = "done" THEN Front(tokens) ELSE tokens IN
  status # "reading" =>
    /\ [k \in DOMAIN read |-> <<read[k].from, read[k].to>>] = TokensFrom(1)
    /\ \A k \in DOMAIN read : FitsType(read[k])
    /\ (status = "done") = GoodFrom(1)
    /\ status = "done" => tokens # <<>> /\ Last(tokens).type = "END"

\* Every text is accepted or rejected in the end: each loop of tokenize and of
\* the consume functions advances the pointer.
Decided == <>(status # "reading")
=============================================================================
