------------------------------- MODULE MCLexer -------------------------------
(***************************************************************************)
(* Lexer on all short texts over small alphabets, one for each group of    *)
(* lexemes that compete for the same characters.                           *)
(***************************************************************************)
EXTENDS Lexemes

UpTo(alphabet, n) == UNION {[1..m -> alphabet] : m \in 0..n}

Numbers == UpTo({"1", "9", ".", "e", "+", "x"}, 5)
LiteralTexts == UpTo({"'", "\"", "\\", "n", "\n", "\r", "a"}, 5)
Comments == UpTo({"/", "*", "\n", "\r", "a", "\""}, 5)
Operators == UpTo({"&", "|", "!", "=", "<", ">", "/", "?"}, 4)
Words == UpTo({"i", "f", "_", "1", " ", ";"}, 4)
\* Texts whose interesting part comes late.
Longer ==
  {<<"'", "\\", q, "'", "\r", "\n", "i", "n", "t", x>> : q \in {"n", "t", "r", "b", "0", "\\", "'", "\"", "q"}, x \in {" ", "e"}}
  \cup {<<"\"", "\n", "\\", q, "a", "\"", "\r", "a">> : q \in {"n", "t", "r", "b", "0", "\\", "'", "\"", "q"}}
  \cup {k \o <<c>> : c \in {" ", "_", "("}, k \in
         {<<"e", "l", "s", "e">>, <<"r", "e", "t", "u", "r", "n">>, <<"s", "t", "r", "u", "c", "t">>,
          <<"v", "o", "i", "d">>, <<"w", "h", "i", "l", "e">>, <<"d", "o", "u", "b", "l", "e">>,
          <<"c", "h", "a", "r">>, <<"f", "l", "o", "a", "t">>}}
  \cup {<<"\t", c, "x">> : c \in DOMAIN Punctuation}

MCTexts == Numbers \cup LiteralTexts \cup Comments \cup Operators \cup Words \cup Longer
MCLetters == {"a", "b", "c", "d", "e", "f", "h", "i", "l", "n", "o", "r", "s", "t", "u", "v", "w", "x", "E"}
MCDigits == [d \in {"1", "9"} |-> IF d = "1" THEN 1 ELSE 9]
MCHugeDoubles == {<<d, "e", c, "9">> : d \in {"1", "9"}, c \in {"9"}}
=============================================================================
