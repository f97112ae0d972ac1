-------------------------------- MODULE Lexer --------------------------------
(***************************************************************************)
(* The lexical analyser, lexer.c.  tokenize walks the text of a source     *)
(* file with one pointer, source_code, and one line counter; every step    *)
(* skips a blank or a comment or appends one token.  err() never returns:  *)
(* the first malformed lexeme ends the run.                                *)
(*                                                                         *)
(* A text is a sequence of characters; the C string's terminator is what   *)
(* stands behind its last one.                                             *)
(***************************************************************************)
EXTENDS Integers, Sequences, SequencesExt, FiniteSetsExt

CONSTANTS
  Texts,          \* the source texts to read
  Letters,        \* the characters isalpha accepts
  Digits,         \* the characters isdigit accepts, with their values
  LongMax,        \* LONG_MAX
  IntModulus,     \* the number of values of an int
  HugeDoubles     \* the literals strtod answers with ERANGE

ASSUME TextsAreSequences == \A t \in Texts : t \in Seq(STRING)

VARIABLES
  text,           \* the source text
  at,             \* source_code: the position of the next character
  line,           \* stream->line
  tokens,         \* the token list; from and to are the token's place
  status          \* "reading", "done" or "error"

vars == <<text, at, line, tokens, status>>

NUL == "end of text"
Blanks == {" ", "\t"}
Breaks == {"\n", "\r"}
ASSUME CharactersAssumption ==
  /\ (Letters \cup DOMAIN Digits) \cap (Breaks \cup {NUL}) = {}
  /\ Digits \in [DOMAIN Digits -> Nat]
ASSUME IntAssumption == IntModulus \in Nat \ {0}
Char(i) == IF i \in 1..Len(text) THEN text[i] ELSE NUL
After(i, S) == CHOOSE j \in i..(Len(text) + 1) :
  Char(j) \notin S /\ \A k \in i..(j - 1) : Char(k) \in S
Digit == DOMAIN Digits
WordChars == Letters \cup Digit \cup {"_"}

KeywordOf(word) ==
  CASE word = <<"e", "l", "s", "e">> -> "ELSE"
    [] word = <<"i", "f">> -> "IF"
    [] word = <<"r", "e", "t", "u", "r", "n">> -> "RETURN"
    [] word = <<"s", "t", "r", "u", "c", "t">> -> "STRUCT"
    [] word = <<"v", "o", "i", "d">> -> "VOID"
    [] word = <<"w", "h", "i", "l", "e">> -> "WHILE"
    [] word = <<"i", "n", "t">> -> "TYPE_INT"
    [] word = <<"d", "o", "u", "b", "l", "e">> -> "TYPE_DOUBLE"
    [] word = <<"c", "h", "a", "r">> -> "TYPE_CHAR"
    [] word = <<"f", "l", "o", "a", "t">> -> "TYPE_FLOAT"
    [] OTHER -> "ID"

\* One-character tokens that never begin a longer one.
Punctuation ==
  [c \in {",", ";", "(", ")", "[", "]", "{", "}", "+", "-", "*", "%", "."} |->
     CASE c = "," -> "COMMA" [] c = ";" -> "SEMICOLON" [] c = "(" -> "LPAR" [] c = ")" -> "RPAR"
       [] c = "[" -> "LBRACKET" [] c = "]" -> "RBRACKET" [] c = "{" -> "LACC" [] c = "}" -> "RACC"
       [] c = "+" -> "ADD" [] c = "-" -> "SUB" [] c = "*" -> "MUL" [] c = "%" -> "MOD" [] c = "." -> "DOT"]

\* Operators of two characters, and of one where that is an operator, too.
Pair == [c \in {"&", "|", "!", "=", "<", ">"} |->
  CASE c = "&" -> [next |-> "&", type |-> "AND"] [] c = "|" -> [next |-> "|", type |-> "OR"]
    [] c = "!" -> [next |-> "=", type |-> "NOTEQ"] [] c = "=" -> [next |-> "=", type |-> "EQUAL"]
    [] c = "<" -> [next |-> "=", type |-> "LESSEQ"] [] c = ">" -> [next |-> "=", type |-> "GREATEREQ"]]
Alone == [c \in {"!", "=", "<", ">"} |->
  CASE c = "!" -> "NOT" [] c = "=" -> "ASSIGN" [] c = "<" -> "LESS" [] c = ">" -> "GREATER"]

\* What a backslash and c stand for; the same letter means the same character
\* in both kinds of literal, but each kind has escapes the other rejects.
Escape == [c \in {"n", "t", "r", "b", "0", "\\", "'", "\""} |->
  CASE c = "n" -> "\n" [] c = "t" -> "\t" [] c = "r" -> "\r" [] c = "b" -> "backspace"
    [] c = "0" -> NUL [] OTHER -> c]
CharEscapes == DOMAIN Escape \ {"\""}
StringEscapes == DOMAIN Escape

\* isalpha and isdigit have nothing in common with each other and with the
\* characters that the lexer looks for itself; the terminator ends a text.
ASSUME ClassesAssumption ==
  /\ Letters \cap Digit = {} /\ Digit \cap {"e", "E"} = {}
  /\ (Letters \cup Digit) \cap
       (Blanks \cup {"/", "'", "\"", "_"} \cup DOMAIN Punctuation \cup DOMAIN Pair) = {}
ASSUME TerminatorAssumption == \A t \in Texts : NUL \notin Range(t)
-----------------------------------------------------------------------------
Init ==
  /\ text \in Texts
  /\ at = 1 /\ line = 1 /\ tokens = <<>> /\ status = "reading"

Reading == status = "reading"
Skip(to, lines) == at' = to /\ line' = line + lines /\ UNCHANGED <<text, tokens, status>>
Fail == status' = "error" /\ UNCHANGED <<text, at, line, tokens>>
AddToken(type, value, to, lines) ==
  /\ tokens' = Append(tokens, [type |-> type, value |-> value, line |-> line + lines, from |-> at, to |-> to])
  /\ at' = to /\ line' = line + lines
  /\ UNCHANGED <<text, status>>

\* Mistake: the pointer is not advanced.
BadBlank == Reading /\ Char(at) \in Blanks /\ Skip(at, 0)

Blank == Reading /\ Char(at) \in Blanks /\ Skip(at + 1, 0)

\* Mistake: the line feed behind a carriage return is a line of its own.
BadLineBreak == Reading /\ Char(at) \in Breaks /\ Skip(at + 1, 1)

\* A carriage return takes the line feed behind it along.
LineBreak ==
  /\ Reading /\ Char(at) \in Breaks
  /\ Skip(IF Char(at) = "\r" /\ Char(at + 1) = "\n" THEN at + 2 ELSE at + 1, 1)

End ==
  /\ Reading /\ Char(at) = NUL
  /\ tokens' = Append(tokens, [type |-> "END", value |-> NUL, line |-> line, from |-> at, to |-> at])
  /\ status' = "done"
  /\ UNCHANGED <<text, at, line>>

Punctuate ==
  /\ Reading /\ Char(at) \in DOMAIN Punctuation
  /\ AddToken(Punctuation[Char(at)], NUL, at + 1, 0)

\* Mistake: the longer operator is not tried.
BadOperator ==
  /\ Reading /\ Char(at) \in DOMAIN Pair
  /\ IF Char(at) \in DOMAIN Alone THEN AddToken(Alone[Char(at)], NUL, at + 1, 0) ELSE Fail

Operator ==
  /\ Reading /\ Char(at) \in DOMAIN Pair
  /\ \/ Char(at + 1) = Pair[Char(at)].next /\ AddToken(Pair[Char(at)].type, NUL, at + 2, 0)
     \/ /\ Char(at + 1) # Pair[Char(at)].next
        /\ IF Char(at) \in DOMAIN Alone THEN AddToken(Alone[Char(at)], NUL, at + 1, 0) ELSE Fail

\* The line breaks a block comment counts from i up to j.
BreaksBetween(i, j) == Cardinality({k \in i..(j - 1) :
  Char(k) = "\n" \/ (Char(k) = "\r" /\ Char(k + 1) # "\n")})
Closings(i) == {j \in i..Len(text) : Char(j) = "*" /\ Char(j + 1) = "/"}

CommentOrDiv ==
  /\ Reading /\ Char(at) = "/"
  /\ \/ Char(at + 1) = "/" /\ Skip(CHOOSE j \in (at + 2)..(Len(text) + 1) :
          /\ Char(j) \in Breaks \cup {NUL}
          /\ \A k \in (at + 2)..(j - 1) : Char(k) \notin Breaks, 0)
     \/ /\ Char(at + 1) = "*"
        /\ IF Closings(at + 2) = {} THEN Fail
           ELSE LET close == Min(Closings(at + 2)) IN Skip(close + 2, BreaksBetween(at + 2, close))
     \/ Char(at + 1) \notin {"/", "*"} /\ AddToken("DIV", NUL, at + 1, 0)

CharLiteral ==
  /\ Reading /\ Char(at) = "'"
  /\ LET escaped == Char(at + 1) = "\\"
         c == IF escaped THEN Char(at + 2) ELSE Char(at + 1)
         quote == IF escaped THEN at + 3 ELSE at + 2
         wrong == IF escaped THEN c \notin CharEscapes ELSE c \in {NUL, "'"}
     IN IF wrong \/ Char(quote) # "'" THEN Fail
        ELSE AddToken("CHAR", IF escaped THEN Escape[c] ELSE c, quote + 1, 0)

\* In a literal whose text begins at i, the character at j follows a
\* backslash that is not itself escaped.
Escaped(i, j) == \E k \in i..(j - 1) :
  /\ \A m \in k..(j - 1) : Char(m) = "\\"
  /\ k = i \/ Char(k - 1) # "\\"
  /\ (j - k) % 2 = 1
Quotes(i) == {j \in i..Len(text) : Char(j) = "\"" /\ ~Escaped(i, j)}

\* The characters a string literal denotes, up to the first \0: what its
\* text is as a C string.
StringText(i, close) ==
  LET places == SelectSeq([k \in 1..(close - i) |-> i + k - 1], LAMBDA j : Char(j) # "\\" \/ Escaped(i, j))
      all == [k \in DOMAIN places |-> IF Escaped(i, places[k]) THEN Escape[Char(places[k])] ELSE Char(places[k])]
  IN SubSeq(all, 1, Min({k \in DOMAIN all : all[k] = NUL} \cup {Len(all) + 1}) - 1)

\* Mistake: a missing quote is not reported, and then skipped all the same.
BadStringLiteral ==
  /\ Reading /\ Char(at) = "\""
  /\ LET close == Min(Quotes(at + 1) \cup {Len(text) + 1})
     IN IF \E j \in (at + 1)..(close - 1) : Escaped(at + 1, j) /\ Char(j) \notin StringEscapes THEN Fail
        ELSE AddToken("STRING", StringText(at + 1, close), close + 1, 0)

StringLiteral ==
  /\ Reading /\ Char(at) = "\""
  /\ IF Quotes(at + 1) = {} THEN Fail
     ELSE LET close == Min(Quotes(at + 1))
              inside == (at + 1)..(close - 1)
          IN IF \E j \in inside : Escaped(at + 1, j) /\ Char(j) \notin StringEscapes THEN Fail
             ELSE AddToken("STRING", StringText(at + 1, close), close + 1,
                           Cardinality({j \in inside : Char(j) = "\n"}))

Word ==
  /\ Reading /\ Char(at) \in Letters \cup {"_"}
  /\ LET to == After(at + 1, WordChars)
         word == SubSeq(text, at, to - 1)
     IN AddToken(KeywordOf(word), IF KeywordOf(word) = "ID" THEN word ELSE NUL, to, 0)

\* strtol, and the cast of its result to int.
Decimal(s) ==
  LET value[n \in 0..Len(s)] == IF n = 0 THEN 0 ELSE 10 * value[n - 1] + Digits[s[n]]
  IN value[Len(s)]
\* Mistake: strtol's saturation is taken over to int.
BadToInt(v) == IF 2 * v < IntModulus THEN v ELSE IntModulus \div 2 - 1
ToInt(v) == LET m == v % IntModulus IN IF 2 * m < IntModulus THEN m ELSE m - IntModulus

Number ==
  /\ Reading /\ Char(at) \in Digit
  /\ LET whole == After(at, Digit)
         point == Char(whole) = "."
         fraction == IF point THEN After(whole + 1, Digit) ELSE whole
         exp == Char(fraction) \in {"e", "E"}
         sign == IF Char(fraction + 1) \in {"+", "-"} THEN fraction + 2 ELSE fraction + 1
         to == IF exp THEN After(sign, Digit) ELSE fraction
         literal == SubSeq(text, at, to - 1)
     IN IF \/ point /\ Char(whole + 1) \notin Digit
           \/ exp /\ Char(sign) \notin Digit
        THEN Fail
        ELSE IF point \/ exp
             THEN IF literal \in HugeDoubles THEN Fail ELSE AddToken("DOUBLE", literal, to, 0)
             ELSE IF Decimal(literal) > LongMax THEN Fail
                  ELSE AddToken("INT", ToInt(Decimal(literal)), to, 0)

InvalidChar ==
  /\ Reading
  /\ Char(at) \notin Blanks \cup Breaks \cup {NUL, "/", "'", "\"", "_"} \cup Letters \cup Digit
                     \cup DOMAIN Punctuation \cup DOMAIN Pair
  /\ Fail

Next == \/ Blank \/ LineBreak \/ End \/ Punctuate \/ Operator \/ CommentOrDiv
        \/ CharLiteral \/ StringLiteral \/ Word \/ Number \/ InvalidChar

Spec == Init /\ [][Next]_vars /\ WF_vars(Next)
-----------------------------------------------------------------------------
(* The pointer stays inside the text and its terminator however a literal,  *)
(* comment or escape is cut off by the end of the file (no function of      *)
(* lexer.c reads past the NUL), lines are counted up from 1, and tokens lie *)
(* one behind the other.                                                    *)
TypeOK ==
  /\ at \in 1..(Len(text) + 1)
  /\ line \in Nat \ {0}
  /\ status \in {"reading", "done", "error"}
  /\ \A k \in DOMAIN tokens :
       /\ 1 <= tokens[k].from /\ tokens[k].from <= tokens[k].to /\ tokens[k].to <= at
       /\ tokens[k].line \in 1..line
       /\ k > 1 => tokens[k - 1].to <= tokens[k].from /\ tokens[k - 1].line <= tokens[k].line

Slice(i, j) == SubSeq(text, i, j - 1)
\* A line ends at a line feed or at a carriage return without one behind it.
LineOf(i) == 1 + BreaksBetween(1, i)
\* Nothing in the token's text is a break that its literal does not count.
Plain(type, from, to) ==
  /\ type \in {"CHAR", "STRING"} => \A k \in from..(to - 1) : Char(k) # "\r"
  /\ type = "CHAR" => \A k \in from..(to - 1) : Char(k) # "\n"
Countable == \A k \in DOMAIN tokens : Plain(tokens[k].type, tokens[k].from, tokens[k].to)

\* Each token carries the line of the file it ends on (token.h: "the line from
\* the input file"), however lines end and whatever lies before it: blanks,
\* comments and multi-line strings count line breaks each in their own way.
\* Literals with a carriage return and character literals with a line feed are
\* left out: those breaks the lexer does not count.
LinesCounted ==
  Countable => \A k \in DOMAIN tokens : tokens[k].line = LineOf(tokens[k].to)

\* Literals an int can hold keep their value and longer ones are rejected or
\* lose just their high-order bits (the cast of strtol's long, lexer.c:275):
\* the value of an INT token is never saturated or negated.
IntegersCongruent == \A k \in DOMAIN tokens : tokens[k].type = "INT" =>
  LET v == Decimal(Slice(tokens[k].from, tokens[k].to)) IN
  /\ (v - tokens[k].value) % IntModulus = 0
  /\ 2 * v < IntModulus => tokens[k].value = v
=============================================================================
