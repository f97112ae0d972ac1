--------------------------------- MODULE Trex ---------------------------------
(***************************************************************************)
(* The regular expressions of arg_rex.c: a pattern is read into a tree of  *)
(* nodes, and a text is matched against the tree without going back.       *)
(*                                                                         *)
(* A chain is the sequence of nodes that "next" links; a pointer to a node *)
(* is the rest of its chain from there.  Nothing uses the captured groups. *)
(* Patterns are not empty and do not end in a lone backslash.              *)
(***************************************************************************)
EXTENDS Integers, Sequences, SequencesExt

CONSTANT Many        \* 0xFFFF, the count that has no limit

\* The characters, in the order of their codes.
Nul == "\\0"
Controls == <<Nul, "\t", "\n", "\\v", "\f", "\r">>
Ordered ==
  Controls \o <<" ", "!", "$", "(", ")", "*", "+", ",", "-", ".", "0", "1", "2", "9", ":", "?">>
  \o <<"A", "B", "X", "[", "\\", "]", "^", "_", "a", "b", "x", "{", "|", "}">>
Codes == [c \in Range(Ordered) |-> CHOOSE n \in DOMAIN Ordered : Ordered[n] = c]

Capital == [a |-> "A", b |-> "B", x |-> "X"]
Lower(c) == IF c \in Range(Capital) THEN CHOOSE l \in DOMAIN Capital : Capital[l] = c ELSE c
Upper(c) == IF c \in DOMAIN Capital THEN Capital[c] ELSE c
Digits == {"0", "1", "2", "9"}
Letters == DOMAIN Capital \cup Range(Capital)
Spaces == {" ", "\t", "\n", "\\v", "\f", "\r"}
Printable(c) == c \notin Range(Controls)
-----------------------------------------------------------------------------
\* The parser.  What was read, and where it goes on: 0 after an error.
Read(node, at) == [node |-> node, at |-> at]
Failed == Read(<<>>, 0)
Then(r, F(_, _)) == IF r.at = 0 THEN r ELSE F(r.node, r.at)
Char(p, i) == IF i \in DOMAIN p THEN p[i] ELSE Nul
Expect(p, r, c) == IF r.at # 0 /\ Char(p, r.at) = c THEN Read(r.node, r.at + 1) ELSE Failed

Escapes == [n |-> "\n", t |-> "\t", r |-> "\r", f |-> "\f", v |-> "\\v"]
ClassIds == {"a", "A", "w", "W", "s", "S", "d", "D", "x", "X", "c", "C", "p", "P", "l", "u"}

EscapeChar(p, i) ==
  LET c == Char(p, i + 1) IN
  CASE Char(p, i) = "\\" -> Read(IF c \in DOMAIN Escapes THEN Escapes[c] ELSE c, i + 2)
    [] Char(p, i) # "\\" /\ ~Printable(Char(p, i)) -> Failed
    [] OTHER -> Read(Char(p, i), i + 1)

Node(op, arg) == [op |-> op, arg |-> arg]
CharNode(p, i, isclass) ==
  LET c == Char(p, i + 1)
      class == Char(p, i) = "\\" /\ c \in ClassIds
      boundary == Char(p, i) = "\\" /\ c \in {"b", "B"} /\ ~isclass
  IN CASE class -> Read(Node("cclass", c), i + 2)
       [] boundary -> Read(Node("wb", c), i + 2)
       [] OTHER -> Then(EscapeChar(p, i), LAMBDA t, at : Read(Node("char", t), at))

\* trex_class behind the bracket and the ^: a character waits in first until it
\* is known not to begin a range.  That a range is in order is not tested: the
\* test compares the index of a node.
RECURSIVE ClassItems(_, _, _, _)
ClassItems(p, i, first, items) ==
  CASE Char(p, i) = "]" -> Read(items \o first, i)
    [] Char(p, i) = "-" /\ first # <<>> ->
         IF first[1].op = "cclass" THEN Failed
         ELSE Then(EscapeChar(p, i + 1), LAMBDA right, at :
                ClassItems(p, at, <<>>, Append(items, Node("range", <<first[1].arg, right>>))))
    [] OTHER -> Then(CharNode(p, i, TRUE), LAMBDA node, at : ClassItems(p, at, <<node>>, items \o first))

Class(p, i) ==
  LET negated == Char(p, i) = "^"
      start == IF negated THEN i + 1 ELSE i
  IN IF Char(p, start) = "]" THEN Failed
     ELSE Then(ClassItems(p, start, <<>>, <<>>), LAMBDA items, at :
            Read(Node(IF negated THEN "nclass" ELSE "class", items), at))

\* A number of at most nine digits, cut off to an unsigned short.
Value == [c \in Digits |-> CASE c = "0" -> 0 [] c = "1" -> 1 [] c = "2" -> 2 [] OTHER -> 9]
ParseNumber(p, i) ==
  LET ends == {j \in i..Len(p) : \A k \in i..j : p[k] \in Digits}
      n == FoldLeft(LAMBDA v, c : 10 * v + Value[c], 0, SubSeq(p, i, i + Cardinality(ends) - 1))
  IN IF Cardinality(ends) \in 1..9 THEN Read(n % (Many + 1), i + Cardinality(ends)) ELSE Failed

\* {n}, {n,} or {n,m} behind the brace, as a pair.
Braces(p, i) ==
  Then(ParseNumber(p, i), LAMBDA least, at :
    CASE Char(p, at) = "}" -> Read(<<least, least>>, at + 1)
      [] Char(p, at) = "," ->
           Expect(p, IF Char(p, at + 1) \in Digits
                     THEN Then(ParseNumber(p, at + 1), LAMBDA most, end : Read(<<least, most>>, end))
                     ELSE Read(<<least, Many>>, at + 1), "}")
      [] OTHER -> Failed)

\* An atom and the count behind it.
Greedy(r, counts) == Then(counts, LAMBDA c, at : Read([op |-> "greedy", arg |-> <<r.node>>, p0 |-> c[1], p1 |-> c[2]], at))
Repeated(p, r) ==
  Then(r, LAMBDA node, at :
    CASE Char(p, at) = "*" -> Greedy(r, Read(<<0, Many>>, at + 1))
      [] Char(p, at) = "+" -> Greedy(r, Read(<<1, Many>>, at + 1))
      [] Char(p, at) = "?" -> Greedy(r, Read(<<0, 1>>, at + 1))
      [] Char(p, at) = "{" -> Greedy(r, Braces(p, at + 1))
      [] OTHER -> r)

RECURSIVE List(_, _)
Group(p, i) == Expect(p, Then(List(p, i), LAMBDA list, at : Read(Node("expr", list), at)), ")")
Atom(p, i) ==
  CASE Char(p, i) = "(" /\ Char(p, i + 1) # "?" -> Group(p, i + 1)
    [] Char(p, i) = "(" /\ Char(p, i + 1) = "?" -> IF Char(p, i + 2) = ":" THEN Group(p, i + 3) ELSE Failed
    [] Char(p, i) = "[" -> Expect(p, Class(p, i + 1), "]")
    [] Char(p, i) = "$" -> Read(Node("eol", ""), i + 1)
    [] Char(p, i) = "." -> Read(Node("dot", ""), i + 1)
    [] OTHER -> CharNode(p, i, FALSE)

RECURSIVE Element(_, _)
Element(p, i) ==
  Then(Repeated(p, Atom(p, i)), LAMBDA node, at :
    IF Char(p, at) \in {"|", ")", "*", "+", Nul} THEN Read(<<node>>, at)
    ELSE Then(Element(p, at), LAMBDA more, end : Read(<<node>> \o more, end)))

List(p, i) ==
  LET bol == IF Char(p, i) = "^" THEN <<Node("bol", "")>> ELSE <<>> IN
  Then(Element(p, i + Len(bol)), LAMBDA chain, at :
    IF Char(p, at) # "|" THEN Read(bol \o chain, at)
    ELSE Then(List(p, at + 1), LAMBDA right, end : Read(<<Node("or", <<bol \o chain, right>>)>>, end)))

\* trex_compile: the chain under the outermost group, or none for a pattern
\* that is not understood to its end.
NoProgram == <<>>
Compile(p) == LET r == List(p, 1) IN IF r.at = Len(p) + 1 THEN r.node ELSE NoProgram
-----------------------------------------------------------------------------
\* The matcher.  x holds the text, what the memory behind it is read as, and
\* whether case is ignored.  A result is a place in the text, or 0 for none;
\* a dot and a negated class also step over the end of the text.
Eol(x) == Len(x.text) + 1
CharAt(x, s) ==
  CASE s < Eol(x) -> x.text[s]
    [] s = Eol(x) -> Nul
    [] OTHER -> x.beyond

MatchCClass(id, c) ==
  CASE id = "a" -> c \in Letters
    [] id = "A" -> c \notin Letters
    [] id = "w" -> c \in Letters \cup Digits \cup {"_"}
    [] id = "W" -> c \notin Letters \cup Digits \cup {"_"}
    [] id = "s" -> c \in Spaces
    [] id = "S" -> c \notin Spaces
    [] id = "d" -> c \in Digits
    [] id = "D" -> c \notin Digits
    [] id = "x" -> c \in Digits \cup {"a", "b", "A", "B"}
    [] id = "X" -> c \notin Digits \cup {"a", "b", "A", "B"}
    [] id = "c" -> ~Printable(c)
    [] id = "C" -> Printable(c)
    [] id = "p" -> Printable(c) /\ c \notin Letters \cup Digits \cup {" "}
    [] id = "P" -> ~Printable(c) \/ c \in Letters \cup Digits \cup {" "}
    [] id = "l" -> c \in DOMAIN Capital
    [] id = "u" -> c \in Range(Capital)

SameChar(x, c, d) == IF x.icase THEN c \in {Lower(d), Upper(d)} ELSE c = d
Within(c, left, right) == Codes[c] \in Codes[left]..Codes[right]
MatchItem(x, item, c) ==
  CASE item.op = "range" /\ x.icase ->
         \/ Within(c, Upper(item.arg[1]), Upper(item.arg[2]))
         \/ Within(c, Lower(item.arg[1]), Lower(item.arg[2]))
    [] item.op = "range" /\ ~x.icase -> Within(c, item.arg[1], item.arg[2])
    [] item.op = "cclass" -> MatchCClass(item.arg, c)
    [] OTHER -> SameChar(x, c, item.arg)
MatchClass(x, items, c) == \E k \in DOMAIN items : MatchItem(x, items[k], c)

Boundary(x, s) ==
  LET space(i) == CharAt(x, i) \in Spaces IN
  \/ s = 1 /\ ~space(s)
  \/ s = Eol(x) /\ ~space(s - 1)
  \/ space(s) # space(s + 1)

\* Nodes that match one character or none.
Step(condition, s) == IF condition THEN s + 1 ELSE 0
Stay(condition, s) == IF condition THEN s ELSE 0
MatchSimple(x, node, s) ==
  LET c == CharAt(x, s) IN
  CASE node.op = "char" -> Step(SameChar(x, c, node.arg), s)
    [] node.op = "dot" -> Step(TRUE, s)
    [] node.op = "cclass" -> Step(MatchCClass(node.arg, c), s)
    [] node.op = "class" -> Step(MatchClass(x, node.arg, c), s)
    [] node.op = "nclass" -> Step(~MatchClass(x, node.arg, c), s)
    [] node.op = "bol" -> Stay(s = 1, s)
    [] node.op = "eol" -> Stay(s = Eol(x), s)
    [] OTHER -> Stay(Boundary(x, s) = (node.arg = "b"), s)

\* The chain behind the first node of a chain, or else the one after it.
Behind(chain, next) == IF Len(chain) > 1 THEN Tail(chain) ELSE next

\* Does it matter whether what comes next matches?  Not if that may match
\* nothing.
\* Mistake: it always does.
BadDecisive(stop) == stop # <<>>
Decisive(stop) == stop # <<>> /\ (stop[1].op = "greedy" => stop[1].p0 # 0)

\* Mistake: a count is allowed as soon as it is not too high.
BadEnough(node, n) == n <= node.p1
Enough(node, n) == n >= node.p0 /\ (n <= node.p1 \/ node.p1 = Many)

RECURSIVE MatchNode(_, _, _, _)

\* The parts of a group, each with what comes after it.
RECURSIVE MatchChain(_, _, _, _)
MatchChain(x, chain, s, next) ==
  LET r == MatchNode(x, chain, s, Behind(chain, next)) IN
  IF r = 0 \/ Len(chain) = 1 THEN r ELSE MatchChain(x, Tail(chain), r, next)

\* The parts of an alternative: nothing is known to come after them.
RECURSIVE MatchBranch(_, _, _)
MatchBranch(x, chain, s) ==
  LET r == MatchNode(x, chain, s, <<>>) IN
  IF r = 0 \/ Len(chain) = 1 THEN r ELSE MatchBranch(x, Tail(chain), r)

\* The loop of OP_GREEDY after n matches: it ends when what comes next matches
\* as well.
RECURSIVE MatchMore(_, _, _, _, _)
MatchMore(x, chain, s, next, n) ==
  LET node == chain[1]
      stop == Behind(chain, next)
      r == IF n = Many \/ n < node.p1 THEN MatchNode(x, node.arg, s, stop) ELSE 0
      done(m, at) == IF Enough(node, m) THEN at ELSE 0
      after == Behind(stop, IF Len(next) > 1 THEN Tail(next) ELSE <<>>)
  IN CASE r = 0 -> done(n, s)
       [] r # 0 /\ (r >= Eol(x) \/ (Decisive(stop) /\ Enough(node, n + 1) /\ MatchNode(x, stop, r, after) # 0)) -> done(n + 1, r)
       [] OTHER -> MatchMore(x, chain, r, next, n + 1)

MatchNode(x, chain, s, next) ==
  LET node == chain[1] IN
  CASE node.op = "greedy" -> MatchMore(x, chain, s, next, 0)
    [] node.op = "or" ->
         LET left == MatchBranch(x, node.arg[1], s) IN IF left # 0 THEN left ELSE MatchBranch(x, node.arg[2], s)
    [] node.op = "expr" -> MatchChain(x, node.arg, s, next)
    [] OTHER -> MatchSimple(x, node, s)

\* trex_match: all of the text, from its beginning.
Match(x, program) == MatchChain(x, program, 1, <<>>) = Eol(x)
=============================================================================
