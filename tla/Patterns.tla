------------------------------- MODULE Patterns -------------------------------
(***************************************************************************)
(* What patterns mean: an expression is a set of alternatives, each a      *)
(* sequence of parts, and it denotes the pairs of places between which it  *)
(* matches a text.  Trex reads the expression as it is written and ought   *)
(* to find no other matches.                                               *)
(***************************************************************************)
EXTENDS Trex

\* A part: an atom with the least and the most times it occurs, and how that
\* is written.  An atom is a set of characters, a group, or a place.
Times == {[least |-> 1, most |-> 1, text |-> <<>>], [least |-> 0, most |-> Many, text |-> <<"*">>],
          [least |-> 1, most |-> Many, text |-> <<"+">>], [least |-> 0, most |-> 1, text |-> <<"?">>],
          [least |-> 2, most |-> 2, text |-> <<"{", "2", "}">>], [least |-> 2, most |-> Many, text |-> <<"{", "2", ",", "}">>],
          [least |-> 1, most |-> 2, text |-> <<"{", "1", ",", "2", "}">>]}
Once == [least |-> 1, most |-> 1, text |-> <<>>]
Chars(set, text) == [kind |-> "chars", chars |-> set, text |-> text]
GroupOf(choices, text) == [kind |-> "group", choices |-> choices, text |-> text]
Place(kind, text) == [kind |-> kind, text |-> text]
Part(atom, times) == [atom |-> atom, times |-> times]

\* How an expression is written.
RECURSIVE WrittenChoices(_)
WrittenAtom(atom) ==
  IF atom.kind = "group" THEN atom.text \o WrittenChoices(atom.choices) \o <<")">> ELSE atom.text
WrittenParts(parts) == FlattenSeq([k \in DOMAIN parts |-> WrittenAtom(parts[k].atom) \o parts[k].times.text])
WrittenChoices(choices) ==
  IF Len(choices) = 1 THEN WrittenParts(choices[1])
  ELSE WrittenParts(choices[1]) \o <<"|">> \o WrittenChoices(Tail(choices))
-----------------------------------------------------------------------------
\* The pairs of places, for a text.
Places(text) == 1..(Len(text) + 1)
Same(text) == {<<i, i>> : i \in Places(text)}
Joined(r, s) == {<<p[1], q[2]>> : <<p, q>> \in {pq \in r \X s : pq[1][2] = pq[2][1]}}
Powers(text, r, most) == FoldLeft(LAMBDA acc, k : Append(acc, Joined(Last(acc), r)), <<Same(text)>>, [k \in 1..most |-> k])

RECURSIVE Spans(_, _)
SpansAtom(text, atom) ==
  CASE atom.kind = "chars" -> {<<i, i + 1>> : i \in {i \in DOMAIN text : text[i] \in atom.chars}}
    [] atom.kind = "group" -> Spans(text, atom.choices)
    [] atom.kind = "begin" -> {<<1, 1>>}
    [] atom.kind = "end" -> {<<Len(text) + 1, Len(text) + 1>>}
    [] OTHER -> Same(text)
SpansPart(text, part) ==
  LET most == IF part.times.most = Many THEN Len(text) + part.times.least ELSE part.times.most
      powers == Powers(text, SpansAtom(text, part.atom), most)
  IN UNION {powers[n + 1] : n \in part.times.least..most}
SpansParts(text, parts) == FoldLeft(LAMBDA r, part : Joined(r, SpansPart(text, part)), Same(text), parts)
Spans(text, choices) == UNION {SpansParts(text, choices[k]) : k \in DOMAIN choices}
Denotes(choices, text) == <<1, Len(text) + 1>> \in Spans(text, choices)
-----------------------------------------------------------------------------
Reading(text, beyond, icase) == [text |-> text, beyond |-> beyond, icase |-> icase]
Accepted(program, text) == {beyond \in {Nul, "a", "b"} : Match(Reading(text, beyond, FALSE), program)}

\* No text is accepted that the expression does not denote, whatever is in the
\* memory behind the text that a dot or a negated class steps into.
Sound(choices, texts) ==
  LET program == Compile(WrittenChoices(choices)) IN
  \A text \in texts : Accepted(program, text) # {} => Denotes(choices, text)

\* The parts of a plain expression are sets of characters that are disjoint, so
\* there is no need to go back, and the end of a text is in none of them.
Plain(choices) ==
  /\ Len(choices) = 1
  /\ \A k \in DOMAIN choices[1] : choices[1][k].atom.kind = "chars" /\ Nul \notin choices[1][k].atom.chars
  /\ \A k, l \in DOMAIN choices[1] : k # l => choices[1][k].atom.chars \cap choices[1][l].atom.chars = {}

\* Such an expression is matched by the texts it denotes.
Complete(choices, texts) ==
  LET program == Compile(WrittenChoices(choices)) IN
  Plain(choices) => \A text \in texts : Denotes(choices, text) => Accepted(program, text) = {Nul, "a", "b"}

\* Case makes no difference for anything when it is ignored.
Folded(text) == [i \in DOMAIN text |-> Lower(text[i])]
CaseIgnored(choices, texts) ==
  LET program == Compile(WrittenChoices(choices)) IN
  \A text \in texts : Match(Reading(text, Nul, TRUE), program) <=> Match(Reading(Folded(text), Nul, TRUE), program)
=============================================================================
