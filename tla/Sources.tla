------------------------------- MODULE Sources -------------------------------
(***************************************************************************)
(* What the sources to compile have in common: their names, their          *)
(* literals, and a main function.                                          *)
(***************************************************************************)
EXTENDS Sequences, Integers

MCNames == {"put_int", "put_double", "main", "a", "b", "c", "f", "g", "p", "s", "x", "y"}

MCLiterals ==
  [t \in {"0", "1", "2", "1.5", "'c'"} |->
     CASE t = "0" -> [base |-> "int", value |-> 0]
       [] t = "1" -> [base |-> "int", value |-> 1]
       [] t = "2" -> [base |-> "int", value |-> 2]
       [] t = "1.5" -> [base |-> "double", value |-> 3]
       [] t = "'c'" -> [base |-> "char", value |-> 99]]

MCUnsetDimensions == {-1, 0}

\* The hole of a template, and what it may be filled with.
Hole == "..."
Holding(hole, tokens, most) == [h \in {hole} |-> [tokens |-> tokens, most |-> most]]

VoidMain(body) == <<"void", "main", "(", ")", "{">> \o body \o <<"}", "END">>
=============================================================================
