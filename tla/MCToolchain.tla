------------------------------ MODULE MCToolchain ------------------------------
(***************************************************************************)
(* Sources to compile and run.                                             *)
(***************************************************************************)
EXTENDS Toolchain, Sources

NoDimension == {-1}   \* what an unset `dim` holds in these runs
MCMinInt == -4
MCMaxInt == 3
MCAnyDouble == {-1, 0, 3}

(* A function with a loop and a branch, called from main: conversions in   *)
(* initializers, assignments, conditions, arguments and results.  The      *)
(* second may recurse without locals, the third with two, to an end or     *)
(* until the array is full or passed.                                      *)
DeepHole == "...f"
RunTemplates ==
  { <<"double", "x", ";", "int", "g", ";",
      "int", "f", "(", "double", "b", ",", "int", "a", ")", "{",
        "double", "c", "=", Hole, ";",
        "while", "(", "a", "<", Hole, ")", "{", "int", "y", "=", "a", ";", "a", "=", "y", "+", "1", ";", Hole, "}",
        "x", "=", "c", ";",
        "return", Hole, ";", "}">>
     \o VoidMain(<<"x", "=", "1.5", ";", "g", "=", "x", ";", "put_int", "(", "f", "(", "1", ",", "g", ")", ")", ";">>),
    <<"double", "f", "(", "double", "a", ")", "{", "if", "(", Hole, ")", "{", Hole, "}", "else", "{", Hole, "}",
        "return", Hole, ";", "}">>
     \o VoidMain(<<"int", "x", "=", "f", "(", Hole, ")", ";", "put_double", "(", "x", ")", ";">>),
    <<"int", "f", "(", "int", "a", ")", "{", "int", "x", "=", "a", ";", "int", "c", "=", DeepHole, ";",
        "if", "(", "x", "<", DeepHole, ")", "return", DeepHole, "f", "(", "a", "+", "1", ")", ";",
        "return", "c", ";", "}">>
     \o VoidMain(<<"put_int", "(", "f", "(", "0", ")", ")", ";">>) }
RunVocabulary ==
  {"a", "b", "c", "x", "f", "1", "1.5", "+", "*", "<", "(", ")", ",", "if", "else", "return", ";", "{", "}"}
DeepVocabulary == {"a", "c", "x", "1", "+", "/"}

MCRunTemplates == RunTemplates
RunFillers == Holding(Hole, RunVocabulary, 4) @@ Holding(DeepHole, DeepVocabulary, 4)
NoFillers == Holding(Hole, {}, 0)

(* What a program sees in a global variable it has not assigned to.        *)
MCGlobalTemplates == {<<"int", "g", ";">> \o VoidMain(<<"put_int", "(", "g", ")", ";">>)}
=============================================================================
