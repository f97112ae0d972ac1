------------------------------ MODULE MCCompiler ------------------------------
(***************************************************************************)
(* Sources for the compiler: what comes before, between and after the      *)
(* holes, and the tokens to fill them with.                                *)
(***************************************************************************)
EXTENDS Bytecode, Sources

(* Expressions of ints and doubles, in every place that converts them:     *)
(* an initializer, an assignment, an argument, a condition, a result.      *)
ExpressionHole == "...+"
ExpressionTemplates ==
  LET head == <<"double", "x", ";", "int", "f", "(", "int", "a", ",", "double", "b", ")", "{">>
      tail == <<"return", "a", ";", "}", "END">>
  IN  { head \o <<"double", "c", "=", ExpressionHole, "+", "a", "*", ExpressionHole, ";">> \o tail,
        head \o <<"x", "=", ExpressionHole, ";">> \o tail,
        head \o <<"f", "(", "x", "<", "b", ",", ExpressionHole, ")", ";">> \o tail,
        head \o <<"if", "(", ExpressionHole, ")", ";">> \o tail,
        head \o <<"return", ExpressionHole, ";", "}", "END">> }
ExpressionVocabulary == {"a", "b", "x", "f", "1", "1.5", "+", "*", "<", "(", ")", "int", "double", ","}

(* Statements and declarations in nested blocks, of ints: of one function, *)
(* in the branches of another, and below a variable of the function, with  *)
(* a block before or around the next declaration.                          *)
StatementTemplates ==
  { <<"int", "f", "(", "int", "a", ")", "{", Hole, "return", "a", ";", "}">> \o VoidMain(<<Hole>>),
    <<"int", "f", "(", "int", "a", ")", "{",
        "if", "(", "a", ")", "{", Hole, "}", "else", "while", "(", Hole, "}", "END">>,
    <<"int", "f", "(", "int", "a", ")", "{", "int", "b", ";",
        "{", "int", "x", ";", Hole, "{", Hole, "}", "}", Hole, "return", "b", ";", "}", "END">> }
StatementVocabulary == {"int", "a", "x", "=", "<", "1", ";", "{", "}", "(", ")", "if", "else", "while", "return"}

(* Declarations at the global level and in a struct.                       *)
DeclarationHole == "...;"
DeclarationTemplates ==
  { <<"struct", "s", "{", "char", "x", ";", DeclarationHole, "}", ";", DeclarationHole, "END">>,
    <<"struct", "p", "{", "double", "x", ";", "char", "y", ";", "}", ";", "struct", DeclarationHole, "END">>,
    <<"int", DeclarationHole, "END">>,
    <<"int", "f", "(", "int", "x", ")", ";", "int", "f", DeclarationHole, "END">>,
    <<"void", "f", DeclarationHole, "END">>,
    <<"struct", "s", "{", "int", "x", "[", "2", "]", ";", "}", ";", "struct", "s", "y", "[", "2", "]", ";",
      "int", "f", "=", "-", "y", DeclarationHole, ";", "END">> }
DeclarationVocabulary ==
  {"struct", "s", "p", "x", "y", "f", "int", "double", "char", "void", "{", "}", "[", "]", "2", "(", ")", ",", ";", "."}

(* What the comments of the code promise, where it does not hold.          *)
FunctionOf(tokens) == <<"double", "x", ";", "int", "f", "(", "int", "a", ")", "{">> \o tokens
                  \o <<"return", "a", ";", "}", "END">>
MCAssignedTemplates == {FunctionOf(<<"put_double", "(", "x", "=", Hole, ")", ";">>)}
AssignedVocabulary == {"a", "x", "1", "1.5", "+"}
MCOperatorTemplates == {FunctionOf(<<Hole>>)}
OperatorVocabulary == {"a", "x", "1", "STRING", "<", ">", "=", "+", ";"}
MCForwardTemplates ==
  {<<"int", "f", "(", "int", "a", ")", Hole>> \o VoidMain(<<"put_int", "(", "f", "(", "1", ")", ")", ";">>),
   <<"int", "f", "(", "int", "a", ")", ";", "void", "g", "(", ")", "{", Hole, "}", 
     "int", "f", "(", "int", "a", ")", "{", "return", "a", ";", "}", "END">>}
ForwardVocabulary == {"f", "(", "a", "1", ")", "{", "}", ";", "return"}

\* (a constant's value in a configuration is evaluated once under a second name)
MCTemplates == ExpressionTemplates \cup StatementTemplates \cup DeclarationTemplates
MCFillers ==
  Holding(ExpressionHole, ExpressionVocabulary, 4) @@ Holding(Hole, StatementVocabulary, 5)
  @@ Holding(DeclarationHole, DeclarationVocabulary, 5)
AssignedFillers == Holding(Hole, AssignedVocabulary, 5)
OperatorFillers == Holding(Hole, OperatorVocabulary, 5)
ForwardFillers == Holding(Hole, ForwardVocabulary, 5)
=============================================================================
