------------------------------- MODULE Compiler -------------------------------
(***************************************************************************)
(* The one-pass compiler: src/frontend/parser.c, which parses, resolves    *)
(* names, checks types and generates code as it reads the tokens, with the *)
(* symbol tables of src/analyzer/.                                         *)
(*                                                                         *)
(* The parser is a set of recursive functions.  Here todo is what their    *)
(* activations still have to do, the innermost first: each item is a       *)
(* record whose field do says what, the other fields being the C locals    *)
(* that the function needs later.  The seven levels of binary operators    *)
(* are one action to shift an operator and one to reduce it, by the level  *)
(* of the operator.  Backtracking in the code never undoes anything but    *)
(* the place in the token list: the model looks one token further instead. *)
(*                                                                         *)
(* Tokens are chosen as the parser reads them: each template is a program  *)
(* whose holes are filled with any of their Fillers.                       *)
(***************************************************************************)
EXTENDS CodeGenerator, FiniteSets

CONSTANTS
  Templates,       \* token sequences with holes, "END" last
  Fillers,         \* for each hole: the tokens to fill it with, and how many at most
  Names,           \* the tokens that are identifiers
  Literals,        \* literal tokens: [base, value] of each (doubles in halves)
  UnsetDimensions  \* what array_dimension may be where it is not initialized

Holes == DOMAIN Fillers

ASSUME TemplateAssumption ==
  \A t \in Templates : t \in Seq(STRING) /\ t # <<>> /\ t[1] \notin Holes /\ t[Len(t)] = "END"
ASSUME FillersAssumption == \A h \in Holes : Fillers[h].most \in Nat
ASSUME UnsetAssumption == UnsetDimensions \subseteq Int /\ UnsetDimensions # {}
ASSUME LiteralsAssumption ==
  \A l \in DOMAIN Literals : Literals[l].base \in Arithmetic /\ Literals[l].value \in Int
ASSUME NamesAssumption == {"put_int", "put_double"} \subseteq Names

VARIABLES
  tk,       \* the token at stream->tokens.iterator
  rest,     \* the template after it
  free,     \* how many tokens holes may still get
  todo,
  r,        \* the ReturnValue of the expression parsed last: [type, lval]
  domains,  \* the symbol table: sets of symbols, the global domain first
  owner,    \* ctx->owner: [kind, no], the function or struct being defined
  fns,      \* functions: [type, params, locals, declaration, extern, first]
  structs,  \* structs: sequences of members [name, type, offset]
  globals,  \* the type of each global variable
  code,     \* see CodeGenerator
  status    \* "parsing", "done", "error" or "undefined" (C behaviour)

input == <<tk, rest, free>>
table == <<domains, owner, fns, structs, globals>>
vars  == <<input, todo, r, table, code, status>>

-----------------------------------------------------------------------------
(* Symbols.  no is the number of a function, struct or global variable,    *)
(* var_index or param_index for the others; owner as above.                *)
Nobody == [kind |-> "none", no |-> 0]

Symbol(name, kind, type, own, no) ==
  [name |-> name, kind |-> kind, type |-> type, owner |-> own, no |-> no]

Innermost == domains[Len(domains)]

(* find_symbol, for a name that is Visible: the one of the innermost domain *)
Visible(name) == \E d \in DOMAIN domains : \E s \in domains[d] : s.name = name
FindSymbol(name) ==
  LET d == Max({e \in DOMAIN domains : \E s \in domains[e] : s.name = name})
  IN  CHOOSE s \in domains[d] : s.name = name

(* find_symbol_in_domain of the innermost domain                           *)
Declared(name) == \E s \in Innermost : s.name = name

AddSymbol(s) == [domains EXCEPT ![Len(domains)] = @ \cup {s}]
PushDomain(ds) == Append(ds, {})
\* Leaves the domain open.
BadDropDomain == domains
DropDomain == Front(domains)

PutInt    == 1
PutDouble == 2
Extern(t, no) ==
  [type |-> VoidT, params |-> <<t>>, locals |-> <<>>,
   declaration |-> FALSE, extern |-> no, first |-> NULL]

(* Every reference between symbols, types and instructions leads somewhere. *)
Types == [base : Arithmetic \cup {"void", "struct"}, sym : 0 .. Len(structs), dim : Int]
Owners == {Nobody} \cup [kind : {"fn"}, no : DOMAIN fns] \cup [kind : {"struct"}, no : DOMAIN structs]

TypeOK ==
  /\ status \in {"parsing", "done", "error", "undefined"}
  /\ free \in Nat
  /\ r \in [type : Types, lval : BOOLEAN]
  /\ owner \in Owners
  /\ domains # <<>>
  /\ \A d \in DOMAIN domains : \A s \in domains[d] :
       /\ s.name \in Names /\ s.type \in Types /\ s.owner \in Owners
       /\ s.kind = "fn" => s.no \in DOMAIN fns
       /\ s.kind = "struct" => s.type = StructT(s.no) /\ s.no \in DOMAIN structs
       /\ s.kind = "variable" /\ s.owner = Nobody => s.no \in DOMAIN globals
  /\ \A f \in DOMAIN fns :
       /\ fns[f].first \in 0 .. Len(code)
       /\ \A t \in Range(fns[f].params) \cup Range(fns[f].locals) : t \in Types
  /\ \A k \in DOMAIN structs : \A i \in DOMAIN structs[k] : structs[k][i].type.sym \in 0 .. k
  /\ \A i \in DOMAIN code :
       /\ code[i].next \in 0 .. Len(code)
       /\ code[i].op = "CALL" => code[i].arg \in 0 .. Len(code)
       /\ code[i].op \in {"JMP", "JF"} => code[i].arg \in {Unset} \cup DOMAIN code

-----------------------------------------------------------------------------
(* Reading tokens, and what is left to do.                                 *)
Item == todo[1]
Doing(what) == status = "parsing" /\ Item.do = what

(* consume: the next token is the template's, or one for its hole.         *)
Read ==
  LET skip == IF rest[1] \in Holes THEN 2 ELSE 1
  IN  \/ tk' = rest[skip] /\ rest' = SubSeq(rest, skip + 1, Len(rest)) /\ free' = free
      \/ /\ rest[1] \in Holes /\ free > 0
         /\ tk' \in Fillers[rest[1]].tokens /\ rest' = rest /\ free' = free - 1

Then(items) == todo' = items \o Tail(todo)
Accept(items) == Read /\ Then(items)              \* the token is consumed
GoOn(items) == UNCHANGED input /\ Then(items)     \* it is not

End(s) == status' = s /\ todo' = <<>> /\ UNCHANGED <<input, r, table, code>>
Fail == End("error")               \* token_stream_error
Need(condition, A) == IF condition THEN A ELSE Fail

ParserOnly == UNCHANGED <<r, table, code, status>>
SymbolsOnly == UNCHANGED <<r, code, status>>
CodeOnly == UNCHANGED <<r, table, status>>

(* current_function_code: code is generated in functions only.             *)
Generating == owner.kind = "fn"
Gen(c) == IF Generating THEN c ELSE code

Do(what) == [do |-> what]
ReadToken(t) == [do |-> "token", is |-> t]
ReadType(for) == [do |-> "type", for |-> for]

BaseOf == [int |-> "int", double |-> "double", float |-> "double", char |-> "char"]
TypeTokens == DOMAIN BaseOf \cup {"struct"}
ExprTokens == {"(", "-", "!", "STRING"} \cup Names \cup DOMAIN Literals
StmTokens  == {"{", "if", "while", "return", ";"} \cup ExprTokens

(* Initially the extern functions of vm_init are declared.                 *)
Init ==
  /\ \E t \in Templates :
       /\ tk = t[1] /\ rest = Tail(t)
       /\ free = Max({0} \cup {Fillers[h].most : h \in Holes \cap Range(t)})
  /\ todo = <<Do("unit")>>
  /\ r = [type |-> VoidT, lval |-> FALSE]
  /\ domains = << {Symbol("put_int", "fn", VoidT, Nobody, 1),
                   Symbol("put_double", "fn", VoidT, Nobody, 2)} >>
  /\ owner = Nobody
  /\ fns = <<Extern(IntT, PutInt), Extern(DoubleT, PutDouble)>>
  /\ structs = <<>> /\ globals = <<>> /\ code = <<>>
  /\ status = "parsing"

ExpectedToken ==
  /\ Doing("token")
  /\ Need(tk = Item.is, Accept(<<>>) /\ ParserOnly)

-----------------------------------------------------------------------------
(* Declarations.                                                           *)

(* unit: ( struct_def | fn_def | var_def )* END                            *)
Unit ==
  /\ Doing("unit")
  /\ IF tk = "END" THEN End("done")
     ELSE Need(tk \in TypeTokens \cup {"void"}, GoOn(<<ReadType("unit"), Item>>) /\ ParserOnly)

\* What follows a type: a name, or in a cast perhaps an array declaration.
Typed(for, t) ==
  IF for = "cast" THEN [do |-> "array", for |-> for, type |-> t, name |-> ""]
                  ELSE [do |-> "name", for |-> for, type |-> t]

(* type_base, and void for a function, whose array_dimension is not set.   *)
TypeBase ==
  /\ Doing("type")
  /\ \/ tk \in DOMAIN BaseOf /\ Accept(<<Typed(Item.for, Type(BaseOf[tk]))>>) /\ ParserOnly
     \/ tk = "struct" /\ Accept(<<[do |-> "structName", for |-> Item.for]>>) /\ ParserOnly
     \/ /\ tk = "void" /\ Item.for = "unit"
        /\ \E d \in UnsetDimensions : Accept(<<Typed("unit", [VoidT EXCEPT !.dim = d])>>)
        /\ ParserOnly
     \/ tk \notin TypeTokens /\ (tk = "void" => Item.for # "unit") /\ Fail

StructName ==
  /\ Doing("structName")
  /\ Need(tk \in Names,
          Accept(<<[do |-> "structTag", for |-> Item.for, name |-> tk]>>) /\ ParserOnly)

(* STRUCT ID is a type, or before LACC at the global level a definition.   *)
(* The symbol found need not be a struct: what its union then holds as     *)
(* members is not modelled.                                                *)
StructTag ==
  /\ Doing("structTag")
  /\ IF Item.for = "unit" /\ tk = "{"
     THEN Need(~ Declared(Item.name),
            LET k == Len(structs) + 1 IN
            /\ domains' = PushDomain(AddSymbol(Symbol(Item.name, "struct", StructT(k), Nobody, k)))
            /\ structs' = Append(structs, <<>>)
            /\ owner' = [kind |-> "struct", no |-> k]
            /\ Accept(<<Do("members")>>)
            /\ UNCHANGED <<fns, globals>> /\ SymbolsOnly)
     ELSE Need(Visible(Item.name) /\ (Item.for = "unit" => tk \in Names),
            IF FindSymbol(Item.name).kind = "struct"
            THEN GoOn(<<Typed(Item.for, FindSymbol(Item.name).type)>>) /\ ParserOnly
            ELSE End("undefined"))

(* The body of a struct definition.                                        *)
Members ==
  /\ Doing("members")
  /\ IF tk \in TypeTokens THEN GoOn(<<ReadType("variable"), Item>>) /\ ParserOnly
     ELSE Need(tk = "}", Accept(<<Do("endStruct")>>) /\ ParserOnly)

EndStruct ==
  /\ Doing("endStruct")
  /\ Need(tk = ";",
          /\ Accept(<<>>)
          /\ owner' = Nobody /\ domains' = DropDomain
          /\ UNCHANGED <<fns, structs, globals>> /\ SymbolsOnly)

Name ==
  /\ Doing("name")
  /\ Need(tk \in Names,
          /\ Accept(<<[do |-> IF Item.for = "unit" THEN "declaration" ELSE "array",
                       for |-> IF Item.for = "unit" THEN "variable" ELSE Item.for,
                       type |-> Item.type, name |-> tk]>>)
          /\ ParserOnly)

(* array_declaration.  The dimension of a parameter is forgotten.          *)
Array ==
  /\ Doing("array")
  /\ IF tk = "[" THEN Accept(<<[Item EXCEPT !.do = "dimension"]>>) /\ ParserOnly
     ELSE GoOn(<<[Item EXCEPT !.do = Item.for]>>) /\ ParserOnly

Dimension ==
  /\ Doing("dimension")
  /\ IF tk \in DOMAIN Literals /\ Literals[tk].base = "int"
     THEN Accept(<<[Item EXCEPT !.do = "endArray", !.type.dim = Literals[tk].value]>>)
     ELSE GoOn(<<[Item EXCEPT !.do = "endArray", !.type.dim = 0]>>)
  /\ ParserOnly

EndArray ==
  /\ Doing("endArray")
  /\ Need(tk = "]" /\ (Item.for = "variable" => Item.type.dim # 0),
          /\ Accept(<<[Item EXCEPT !.do = Item.for,
                                   !.type.dim = IF Item.for = "parameter" THEN 0 ELSE @]>>)
          /\ ParserOnly)

\* Where the next member of the struct being defined may start.
NextOffset ==
  LET members == structs[owner.no]
  IN  IF members = <<>> THEN 0
      ELSE Last(members).offset + TypeSize(structs, Last(members).type)

Sizeable(t) ==
  /\ Measurable(structs, t)
  /\ owner.kind = "struct" /\ structs[owner.no] # <<>> =>
       Measurable(structs, Last(structs[owner.no]).type)

\* A variable of an inner block takes the first slot again.
BadVariable ==
  /\ Doing("variable")
  /\ Need(~ Declared(Item.name),
       LET t == Item.type
           no == Cardinality({s \in Innermost : s.kind = "variable"})
       IN  /\ owner.kind = "fn"
           /\ fns' = [fns EXCEPT ![owner.no].locals = Append(@, t)]
           /\ UNCHANGED <<structs, globals>>
           /\ domains' = AddSymbol(Symbol(Item.name, "variable", t, owner, no))
           /\ GoOn(<<[do |-> "initializer", type |-> t, slot |-> no + 1],
                     [do |-> "declarators", type |-> [t EXCEPT !.dim = -1]]>>)
           /\ UNCHANGED owner /\ SymbolsOnly)

(* varDeclarator: a slot of the function, a place in the struct, or memory *)
(* of its own.                                                             *)
Variable ==
  /\ Doing("variable")
  /\ Need(~ Declared(Item.name),
       LET t == Item.type
           no == CASE owner.kind = "fn"     -> Len(fns[owner.no].locals)
                   [] owner.kind = "struct" -> Aligned(structs, NextOffset, t)
                   [] owner.kind = "none"   -> Len(globals) + 1
       IN  IF owner.kind # "fn" /\ ~ Sizeable(t) THEN End("undefined")
           ELSE
             /\ fns' = IF owner.kind = "fn"
                       THEN [fns EXCEPT ![owner.no].locals = Append(@, t)] ELSE fns
             /\ structs' = IF owner.kind = "struct"
                           THEN [structs EXCEPT ![owner.no] =
                                   Append(@, [name |-> Item.name, type |-> t, offset |-> no])]
                           ELSE structs
             /\ globals' = IF owner.kind = "none" THEN Append(globals, t) ELSE globals
             /\ domains' = AddSymbol(Symbol(Item.name, "variable", t, owner, no))
             /\ GoOn(<<[do |-> "initializer", type |-> t, slot |-> no + 1],
                       [do |-> "declarators", type |-> [t EXCEPT !.dim = -1]]>>)
             /\ UNCHANGED owner /\ SymbolsOnly)

FpAddr(t) == IF t.base = "double" THEN "FPADDR_F" ELSE "FPADDR_I"
StoreOf(t) == IF t.base = "double" THEN "STORE_F" ELSE "STORE_I"

Operand(cast) == [do |-> "operand", cast |-> cast]
Expr == Operand(TRUE)

Initializer ==
  /\ Doing("initializer")
  /\ IF tk = "="
     THEN /\ Accept(<<Expr, [do |-> "initialize", type |-> Item.type]>>)
          /\ code' = Gen(AddInstruction(code, FpAddr(Item.type), Item.slot))
     ELSE GoOn(<<>>) /\ UNCHANGED code
  /\ CodeOnly

Declarators ==
  /\ Doing("declarators")
  /\ IF tk = "," THEN Accept(<<[do |-> "name", for |-> "variable", type |-> Item.type]>>) /\ ParserOnly
     ELSE Need(tk = ";", Accept(<<>>) /\ ParserOnly)

(* function_definition, from its LPAR on: a new symbol, or the one of a    *)
(* prototype, which keeps its type and loses its parameters.               *)
Declaration ==
  /\ Doing("declaration")
  /\ IF tk # "(" THEN Need(Item.type.base # "void", GoOn(<<[Item EXCEPT !.do = "array"]>>) /\ ParserOnly)
     ELSE
       /\ IF Declared(Item.name)
          THEN LET s == FindSymbol(Item.name) IN
               Need(s.kind = "fn" /\ fns[s.no].declaration,
                 /\ fns' = [fns EXCEPT ![s.no].params = <<>>]
                 /\ domains' = PushDomain(domains)
                 /\ owner' = [kind |-> "fn", no |-> s.no]
                 /\ Accept(<<Do("parameters")>>)
                 /\ UNCHANGED <<structs, globals>> /\ SymbolsOnly)
          ELSE LET k == Len(fns) + 1 IN
                 /\ fns' = Append(fns, [type |-> Item.type, params |-> <<>>, locals |-> <<>>,
                                        declaration |-> FALSE, extern |-> 0, first |-> NULL])
                 /\ domains' = PushDomain(AddSymbol(Symbol(Item.name, "fn", Item.type, Nobody, k)))
                 /\ owner' = [kind |-> "fn", no |-> k]
                 /\ Accept(<<Do("parameters")>>)
                 /\ UNCHANGED <<structs, globals>> /\ SymbolsOnly

Parameters ==
  /\ Doing("parameters")
  /\ GoOn(IF tk \in TypeTokens THEN <<ReadType("parameter"), Do("moreParameters")>>
                               ELSE <<ReadToken(")"), Do("body")>>)
  /\ ParserOnly

MoreParameters ==
  /\ Doing("moreParameters")
  /\ IF tk = "," THEN Accept(<<ReadType("parameter"), Item>>)
                 ELSE GoOn(<<ReadToken(")"), Do("body")>>)
  /\ ParserOnly

(* function_parameter_definition *)
Parameter ==
  /\ Doing("parameter")
  /\ Need(~ Declared(Item.name),
       LET no == Len(fns[owner.no].params) IN
       /\ fns' = [fns EXCEPT ![owner.no].params = Append(@, Item.type)]
       /\ domains' = AddSymbol(Symbol(Item.name, "parameter", Item.type, owner, no))
       /\ GoOn(<<>>)
       /\ UNCHANGED <<owner, structs, globals>> /\ SymbolsOnly)

(* A prototype ends here, a definition starts with ENTER.                  *)
Body ==
  /\ Doing("body")
  /\ \/ /\ tk = ";" /\ Accept(<<>>)
        /\ fns' = [fns EXCEPT ![owner.no].declaration = TRUE]
        /\ domains' = DropDomain /\ owner' = Nobody
        /\ UNCHANGED <<structs, globals>> /\ SymbolsOnly
     \/ /\ tk = "{" /\ Accept(<<[do |-> "block", domain |-> FALSE],
                               [do |-> "endFunction", enter |-> Len(code) + 1]>>)
        /\ code' = StartList(code, "ENTER", Unset)
        /\ fns' = [fns EXCEPT ![owner.no].first = Len(code) + 1]
        /\ UNCHANGED <<r, domains, owner, structs, globals, status>>
     \/ tk \notin {";", "{"} /\ Fail

EndFunction ==
  /\ Doing("endFunction")
  /\ LET f == fns[owner.no]
         c == [code EXCEPT ![Item.enter].arg = Len(f.locals)]
     IN code' = IF f.type.base = "void" THEN AddInstruction(c, "RET_VOID", Len(f.params)) ELSE c
  /\ fns' = [fns EXCEPT ![owner.no].declaration = FALSE]
  /\ domains' = DropDomain /\ owner' = Nobody
  /\ GoOn(<<>>)
  /\ UNCHANGED <<r, structs, globals, status>>

-----------------------------------------------------------------------------
(* Statements.  They are found in functions only, so they generate code.   *)

(* stm_compound: ( var_def | stm )* RACC                                   *)
Block ==
  /\ Doing("block")
  /\ \/ tk \in TypeTokens /\ GoOn(<<ReadType("variable"), Item>>) /\ ParserOnly
     \/ tk \in StmTokens /\ GoOn(<<Do("stm"), Item>>) /\ ParserOnly
     \/ /\ tk = "}" /\ Accept(<<>>)
        /\ domains' = IF Item.domain THEN DropDomain ELSE domains
        /\ UNCHANGED <<owner, fns, structs, globals>> /\ SymbolsOnly
     \/ tk \notin TypeTokens \cup StmTokens \cup {"}"} /\ Fail

(* stm_definition.  A while loop remembers the instruction before its      *)
(* condition.                                                              *)
Stm ==
  /\ Doing("stm")
  /\ \/ /\ tk = "{" /\ Accept(<<[do |-> "block", domain |-> TRUE]>>)
        /\ domains' = PushDomain(domains)
        /\ UNCHANGED <<owner, fns, structs, globals>> /\ SymbolsOnly
     \/ /\ tk \in {"if", "while"}
        /\ Accept(<<ReadToken("("), Expr,
                    [do |-> "condition", of |-> tk, before |-> LastInstruction(code)]>>)
        /\ ParserOnly
     \/ tk = "return" /\ Accept(<<Do("return")>>) /\ ParserOnly
     \/ tk = ";" /\ Accept(<<>>) /\ ParserOnly
     \/ tk \in ExprTokens /\ GoOn(<<Expr, Do("endExpression")>>) /\ ParserOnly
     \/ tk \notin StmTokens /\ Fail

(* Return: an expression, or nothing.                                      *)
Return ==
  /\ Doing("return")
  /\ IF tk \in ExprTokens THEN GoOn(<<Expr, Do("returnValue")>>) /\ ParserOnly
     ELSE Need(fns[owner.no].type.base = "void",
            /\ GoOn(<<ReadToken(";")>>)
            /\ code' = AddInstruction(code, "RET_VOID", Len(fns[owner.no].params))
            /\ CodeOnly)

-----------------------------------------------------------------------------
(* Expressions.  When one is complete, r is its value, and the innermost   *)
(* item waits for it: to be the right operand of an operator, to be        *)
(* assigned, to be an argument, ...  An operator of a higher level comes   *)
(* first (an operand of - or of a cast takes none).                        *)
Level ==
  [op \in {"||", "&&", "==", "!=", "<", "<=", ">", ">=", "+", "-", "*", "/", "%"} |->
     CASE op = "||" -> 1 [] op = "&&" -> 2 [] op \in {"==", "!="} -> 3
       [] op \in {"<", "<=", ">", ">="} -> 4 [] op \in {"+", "-"} -> 5
       [] op \in {"*", "/", "%"} -> 6]
Computing == {op \in DOMAIN Level : Level[op] >= 4}   \* those that generate code

Waiting == {"binary", "unary", "convert", "assign", "endParen", "index", "argument",
            "condition", "endExpression", "returnValue", "initialize"}
LevelOf(item) ==
  CASE item.do = "binary" -> Level[item.op]
    [] item.do \in {"unary", "convert"} -> 7
    [] OTHER -> 0

OperatorNext ==
  \/ tk \in DOMAIN Level /\ Level[tk] > LevelOf(Item)
  \/ tk = "=" /\ LevelOf(Item) = 0

Completes(what) == Doing(what) /\ ~ OperatorNext

Value(t, lval) == [type |-> t, lval |-> lval]

(* The left operand of a computing operator is loaded before the right one *)
(* is parsed; last is the instruction its conversion will have to follow.  *)
Operator ==
  /\ status = "parsing" /\ Item.do \in Waiting
  /\ tk \in DOMAIN Level /\ Level[tk] > LevelOf(Item)
  /\ LET c == IF tk \in Computing THEN Gen(AddRval(code, r)) ELSE code
     IN  /\ code' = c
         /\ Accept(<<Expr, [do |-> "binary", op |-> tk, left |-> r.type,
                            last |-> IF Generating THEN LastInstruction(c) ELSE NULL],
                     Item>>)
  /\ CodeOnly

(* The instruction of an operator on operands of type t, if it has one.    *)
Computation(op, t) ==
  LET d == t.base = "double" IN
  CASE op = "<" -> IF d THEN <<"LESS_F">> ELSE <<"LESS_I">>
    [] op = "+" -> IF d THEN <<"ADD_F">> ELSE <<"ADD_I">>
    [] op = "-" -> IF d THEN <<"SUB_F">> ELSE <<"SUB_I">>
    [] op = "*" -> IF d THEN <<"MUL_F">> ELSE <<"MUL_I">>
    [] op = "/" -> IF d THEN <<"DIV_F">> ELSE <<"DIV_I">>
    [] OTHER -> <<>>

\* Converts the left operand at the end of the code, where the right one is.
BadBinary ==
  /\ Completes("binary")
  /\ Need(HaveArithmeticType(Item.left, r.type),
       LET t == ArithmeticType(Item.left, r.type)
           c == ConvertLast(ConvertLast(AddRval(code, r), Item.left, t), r.type, t)
       IN  /\ code' = IF Item.op \notin Computing THEN code
                      ELSE Gen(IF Computation(Item.op, t) = <<>> THEN c
                               ELSE AddInstruction(c, Computation(Item.op, t)[1], Unset))
           /\ r' = Value(IF Level[Item.op] <= 4 THEN IntT ELSE t, FALSE)
           /\ GoOn(<<>>)
           /\ UNCHANGED <<table, status>>)

(* The reduction of a binary operator: both operands are converted to      *)
(* their common type, the left one back where its code ends.               *)
Binary ==
  /\ Completes("binary")
  /\ Need(HaveArithmeticType(Item.left, r.type),
       LET t == ArithmeticType(Item.left, r.type)
           c == ConvertLast(InsertConversion(AddRval(code, r), Item.last, Item.left, t), r.type, t)
       IN  /\ code' = IF Item.op \notin Computing THEN code
                      ELSE Gen(IF Computation(Item.op, t) = <<>> THEN c
                               ELSE AddInstruction(c, Computation(Item.op, t)[1], Unset))
           /\ r' = Value(IF Level[Item.op] <= 4 THEN IntT ELSE t, FALSE)
           /\ GoOn(<<>>)
           /\ UNCHANGED <<table, status>>)

Assignment ==
  /\ status = "parsing" /\ Item.do \in Waiting
  /\ tk = "=" /\ LevelOf(Item) = 0
  /\ Accept(<<Expr, [do |-> "assign", to |-> r], Item>>)
  /\ ParserOnly

(* The end of assignment_expression.  is_constant is not modelled: a left  *)
(* value that has it set is an array, which is no scalar either.  The      *)
(* value keeps the type of the source.                                     *)
Assign ==
  /\ Completes("assign")
  /\ Need(Item.to.lval /\ CanBeScalar(Item.to.type) /\ CanBeScalar(r.type)
            /\ ConvertTo(r.type, Item.to.type),
          /\ code' = Gen(AddInstruction(ConvertLast(AddRval(code, r), r.type, Item.to.type),
                                        StoreOf(Item.to.type), Unset))
          /\ r' = Value(r.type, FALSE)
          /\ GoOn(<<>>)
          /\ UNCHANGED <<table, status>>)

(* cast_expression and unary_expression, up to their primary_expression    *)
OperandOf ==
  /\ Doing("operand")
  /\ \/ tk = "(" /\ Accept(<<[Item EXCEPT !.do = "paren"]>>) /\ ParserOnly
     \/ tk \in {"-", "!"} /\ Accept(<<Operand(FALSE), Do("unary")>>) /\ ParserOnly
     \/ tk \in Names /\ Accept(<<[do |-> "identifier", name |-> tk]>>) /\ ParserOnly
     \/ /\ tk \in DOMAIN Literals
        /\ LET t == Type(Literals[tk].base) IN
           /\ r' = Value(t, FALSE)
           /\ code' = Gen(AddInstruction(code, IF t = DoubleT THEN "PUSH_F" ELSE "PUSH_I",
                                         Literals[tk].value))
        /\ Accept(<<Do("postfix")>>)
        /\ UNCHANGED <<table, status>>
     \/ /\ tk = "STRING"
        /\ r' = Value([CharT EXCEPT !.dim = 0], FALSE)
        /\ Accept(<<Do("postfix")>>)
        /\ UNCHANGED <<table, code, status>>
     \/ tk \notin ExprTokens /\ Fail

(* LPAR: a cast where one may be and a type follows.                       *)
Paren ==
  /\ Doing("paren")
  /\ GoOn(IF Item.cast /\ tk \in TypeTokens THEN <<ReadType("cast")>>
                                            ELSE <<Expr, Do("endParen")>>)
  /\ ParserOnly

EndParen ==
  /\ Completes("endParen")
  /\ Need(tk = ")", Accept(<<Do("postfix")>>) /\ ParserOnly)

Cast ==
  /\ Doing("cast")
  /\ Need(tk = ")", Accept(<<Expr, [do |-> "convert", type |-> Item.type]>>) /\ ParserOnly)

Convert ==
  /\ Completes("convert")
  /\ Need(/\ Item.type.base # "struct" /\ r.type.base # "struct"
          /\ (r.type.dim >= 0) = (Item.type.dim >= 0),
          /\ code' = Gen(ConvertLast(AddRval(code, r), r.type, Item.type))
          /\ r' = Value(Item.type, FALSE)
          /\ GoOn(<<>>)
          /\ UNCHANGED <<table, status>>)

(* Minus and not have no instructions.                                     *)
Unary ==
  /\ Completes("unary")
  /\ Need(CanBeScalar(r.type), r' = Value(r.type, FALSE) /\ GoOn(<<>>)
                                 /\ UNCHANGED <<table, code, status>>)

\* The loop lacks its break.
BadPostfix ==
  /\ Doing("postfix")
  /\ \/ tk = "[" /\ Accept(<<Expr, [do |-> "index", type |-> r.type]>>)
     \/ tk = "." /\ Accept(<<Do("field")>>)
     \/ tk \notin {"[", "."} /\ GoOn(<<Item>>)
  /\ ParserOnly

Postfix ==
  /\ Doing("postfix")
  /\ \/ tk = "[" /\ Accept(<<Expr, [do |-> "index", type |-> r.type]>>)
     \/ tk = "." /\ Accept(<<Do("field")>>)
     \/ tk \notin {"[", "."} /\ GoOn(<<>>)
  /\ ParserOnly

(* Indexing and selection generate no code.                                *)
Index ==
  /\ Completes("index")
  /\ Need(tk = "]" /\ Item.type.dim >= 0 /\ r.type.dim < 0 /\ r.type.base \in {"int", "char"},
          /\ r' = Value([Item.type EXCEPT !.dim = -1], TRUE)
          /\ Accept(<<Do("postfix")>>)
          /\ UNCHANGED <<table, code, status>>)

Field ==
  /\ Doing("field")
  /\ Need(/\ tk \in Names /\ r.type.base = "struct"
          /\ \E i \in DOMAIN structs[r.type.sym] : structs[r.type.sym][i].name = tk,
          LET members == structs[r.type.sym]
              m == members[CHOOSE i \in DOMAIN members : members[i].name = tk]
          IN  /\ r' = Value(m.type, TRUE)
              /\ Accept(<<Do("postfix")>>)
              /\ UNCHANGED <<table, code, status>>)

\* Takes the return address for the last parameter.
BadAddAddress(s) ==
  CASE s.kind = "variable" /\ s.owner.kind = "none" -> AddInstruction(code, "ADDR", s.no)
    [] s.kind = "variable" /\ s.owner.kind = "fn" -> AddInstruction(code, FpAddr(s.type), s.no + 1)
    [] s.kind = "parameter" ->
         AddInstruction(code, FpAddr(s.type), s.no - Len(fns[s.owner.no].params))
    [] OTHER -> code

(* The address of a variable or parameter, by the FP of its function or    *)
(* absolute; nothing for a member or the name of a struct.                 *)
AddAddress(s) ==
  CASE s.kind = "variable" /\ s.owner.kind = "none" -> AddInstruction(code, "ADDR", s.no)
    [] s.kind = "variable" /\ s.owner.kind = "fn" -> AddInstruction(code, FpAddr(s.type), s.no + 1)
    [] s.kind = "parameter" ->
         AddInstruction(code, FpAddr(s.type), s.no - Len(fns[s.owner.no].params) - 1)
    [] OTHER -> code

(* An identifier: a function if LPAR follows, anything but one if not.     *)
Identifier ==
  /\ Doing("identifier")
  /\ Need(Visible(Item.name),
       LET s == FindSymbol(Item.name) IN
       Need((s.kind = "fn") = (tk = "("),
         IF tk = "("
         THEN Accept(<<[do |-> "arguments", fn |-> s.no]>>) /\ ParserOnly
         ELSE /\ code' = Gen(AddAddress(s))
              /\ r' = Value(s.type, TRUE)
              /\ GoOn(<<Do("postfix")>>)
              /\ UNCHANGED <<table, status>>))

Arguments ==
  /\ Doing("arguments")
  /\ GoOn(IF tk \in ExprTokens THEN <<Expr, [do |-> "argument", fn |-> Item.fn, no |-> 1]>>
                               ELSE <<[do |-> "call", fn |-> Item.fn, count |-> 0]>>)
  /\ ParserOnly

\* Passes an argument as it is.
BadArgument ==
  /\ Completes("argument")
  /\ Need(Item.no <= Len(fns[Item.fn].params) /\ ConvertTo(r.type, fns[Item.fn].params[Item.no]),
          /\ code' = Gen(AddRval(code, r))
          /\ \/ tk = "," /\ Accept(<<Expr, [Item EXCEPT !.no = @ + 1]>>)
             \/ tk # "," /\ GoOn(<<[do |-> "call", fn |-> Item.fn, count |-> Item.no]>>)
          /\ CodeOnly)

Argument ==
  /\ Completes("argument")
  /\ Need(Item.no <= Len(fns[Item.fn].params) /\ ConvertTo(r.type, fns[Item.fn].params[Item.no]),
          /\ code' = Gen(ConvertLast(AddRval(code, r), r.type, fns[Item.fn].params[Item.no]))
          /\ \/ tk = "," /\ Accept(<<Expr, [Item EXCEPT !.no = @ + 1]>>)
             \/ tk # "," /\ GoOn(<<[do |-> "call", fn |-> Item.fn, count |-> Item.no]>>)
          /\ CodeOnly)

(* The call names the first instruction that the function has by now.      *)
Call ==
  /\ Doing("call")
  /\ LET f == fns[Item.fn] IN
     Need(tk = ")" /\ Item.count = Len(f.params),
          /\ code' = Gen(IF f.extern # 0 THEN AddInstruction(code, "CALL_EXT", f.extern)
                                         ELSE AddInstruction(code, "CALL", f.first))
          /\ r' = Value(f.type, FALSE)
          /\ Accept(<<Do("postfix")>>)
          /\ UNCHANGED <<table, status>>)

-----------------------------------------------------------------------------
(* The statements that wait for an expression or another statement.        *)
EndExpression ==
  /\ Completes("endExpression")
  /\ Need(tk = ";",
          /\ Accept(<<>>)
          /\ code' = IF r.type.base = "void" THEN code ELSE AddInstruction(code, "DROP", Unset)
          /\ CodeOnly)

Initialize ==
  /\ Completes("initialize")
  /\ Need(ConvertTo(r.type, Item.type),
          /\ code' = Gen(AddInstruction(
                           AddInstruction(ConvertLast(AddRval(code, r), r.type, Item.type),
                                          StoreOf(Item.type), Unset), "DROP", Unset))
          /\ GoOn(<<>>)
          /\ CodeOnly)

ReturnValue ==
  /\ Completes("returnValue")
  /\ LET f == fns[owner.no] IN
     Need(f.type.base # "void" /\ CanBeScalar(r.type) /\ ConvertTo(r.type, f.type),
          /\ code' = AddInstruction(ConvertLast(AddRval(code, r), r.type, f.type),
                                    "RET", Len(f.params))
          /\ GoOn(<<ReadToken(";")>>)
          /\ CodeOnly)

(* The condition of an if or while: to int, and a jump to be set later.    *)
Condition ==
  /\ Completes("condition")
  /\ Need(tk = ")" /\ CanBeScalar(r.type),
       LET c == AddInstruction(ConvertLast(AddRval(code, r), r.type, IntT), "JF", Unset)
       IN  /\ code' = c
           /\ Accept(<<Do("stm"),
                       IF Item.of = "if" THEN [do |-> "endThen", jf |-> Len(c)]
                       ELSE [do |-> "endWhile", jf |-> Len(c), before |-> Item.before]>>)
           /\ CodeOnly)

\* Goes past the NOP.
BadJumpToNop(c, jump) ==
  AddInstruction([c EXCEPT ![jump].arg = Len(c) + 2], "NOP", Unset)

\* A NOP at the end of c for the jump to go to.
JumpToNop(c, jump) ==
  AddInstruction([c EXCEPT ![jump].arg = Len(c) + 1], "NOP", Unset)

EndThen ==
  /\ Doing("endThen")
  /\ \/ /\ tk = "else"
        /\ Accept(<<Do("stm"), [do |-> "endIf", jmp |-> Len(code) + 1]>>)
        /\ code' = JumpToNop(AddInstruction(code, "JMP", Unset), Item.jf)
     \/ /\ tk # "else"
        /\ GoOn(<<>>)
        /\ code' = JumpToNop(code, Item.jf)
  /\ CodeOnly

EndIf ==
  /\ Doing("endIf")
  /\ GoOn(<<>>)
  /\ code' = JumpToNop(code, Item.jmp)
  /\ CodeOnly

(* The back edge goes to what now follows the instruction that was last    *)
(* when the condition began.                                               *)
EndWhile ==
  /\ Doing("endWhile")
  /\ GoOn(<<>>)
  /\ code' = JumpToNop(AddInstruction(code, "JMP", code[Item.before].next), Item.jf)
  /\ CodeOnly

Next ==
  \/ ExpectedToken \/ Unit \/ TypeBase \/ StructName \/ StructTag \/ Members \/ EndStruct
  \/ Name \/ Array \/ Dimension \/ EndArray \/ Variable \/ Initializer \/ Declarators
  \/ Declaration \/ Parameters \/ MoreParameters \/ Parameter \/ Body \/ EndFunction
  \/ Block \/ Stm \/ Return
  \/ Operator \/ Binary \/ Assignment \/ Assign \/ OperandOf \/ Paren \/ EndParen
  \/ Cast \/ Convert \/ Unary \/ Postfix \/ Index \/ Field \/ Identifier
  \/ Arguments \/ Argument \/ Call
  \/ EndExpression \/ Initialize \/ ReturnValue \/ Condition \/ EndThen \/ EndIf \/ EndWhile

Spec == Init /\ [][Next]_vars

(* The parser runs on by itself.                                           *)
FairSpec == Spec /\ WF_vars(Next)
=============================================================================
