------------------------------- MODULE Bytecode -------------------------------
(***************************************************************************)
(* What makes the compiler's output correct: a verifier of the code of the *)
(* functions compiled so far, and what the symbol tables must satisfy.     *)
(***************************************************************************)
EXTENDS Compiler

(* What a cell of the stack holds, as far as the opcodes care.             *)
KindOf(t) ==
  IF t.dim >= 0 \/ t.base = "struct" THEN "other" ELSE IF t.base = "char" THEN "int" ELSE t.base
AddressKind(t) ==
  CASE KindOf(t) = "int" -> "&int" [] KindOf(t) = "double" -> "&double" [] OTHER -> "&other"

(* The instructions of function f, in the order of its list.               *)
Listing(f) ==
  LET from[i \in 0 .. Len(code)] == IF i = NULL THEN <<>> ELSE <<i>> \o from[code[i].next]
  IN  from[fns[f].first]

Compiled == {f \in DOMAIN fns : fns[f].first # NULL /\ ~ (owner.kind = "fn" /\ owner.no = f)}

(* FP[n] is a local of f (n > 0) or, below the return address and the      *)
(* saved frame pointer, a parameter.                                       *)
HasSlot(f, n) == n \in 1 .. Len(fns[f].locals) \/ n \in -Len(fns[f].params) - 1 .. -2
SlotType(f, n) == IF n > 0 THEN fns[f].locals[n] ELSE fns[f].params[Len(fns[f].params) + n + 2]

Kinds(ts) == [i \in DOMAIN ts |-> KindOf(ts[i])]
ResultOf(f) == IF fns[f].type.base = "void" THEN <<>> ELSE <<KindOf(fns[f].type)>>
Callee(i) ==
  CHOOSE f \in DOMAIN fns :
    IF code[i].op = "CALL_EXT" THEN fns[f].extern = code[i].arg ELSE fns[f].first = code[i].arg

(* The cells that instruction i of function f takes and gives; "any" fits  *)
(* every cell.                                                             *)
Takes(f, i) ==
  LET op == code[i].op IN
  CASE op \in {"ADD_I", "SUB_I", "MUL_I", "DIV_I", "LESS_I"} -> <<"int", "int">>
    [] op \in {"ADD_F", "SUB_F", "MUL_F", "DIV_F", "LESS_F"} -> <<"double", "double">>
    [] op = "CONV_I_F" -> <<"int">>
    [] op = "CONV_F_I" -> <<"double">>
    [] op = "LOAD_I"   -> <<"&int">>
    [] op = "LOAD_F"   -> <<"&double">>
    [] op = "STORE_I"  -> <<"&int", "int">>
    [] op = "STORE_F"  -> <<"&double", "double">>
    [] op = "DROP"     -> <<"any">>
    [] op = "JF"       -> <<"int">>
    [] op = "RET"      -> ResultOf(f)
    [] op \in {"CALL", "CALL_EXT"} -> Kinds(fns[Callee(i)].params)
    [] OTHER -> <<>>

Gives(f, i) ==
  LET op == code[i].op IN
  CASE op \in {"PUSH_I", "ADD_I", "SUB_I", "MUL_I", "DIV_I", "LESS_I", "LESS_F", "CONV_F_I",
               "LOAD_I", "STORE_I"} -> <<"int">>
    [] op \in {"PUSH_F", "ADD_F", "SUB_F", "MUL_F", "DIV_F", "CONV_I_F", "LOAD_F", "STORE_F"}
         -> <<"double">>
    [] op \in {"FPADDR_I", "FPADDR_F"} ->
         IF HasSlot(f, code[i].arg) THEN <<AddressKind(SlotType(f, code[i].arg))>> ELSE <<"none">>
    [] op = "ADDR" -> <<AddressKind(globals[code[i].arg])>>
    [] op \in {"CALL", "CALL_EXT"} -> ResultOf(Callee(i))
    [] OTHER -> <<>>

Fits(shape, kinds) ==
  /\ Len(shape) >= Len(kinds)
  /\ \A k \in DOMAIN kinds : kinds[k] \in {"any", shape[Len(shape) - Len(kinds) + k]}

Broken == <<"broken">>

(* The operands on the stack before each instruction of f, as the text     *)
(* orders them: control joins only between statements.                     *)
Shapes(f) ==
  LET list == Listing(f)
      before[k \in 1 .. Len(list)] ==
        IF k = 1 THEN <<>>
        ELSE LET shape == before[k - 1]
                 i == list[k - 1]
             IN  IF shape = Broken \/ ~ Fits(shape, Takes(f, i)) THEN Broken
                 ELSE SubSeq(shape, 1, Len(shape) - Len(Takes(f, i))) \o Gives(f, i)
  IN  before

Verified(f) ==
  LET list == Listing(f)
      shape == Shapes(f)
  IN  /\ code[list[1]] = [code[list[1]] EXCEPT !.op = "ENTER", !.arg = Len(fns[f].locals)]
      /\ \A k \in DOMAIN list :
           LET i == list[k]
               op == code[i].op
           IN  /\ shape[k] # Broken /\ Fits(shape[k], Takes(f, i))
               /\ op = "ENTER" => k = 1
               /\ op \in {"JMP", "JF"} =>
                    \E l \in DOMAIN list :
                      list[l] = code[i].arg /\ shape[l] = <<>> /\ Len(shape[k]) = Len(Takes(f, i))
               /\ op \in {"RET", "RET_VOID"} =>
                    /\ code[i].arg = Len(fns[f].params)
                    /\ shape[k] = ResultOf(f)
               /\ op = "CALL" => code[i].arg # NULL
      /\ fns[f].type.base = "void" => code[Last(list)].op = "RET_VOID"

-----------------------------------------------------------------------------
(* The code of every function compiled is well formed: on every path each  *)
(* instruction finds the operands it takes, of the kinds it takes; every   *)
(* slot addressed is a local or parameter of the right kind; jumps stay in *)
(* the function and meet the same stack; statements and returns leave      *)
(* nothing behind (parser.c's emission sites, back-patching and inserted   *)
(* conversions).                                                           *)
CodeVerified == \A f \in Compiled : Verified(f)


(* What an item counts on to be on the stack, and the value just parsed.   *)
Cells(v) ==
  IF v.type.base = "void" THEN <<>> ELSE <<IF v.lval THEN AddressKind(v.type) ELSE KindOf(v.type)>>

OperandsOf(item) ==
  CASE item.do = "binary" /\ item.op \in Computing -> Cells(Value(item.left, FALSE))
    [] item.do = "assign" -> Cells(item.to)
    [] item.do = "initialize" -> <<AddressKind(item.type)>>
    [] item.do = "argument" -> Kinds(SubSeq(fns[item.fn].params, 1, item.no - 1))
    [] item.do = "call" -> Kinds(SubSeq(fns[item.fn].params, 1, item.count))
    [] OTHER -> <<>>

Current == IF Item.do \in Waiting \cup {"postfix", "field"} THEN Cells(r) ELSE <<>>

StackAtEnd ==
  LET list == Listing(owner.no)
      shape == Shapes(owner.no)
      n == Len(list)
      i == list[n]
  IN  IF shape[n] = Broken \/ ~ Fits(shape[n], Takes(owner.no, i)) THEN Broken
      ELSE SubSeq(shape[n], 1, Len(shape[n]) - Len(Takes(owner.no, i))) \o Gives(owner.no, i)

InBody == status = "parsing" /\ Generating /\ fns[owner.no].first # NULL

Awaited == FlattenSeq(Reverse([k \in DOMAIN todo |-> OperandsOf(todo[k])]))

(* The operands that the emitted code has left on the stack where the      *)
(* parser has got to are those that the suspended activations will use:    *)
(* left operands, destinations, the arguments passed so far, and then the  *)
(* value of the expression just parsed, if any (all of parser.c from       *)
(* assignment_expression on: nothing is left over, nothing is missing),    *)
(* apart from indexing, which has no instruction.                          *)
Indexing == \E k \in DOMAIN todo : todo[k].do = "index"
OperandsAwaited ==
  InBody /\ ~Indexing =>
    /\ StackAtEnd # Broken
    /\ Len(StackAtEnd) = Len(Awaited) + Len(Current)
    /\ SubSeq(StackAtEnd, 1, Len(Awaited)) = Awaited

(* The value of the expression just parsed is of the type the parser takes *)
(* it to be, so that what uses it converts it rightly ("leaves value on    *)
(* the stack so chained assignments / use-in-expression work",             *)
(* parser.c:628).                                                          *)
ValueDescribed ==
  InBody /\ Current # <<>> => StackAtEnd # <<>> /\ Last(StackAtEnd) = Current[1]

(* Between two statements no operand is left on the stack ("drop it so the *)
(* stack stays balanced", parser.c:579).                                   *)
StatementsBalanced == InBody /\ Item.do = "block" => StackAtEnd = <<>>

(* In an accepted program whose functions are all defined, calls lead to   *)
(* the beginning of a function ("CALL stub jumps directly to it",          *)
(* parser.c:343).                                                          *)
CallsReachFunctions ==
  status = "done" /\ (\A f \in DOMAIN fns : ~ fns[f].declaration) =>
    \A i \in DOMAIN code :
      code[i].op = "CALL" => code[i].arg # NULL /\ code[code[i].arg].op = "ENTER"

(* A domain is open for every block, function and struct that the parser   *)
(* is inside of, and for nothing else: at the global level there is one    *)
(* domain and nobody owns what is declared (push_domain and drop_domain    *)
(* on every path of parser.c).                                             *)
DomainsNested ==
  status = "parsing" =>
    /\ Len(domains) =
         1 + Cardinality({k \in DOMAIN todo : todo[k].do = "block" /\ todo[k].domain})
           + (IF owner = Nobody THEN 0 ELSE 1)
    /\ Item.do \in {"unit", "declaration"} => owner = Nobody
    /\ \A d \in DOMAIN domains : \A s, u \in domains[d] : s.name = u.name => s = u
    /\ \A s \in UNION {domains[d] : d \in 2 .. Len(domains)} : s.owner = owner

(* Two variables never share a slot, whatever blocks they were declared    *)
(* in: the symbols in scope have the places, in the order of declaration,  *)
(* that the frame of the function has for them (var_index, param_index).   *)
SlotsAgree ==
  \A d \in 2 .. Len(domains) : \A s \in domains[d] :
    /\ s.kind = "variable" /\ owner.kind = "fn" =>
         s.no < Len(fns[owner.no].locals) /\ fns[owner.no].locals[s.no + 1] = s.type
    /\ s.kind = "parameter" =>
         s.no < Len(fns[owner.no].params) /\ fns[owner.no].params[s.no + 1] = s.type
    /\ owner.kind = "fn" =>
         \A e \in 2 .. Len(domains) : \A u \in domains[e] :
           s.kind = u.kind /\ s.no = u.no => s = u

(* Members of a struct are aligned, do not overlap, and lie within what    *)
(* type_size says the struct takes: the offsets given when the members     *)
(* were declared (parser.c) agree with the size computed afterwards        *)
(* (type.c).                                                               *)
MembersLaidOut ==
  \A k \in DOMAIN structs :
    Measurable(structs, StructT(k)) =>
      \A i \in DOMAIN structs[k] :
        LET m == structs[k][i]
            end == m.offset + TypeSize(structs, m.type)
        IN  /\ m.offset % TypeAlignment(structs, m.type) = 0
            /\ end <= TypeSize(structs, StructT(k))
            /\ \A j \in i + 1 .. Len(structs[k]) : end <= structs[k][j].offset

(* Every source is accepted or rejected in the end.                        *)
ParseEnds == <>(status # "parsing")
=============================================================================
