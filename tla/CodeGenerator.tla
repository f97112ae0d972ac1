----------------------------- MODULE CodeGenerator -----------------------------
(***************************************************************************)
(* Instruction lists and what the parser appends to them:                  *)
(* src/vm/instruction.c and code_generator.c.                              *)
(*                                                                         *)
(* code is every instruction allocated so far, in that order; an           *)
(* instruction's number is its place there.  The functions of a program    *)
(* are compiled one after another, each a list linked by next.             *)
(***************************************************************************)
EXTENDS Types

NULL  == 0
Unset == -1      \* an argument that malloc left and nobody has written

Instruction(op, arg) == [op |-> op, arg |-> arg, next |-> NULL]

(* get_last_instruction, for the list being built: every later instruction *)
(* was inserted before the end of it.                                      *)
LastInstruction(code) ==
  CHOOSE i \in DOMAIN code :
    code[i].next = NULL /\ \A j \in i + 1 .. Len(code) : code[j].next # NULL

(* add_instruction on an empty list starts a new one.                      *)
StartList(code, op, arg) == Append(code, Instruction(op, arg))

(* add_instruction, add_instruction_with_int, add_instruction_with_double  *)
AddInstruction(code, op, arg) ==
  Append([code EXCEPT ![LastInstruction(code)].next = Len(code) + 1], Instruction(op, arg))

(* insert_instruction *)
InsertInstruction(code, before, op) ==
  Append([code EXCEPT ![before].next = Len(code) + 1],
         [op |-> op, arg |-> Unset, next |-> code[before].next])

(* insert_conversion_if_needed: between int and double only.               *)
InsertConversion(code, before, src, dst) ==
  CASE src.base = "int" /\ dst.base = "double" -> InsertInstruction(code, before, "CONV_I_F")
    [] src.base = "double" /\ dst.base = "int" -> InsertInstruction(code, before, "CONV_F_I")
    [] OTHER -> code

ConvertLast(code, src, dst) == InsertConversion(code, LastInstruction(code), src, dst)

(* add_rval: replaces the address of a left value by its contents.         *)
AddRval(code, v) ==
  CASE v.lval /\ v.type.base \in {"int", "char"} -> AddInstruction(code, "LOAD_I", Unset)
    [] v.lval /\ v.type.base = "double"          -> AddInstruction(code, "LOAD_F", Unset)
    [] OTHER -> code
=============================================================================
