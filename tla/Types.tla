-------------------------------- MODULE Types --------------------------------
(***************************************************************************)
(* Types and what the analyzer does with them: src/analyzer/type.c and     *)
(* type_analyzer.c.                                                        *)
(*                                                                         *)
(* A type is [base, sym, dim]: dim is array_dimension (negative for no     *)
(* array, 0 for one of unknown size), sym the number of the struct a       *)
(* "struct" type names, 0 for every other.  structs is the sequence of the *)
(* structs defined so far, each a sequence of members [name, type, offset].*)
(***************************************************************************)
EXTENDS Integers, Sequences, SequencesExt

Type(base) == [base |-> base, sym |-> 0, dim |-> -1]

IntT    == Type("int")
DoubleT == Type("double")
CharT   == Type("char")
VoidT   == Type("void")
StructT(k) == [base |-> "struct", sym |-> k, dim |-> -1]

Arithmetic == {"int", "double", "char"}

-----------------------------------------------------------------------------
(* can_be_scalar *)
CanBeScalar(t) == t.dim < 0 /\ t.base \in Arithmetic

(* convert_to: arrays among themselves, arithmetic types among themselves, *)
(* a struct to itself.                                                     *)
ConvertTo(src, dst) ==
  \/ src.dim >= 0 /\ dst.dim >= 0
  \/ /\ src.dim < 0 /\ dst.dim < 0
     /\ \/ src.base \in Arithmetic /\ dst.base \in Arithmetic
        \/ src.base = "struct" /\ dst.base = "struct" /\ src.sym = dst.sym

(* arithmetic_type_to: whether two operands have a common type, and which. *)
HaveArithmeticType(t, u) == CanBeScalar(t) /\ CanBeScalar(u)

ArithmeticType(t, u) ==
  IF "double" \in {t.base, u.base} THEN DoubleT
  ELSE IF t.base = "char" THEN Type(u.base)
  ELSE IntT

-----------------------------------------------------------------------------
(* Layout.  Alignments are powers of two, for which the masking of         *)
(* align_up rounds up to a multiple.                                       *)
AlignUp(offset, alignment) == ((offset + alignment - 1) \div alignment) * alignment

BaseAlignment(base) ==
  CASE base = "int" -> 4 [] base = "double" -> 8 [] OTHER -> 1

BaseSize(base) ==
  CASE base = "int" -> 4 [] base = "double" -> 8 [] base = "char" -> 1 [] OTHER -> 0

PointerSize == 8

(* Members refer to structs defined before their own, or to their own: a    *)
(* struct that holds itself sends the functions below into an endless      *)
(* recursion in the code.  t is measurable when the structs it needs all   *)
(* hold earlier ones only.                                                 *)
Measurable(structs, t) ==
  \E S \in SUBSET DOMAIN structs :
    /\ t.sym \in {0} \cup S
    /\ \A k \in S : \A i \in DOMAIN structs[k] :
         LET s == structs[k][i].type.sym IN s < k /\ s \in {0} \cup S

\* The members of struct k that are measured before it.
Earlier(structs, k) == {i \in DOMAIN structs[k] : structs[k][i].type.sym < k}

(* type_alignment: that of a struct is the largest of its members'.        *)
AlignmentIn(of, t) == IF t.sym = 0 THEN BaseAlignment(t.base) ELSE of[t.sym]

Alignments(structs) ==
  LET of[k \in 0 .. Len(structs)] ==
        IF k = 0 THEN 1
        ELSE Max({1} \cup {AlignmentIn(of, structs[k][i].type) : i \in Earlier(structs, k)})
  IN  of

TypeAlignment(structs, t) == AlignmentIn(Alignments(structs), t)

\* Leaves the padding out.
BadAligned(structs, offset, t) == offset

(* Where something of type t goes that may start at offset.                *)
Aligned(structs, offset, t) == AlignUp(offset, TypeAlignment(structs, t))

(* type_size and type_base_size: a struct's members one after another,     *)
(* each aligned, and the whole rounded up to the struct's alignment.       *)
SizeIn(of, t) ==
  LET base == IF t.sym = 0 THEN BaseSize(t.base) ELSE of[t.sym]
  IN  IF t.dim < 0 THEN base ELSE IF t.dim = 0 THEN PointerSize ELSE t.dim * base

Ends(structs, k, of) ==
  LET end[i \in 0 .. Len(structs[k])] ==
        IF i = 0 THEN 0
        ELSE Aligned(structs, end[i - 1], structs[k][i].type)
               + IF i \in Earlier(structs, k) THEN SizeIn(of, structs[k][i].type) ELSE 0
  IN  end

Sizes(structs) ==
  LET of[k \in 0 .. Len(structs)] ==
        IF k = 0 THEN 0
        ELSE Aligned(structs, Ends(structs, k, of)[Len(structs[k])], StructT(k))
  IN  of

TypeSize(structs, t) == SizeIn(Sizes(structs), t)
=============================================================================
