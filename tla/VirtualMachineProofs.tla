------------------------ MODULE VirtualMachineProofs ------------------------
(***************************************************************************)
(* Theorems about VirtualMachine for every library of programs, every      *)
(* stack size and every width of int; and, for every program that keeps to *)
(* the calling convention, that the machine implements CallStack.          *)
(***************************************************************************)
EXTENDS CallFrames, TLAPS, FiniteSetTheorems, NaturalsInduction, WellFoundedInduction,
        SequenceTheorems

USE SizeAssumption, IntAssumption, DoubleAssumption

-----------------------------------------------------------------------------
(* Lemmas about the operators on values and cells.                         *)

(* A remainder by a positive number lies below it.                         *)
LEMMA ModRange ==
  ASSUME NEW x \in Int, NEW n \in Int, n > 0
  PROVE  x % n \in Int /\ 0 <= x % n /\ x % n < n
  OBVIOUS

(* Wrap-around arithmetic stays among the ints.                            *)
LEMMA WrapType == \A x \in Int : Wrap(x) \in Ints
<1> TAKE x \in Int
<1> DEFINE n == MaxInt - MinInt + 1
           y == x - MinInt
<1>1. n \in Int /\ n > 0 /\ y \in Int
  OBVIOUS
<1>2. y % n \in Int /\ 0 <= y % n /\ y % n < n
  <2> HIDE DEF n, y
  <2> QED BY <1>1, ModRange
<1>3. QED BY <1>2 DEF Wrap, Ints

LEMMA IntResultType ==
  ASSUME NEW op \in IntOps, NEW a \in Ints, NEW b \in Ints
  PROVE  IntResult(op, a, b) \in Ints
<1>1. a \in Int /\ b \in Int
  BY DEF Ints
<1>2. a + b \in Int /\ a - b \in Int /\ a * b \in Int
  BY <1>1
<1>3. Bit(a < b) \in Ints
  BY <1>1 DEF Bit, Ints
<1>4. QED
  BY <1>2, <1>3, WrapType DEF IntResult, IntOps

(* What a cell holds depends on its tag.                                   *)
LEMMA CellFields ==
  ASSUME NEW p, NEW c \in CellsOf(p)
  PROVE  /\ c.tag = "int" => c.val \in Ints
         /\ c.tag \in {"double", "stack"} => c.val \in Int
         /\ c.tag = "global" => c.val \in DOMAIN p.globals
         /\ c.tag = "instr" => c.val \in DOMAIN p.code \cup {NULL}
  BY DEF CellsOf, Raw

LEMMA CellKinds ==
  ASSUME NEW p
  PROVE  /\ Raw \in CellsOf(p)
         /\ \A v \in Ints : Int32(v) \in CellsOf(p)
         /\ \A v \in Int : Double(v) \in CellsOf(p) /\ StackP(v) \in CellsOf(p)
         /\ \A g \in DOMAIN p.globals : GlobalP(g) \in CellsOf(p)
         /\ \A i \in DOMAIN p.code \cup {NULL} : InstrP(i) \in CellsOf(p)
  BY DEF CellsOf, Raw, Int32, Double, StackP, GlobalP, InstrP

LEMMA AsIntType ==
  ASSUME NEW p, NEW c \in CellsOf(p)
  PROVE  AsInt(c) \subseteq Ints
  BY CellFields DEF AsInt

LEMMA AsDoubleType ==
  ASSUME NEW p, NEW c \in CellsOf(p)
  PROVE  AsDouble(c) \subseteq Int
  BY CellFields DEF AsDouble

(* Division truncates to an integer, whatever the signs.                   *)
LEMMA DivType ==
  ASSUME NEW x \in Int, NEW y \in Int, y > 0
  PROVE  x \div y \in Int
  OBVIOUS

LEMMA QuotientType ==
  ASSUME NEW a \in Int, NEW b \in Int, b # 0
  PROVE  Quotient(a, b) \in Int
<1> DEFINE abs(x) == IF x < 0 THEN -x ELSE x
           q == abs(a) \div abs(b)
<1>1. abs(a) \in Int /\ abs(b) \in Int /\ abs(b) > 0
  OBVIOUS
<1>2. q \in Int
  <2> HIDE DEF abs
  <2> QED BY <1>1, DivType
<1>3. Quotient(a, b) = IF (a < 0) = (b < 0) THEN q ELSE -q
  BY DEF Quotient
<1>4. QED
  <2> HIDE DEF q
  <2> QED BY <1>2, <1>3

LEMMA RoundedType ==
  ASSUME NEW n \in Int, NEW d \in Int
  PROVE  Rounded(n, d) \subseteq Int
<1>1. CASE d = 0
  BY <1>1 DEF Rounded
<1>2. CASE d # 0
  <2>1. Quotient(n, d) \in Int
    BY <1>2, QuotientType
  <2>2. QED BY <1>2, <2>1 DEF Rounded
<1>3. QED BY <1>1, <1>2

LEMMA DblResultType ==
  ASSUME NEW p, NEW op \in DblOps, NEW a \in Int, NEW b \in Int
  PROVE  DblResult(op, a, b) \subseteq CellsOf(p)
<1>1. a + b \in Int /\ a - b \in Int /\ a * b \in Int /\ 2 * a \in Int
  OBVIOUS
<1>2. Rounded(a * b, 2) \subseteq Int /\ Rounded(2 * a, b) \subseteq Int
  BY <1>1, RoundedType
<1>3. Bit(a < b) \in Ints
  BY DEF Bit, Ints
<1>4. QED
  BY <1>1, <1>2, <1>3, CellKinds DEF DblResult, DblOps

LEMMA IntOfType == \A f : IntOf(f) \subseteq Ints
  BY DEF IntOf

-----------------------------------------------------------------------------
(* The instruction at ip is one of the program's, and is well linked.      *)
LEMMA InstrType ==
  ASSUME TypeOK, ip # NULL
  PROVE  /\ Instr.next \in Nodes \cup {NULL}
         /\ Instr.op \in JumpOps => Instr.arg \in Nodes \cup {NULL}
         /\ Instr.op = "PUSH_I" => Instr.arg \in Ints
         /\ Instr.op = "ADDR" => Instr.arg \in DOMAIN prog.globals
         /\ Instr.op \in {"PUSH_F", "FPADDR_I", "FPADDR_F", "FPLOAD", "FPSTORE"} =>
              Instr.arg \in Int
         /\ Instr.op \in {"ENTER", "RET", "RET_VOID"} => Instr.arg \in Nat
  BY DEF TypeOK, WellLinked, Nodes, Instr

(* Replace(n, c) keeps the stack, its pointer and ip well typed.           *)
LEMMA ReplaceType ==
  ASSUME TypeOK, ip # NULL, NEW n \in Int, NEW c \in CellsOf(prog), Replace(n, c)
  PROVE  /\ ip' \in Nodes \cup {NULL}
         /\ stack' \in [Slots -> CellsOf(prog)]
         /\ sp' \in Int
<1>1. ip' \in Nodes \cup {NULL}
  BY InstrType DEF Replace
<1>2. stack' \in [Slots -> CellsOf(prog)]
  BY DEF TypeOK, Replace
<1>3. sp' \in Int
  BY DEF TypeOK, Replace
<1>4. QED
  BY <1>1, <1>2, <1>3

LEMMA TypeInit == Init => TypeOK
<1> SUFFICES ASSUME NEW p \in Programs, Started(p) PROVE TypeOK
  BY DEF Init
<1>1. WellLinked(prog)
  BY ProgramAssumption DEF Started
<1>2. ip \in Nodes \cup {NULL}
  BY <1>1 DEF Started, WellLinked, Nodes
<1>3. stack \in [Slots -> CellsOf(prog)] /\ mem \in [DOMAIN prog.globals -> CellsOf(prog)]
  BY CellKinds DEF Started
<1>4. QED
  BY <1>1, <1>2, <1>3 DEF Started, TypeOK, NoFrame

(* A step that keeps the program and gives the changed variables values of *)
(* their types keeps TypeOK.                                               *)
LEMMA TypeFrame ==
  ASSUME TypeOK, prog' = prog,
         ip' \in Nodes \cup {NULL}, stack' \in [Slots -> CellsOf(prog)],
         sp' \in Int, fp' \in Int, mem' \in [DOMAIN prog.globals -> CellsOf(prog)],
         out' \in Seq(CellsOf(prog)),
         status' \in {"running", "halted", "error", "undefined"}
  PROVE  TypeOK'
  BY DEF TypeOK, Nodes

LEMMA TypeStop ==
  ASSUME TypeOK, NEW s \in {"halted", "error", "undefined"}, Stop(s)
  PROVE  TypeOK'
  BY TypeFrame DEF TypeOK, Stop

(* The shape most instructions have: Replace and nothing else.             *)
LEMMA TypeReplace ==
  ASSUME TypeOK, ip # NULL, NEW n \in Int, NEW c \in CellsOf(prog), Replace(n, c),
         UNCHANGED <<prog, fp, mem, out, status>>
  PROVE  TypeOK'
<1>1. fp' \in Int /\ mem' \in [DOMAIN prog.globals -> CellsOf(prog)]
      /\ out' \in Seq(CellsOf(prog))
      /\ status' \in {"running", "halted", "error", "undefined"}
  BY DEF TypeOK
<1>2. QED
  BY <1>1, ReplaceType, TypeFrame

\* A cell a guard has found to be there.
LEMMA TopType ==
  ASSUME TypeOK, NEW k \in {0, 1}, Has(k + 1)
  PROVE  Top(k) \in CellsOf(prog)
  BY DEF TypeOK, Has, Top

LEMMA TopsType ==
  ASSUME TypeOK, Has(2)
  PROVE  Top(0) \in CellsOf(prog) /\ Top(1) \in CellsOf(prog)
<1>1. sp - 0 \in Slots /\ sp - 1 \in Slots
  BY DEF TypeOK, Has, Slots
<1>2. QED
  BY <1>1 DEF TypeOK, Top

LEMMA TypeNext == TypeOK /\ [Next]_vars => TypeOK'
<1> SUFFICES ASSUME TypeOK, [Next]_vars PROVE TypeOK'
  OBVIOUS
<1> USE CellKinds
<1>1. CASE FullStack \/ EmptyStack \/ OffTheStack \/ BadAccess \/ NullInstruction \/ Halt
  BY <1>1, TypeStop DEF FullStack, EmptyStack, OffTheStack, BadAccess, NullInstruction, Halt
<1>2. CASE PushInt
  BY <1>2, InstrType, TypeReplace DEF PushInt, At
<1>3. CASE PushDouble
  BY <1>3, InstrType, TypeReplace DEF PushDouble, At
<1>4. CASE Call
  <2>1. /\ ip' \in Nodes \cup {NULL}
        /\ InstrP(Instr.next) \in CellsOf(prog)
    BY <1>4, InstrType DEF Call, At, JumpOps, Nodes
  <2>2. stack' \in [Slots -> CellsOf(prog)] /\ sp' \in Int
    <3>1. stack' \in [Slots -> CellsOf(prog)]
      BY <1>4, <2>1 DEF Call, TypeOK
    <3>2. sp' \in Int
      BY <1>4 DEF Call, TypeOK
    <3>3. QED
      BY <3>1, <3>2
  <2>3. QED
    BY <1>4, <2>1, <2>2, TypeFrame DEF Call, TypeOK
<1>5. CASE CallExt
  <2>1. ip' \in Nodes \cup {NULL}
    BY <1>5, InstrType DEF CallExt, At
  <2>2. Top(0) \in CellsOf(prog)
    BY <1>5, TopType DEF CallExt
  <2>3. PICK v \in IF Instr.arg = PutInt THEN {Int32(i) : i \in AsInt(Top(0))}
                                        ELSE {Double(d) : d \in AsDouble(Top(0))} :
          out' = Append(out, v)
    BY <1>5 DEF CallExt
  <2>4. v \in CellsOf(prog)
    BY <2>2, <2>3, AsIntType, AsDoubleType
  <2>5. out' \in Seq(CellsOf(prog))
    BY <2>3, <2>4 DEF TypeOK
  <2>6. QED
    BY <1>5, <2>1, <2>5, TypeFrame DEF CallExt, TypeOK
<1>6. CASE Enter
  <2>1. ip' \in Nodes \cup {NULL} /\ Instr.arg \in Int
    BY <1>6, InstrType DEF Enter, At
  <2>2. stack' \in [Slots -> CellsOf(prog)] /\ sp' \in Int /\ fp' \in Int
    <3>1. StackP(fp) \in CellsOf(prog)
      BY DEF TypeOK
    <3>2. stack' \in [Slots -> CellsOf(prog)]
      BY <1>6, <3>1 DEF Enter, TypeOK
    <3>3. sp' \in Int /\ fp' \in Int
      BY <1>6, <2>1 DEF Enter, TypeOK
    <3>4. QED
      BY <3>2, <3>3
  <2>3. QED
    BY <1>6, <2>1, <2>2, TypeFrame DEF Enter, TypeOK
<1>7. CASE RetVoid
  <2>1. stack[fp - 1] \in CellsOf(prog) /\ stack[fp] \in CellsOf(prog)
    BY <1>7 DEF RetVoid, FrameOK, TypeOK
  <2>2. ip' \in Nodes \cup {NULL} /\ fp' \in Int
    BY <1>7, <2>1, CellFields DEF RetVoid, FrameOK, Nodes
  <2>3. sp' \in Int
    BY <1>7, InstrType DEF RetVoid, At, TypeOK
  <2>4. QED
    BY <1>7, <2>2, <2>3, TypeFrame DEF RetVoid, TypeOK
<1>8. CASE Ret
  <2>1. stack[fp - 1] \in CellsOf(prog) /\ stack[fp] \in CellsOf(prog)
    BY <1>8 DEF Ret, FrameOK, TypeOK
  <2>2. ip' \in Nodes \cup {NULL} /\ fp' \in Int
    BY <1>8, <2>1, CellFields DEF Ret, FrameOK, Nodes
  <2>3. sp' \in Int
    BY <1>8, InstrType DEF Ret, At, TypeOK
  <2>4. Top(0) \in CellsOf(prog)
    BY <1>8, TopType DEF Ret
  <2>5. stack' \in [Slots -> CellsOf(prog)]
    BY <1>8, <2>4 DEF Ret, TypeOK
  <2>6. QED
    BY <1>8, <2>2, <2>3, <2>5, TypeFrame DEF Ret, TypeOK
<1>9. CASE Jump
  BY <1>9, InstrType, TypeFrame DEF Jump, At, JumpOps, TypeOK
<1>10. CASE JumpIf
  <2>1. ip' \in Nodes \cup {NULL}
    BY <1>10, InstrType DEF JumpIf, At, JumpOps
  <2>2. QED
    BY <1>10, <2>1, TypeFrame DEF JumpIf, TypeOK
<1>11. CASE FpLoad
  <2>1. stack[Slot] \in CellsOf(prog)
    BY <1>11 DEF FpLoad, SlotOK, TypeOK
  <2>2. QED
    BY <1>11, <2>1, TypeReplace DEF FpLoad, At
<1>12. CASE FpStore
  <2>1. ip' \in Nodes \cup {NULL}
    BY <1>12, InstrType DEF FpStore, At
  <2>2. Top(0) \in CellsOf(prog)
    BY <1>12, TopType DEF FpStore
  <2>3. stack' \in [Slots -> CellsOf(prog)] /\ sp' \in Int
    <3>1. stack' \in [Slots -> CellsOf(prog)]
      BY <1>12, <2>2 DEF FpStore, TypeOK
    <3>2. sp' \in Int
      BY <1>12 DEF FpStore, TypeOK
    <3>3. QED
      BY <3>1, <3>2
  <2>4. QED
    BY <1>12, <2>1, <2>3, TypeFrame DEF FpStore, TypeOK
<1>13. CASE IntArithmetic
  <2>1. PICK a \in AsInt(Top(1)), b \in AsInt(Top(0)) :
          Replace(2, Int32(IntResult(Instr.op, a, b)))
    BY <1>13 DEF IntArithmetic
  <2>2. a \in Ints /\ b \in Ints
    BY <1>13, <2>1, TopsType, AsIntType DEF IntArithmetic
  <2>3. Int32(IntResult(Instr.op, a, b)) \in CellsOf(prog)
    BY <1>13, <2>2, IntResultType DEF IntArithmetic, At
  <2>4. QED
    BY <1>13, <2>1, <2>3, TypeReplace DEF IntArithmetic, At
<1>14. CASE IntDivision
  <2>1. PICK a \in AsInt(Top(1)), b \in AsInt(Top(0)) :
          \/ Stop("error") \/ Stop("undefined")
          \/ /\ Quotient(a, b) \in Ints
             /\ Replace(2, Int32(Quotient(a, b)))
             /\ UNCHANGED <<prog, fp, mem, out, status>>
    BY <1>14 DEF IntDivision
  <2>2. CASE Stop("error") \/ Stop("undefined")
    BY <2>2, TypeStop
  <2>3. CASE /\ Quotient(a, b) \in Ints
             /\ Replace(2, Int32(Quotient(a, b)))
             /\ UNCHANGED <<prog, fp, mem, out, status>>
    BY <1>14, <2>3, TypeReplace DEF IntDivision, At
  <2>4. QED
    BY <2>1, <2>2, <2>3
<1>15. CASE DoubleArithmetic
  <2>1. PICK a \in AsDouble(Top(1)), b \in AsDouble(Top(0)) :
          \E c \in DblResult(Instr.op, a, b) : Replace(2, c)
    BY <1>15 DEF DoubleArithmetic
  <2>2. a \in Int /\ b \in Int
    BY <1>15, <2>1, TopsType, AsDoubleType DEF DoubleArithmetic
  <2>3. DblResult(Instr.op, a, b) \subseteq CellsOf(prog)
    BY <1>15, <2>2, DblResultType DEF DoubleArithmetic, At
  <2>4. QED
    BY <1>15, <2>1, <2>3, TypeReplace DEF DoubleArithmetic, At
<1>16. CASE ConvIntToDouble
  <2>1. PICK i \in AsInt(Top(0)) : Replace(1, Double(DoubleOf(i)))
    BY <1>16 DEF ConvIntToDouble
  <2>2. Double(DoubleOf(i)) \in CellsOf(prog)
    BY <1>16, <2>1, TopType, AsIntType DEF ConvIntToDouble, DoubleOf, Ints
  <2>3. QED
    BY <1>16, <2>1, <2>2, TypeReplace DEF ConvIntToDouble, At
<1>17. CASE ConvDoubleToInt
  <2>1. PICK d \in AsDouble(Top(0)) : \E i \in IntOf(d) : Replace(1, Int32(i))
    BY <1>17 DEF ConvDoubleToInt
  <2>2. QED
    BY <1>17, <2>1, IntOfType, TypeReplace DEF ConvDoubleToInt, At
<1>18. CASE PushAddress
  <2>1. CASE At({"ADDR"}) /\ Replace(0, GlobalP(Instr.arg))
    BY <1>18, <2>1, InstrType, TypeReplace DEF PushAddress, At
  <2>2. CASE At({"FPADDR_I", "FPADDR_F"}) /\ Replace(0, StackP(Slot))
    <3>1. Slot \in Int
      BY <2>2, InstrType DEF At, Slot, TypeOK
    <3>2. QED
      BY <1>18, <2>2, <3>1, TypeReplace DEF PushAddress, At
  <2>3. QED
    BY <1>18, <2>1, <2>2 DEF PushAddress
<1>19. CASE Load
  <2>1. Contents(Top(0)) \in CellsOf(prog)
    BY <1>19, TopType, CellFields DEF Load, Readable, Contents, TypeOK
  <2>2. AsInt(Contents(Top(0))) \subseteq Ints /\ AsDouble(Contents(Top(0))) \subseteq Int
    BY <2>1, AsIntType, AsDoubleType
  <2>3. CASE \E i \in AsInt(Contents(Top(0))) : Replace(1, Int32(i))
    BY <1>19, <2>2, <2>3, TypeReplace DEF Load, At
  <2>4. CASE \E d \in AsDouble(Contents(Top(0))) : Replace(1, Double(d))
    BY <1>19, <2>2, <2>4, TypeReplace DEF Load, At
  <2>5. QED
    BY <1>19, <2>3, <2>4 DEF Load
<1>20. CASE Store
  <2>1. Top(0) \in CellsOf(prog) /\ Top(1) \in CellsOf(prog)
    BY <1>20, TopsType DEF Store
  <2>2. PICK c \in IF Instr.op = "STORE_I" THEN {Int32(i) : i \in AsInt(Top(0))}
                                          ELSE {Double(d) : d \in AsDouble(Top(0))} :
          \/ /\ stack' = [stack EXCEPT ![Top(1).val] = c, ![sp - 1] = c]
             /\ mem' = mem
          \/ /\ mem' = [mem EXCEPT ![Top(1).val] = c]
             /\ stack' = [stack EXCEPT ![sp - 1] = c]
    BY <1>20 DEF Store
  <2>3. c \in CellsOf(prog)
    BY <2>1, <2>2, AsIntType, AsDoubleType
  <2>4. stack' \in [Slots -> CellsOf(prog)]
    BY <2>2, <2>3 DEF TypeOK
  <2>5. mem' \in [DOMAIN prog.globals -> CellsOf(prog)]
    BY <2>2, <2>3 DEF TypeOK
  <2>6. ip' \in Nodes \cup {NULL} /\ sp' \in Int
    BY <1>20, InstrType DEF Store, At, TypeOK
  <2>7. QED
    BY <1>20, <2>4, <2>5, <2>6, TypeFrame DEF Store, TypeOK
<1>21. CASE Drop
  BY <1>21, InstrType, TypeFrame DEF Drop, At, TypeOK
<1>22. CASE Nop
  BY <1>22, InstrType, TypeFrame DEF Nop, At, TypeOK
<1>23. CASE UNCHANGED vars
  BY <1>23, TypeFrame DEF vars, TypeOK
<1>24. QED
  BY <1>1, <1>2, <1>3, <1>4, <1>5, <1>6, <1>7, <1>8, <1>9, <1>10, <1>11, <1>12, <1>13,
     <1>14, <1>15, <1>16, <1>17, <1>18, <1>19, <1>20, <1>21, <1>22, <1>23 DEF Next

(* Type correctness of the machine: whatever program of the library runs,  *)
(* ip is a node of it or NULL, and every cell holds a value of its tag.    *)
THEOREM TypeCorrect == Spec => []TypeOK
<1>1. QED
  BY TypeInit, TypeNext, PTL DEF Spec

-----------------------------------------------------------------------------
(* The stack pointer and the end of the array.                             *)

(* A step that leaves the pointer inside the array establishes the         *)
(* property, one that leaves both pointers alone keeps it.                 *)
LEMMA InsideLeft ==
  ASSUME sp' \in Int, sp' < StackSize
  PROVE  LeftByLocals'
  BY DEF LeftByLocals

LEMMA SameLeft ==
  ASSUME LeftByLocals, UNCHANGED <<prog, sp, fp>>
  PROVE  LeftByLocals'
  BY DEF LeftByLocals, Nodes

LEMMA LeftNext == TypeOK /\ LeftByLocals /\ [Next]_vars => LeftByLocals'
<1> SUFFICES ASSUME TypeOK, LeftByLocals, [Next]_vars PROVE LeftByLocals'
  OBVIOUS
<1>1. sp \in Int /\ fp \in Int
  BY DEF TypeOK
<1>2. CASE \/ FullStack \/ EmptyStack \/ OffTheStack \/ BadAccess \/ NullInstruction \/ Halt
           \/ Jump \/ Nop \/ UNCHANGED vars
  BY <1>2, SameLeft
     DEF FullStack, EmptyStack, OffTheStack, BadAccess, NullInstruction, Halt, Stop, Jump, Nop, vars
<1>3. CASE PushInt \/ PushDouble \/ Call \/ FpLoad \/ PushAddress
  <2>1. sp + 1 \in Slots /\ sp' = sp + 1
    BY <1>1, <1>3 DEF PushInt, PushDouble, Call, FpLoad, PushAddress, Room, Replace
  <2>2. QED
    BY <2>1, InsideLeft DEF Slots
<1>4. CASE CallExt \/ JumpIf \/ FpStore \/ Drop \/ Store
  <2>1. sp \in Slots /\ sp' = sp - 1
    BY <1>4 DEF CallExt, JumpIf, FpStore, Drop, Store, Has
  <2>2. QED
    BY <2>1, InsideLeft DEF Slots
<1>5. CASE IntArithmetic \/ DoubleArithmetic
  <2>1. sp \in Slots /\ sp' = sp - 1
    BY <1>1, <1>5 DEF IntArithmetic, DoubleArithmetic, Has, Replace
  <2>2. QED
    BY <2>1, InsideLeft DEF Slots
<1>6. CASE IntDivision
  <2>1. UNCHANGED <<prog, sp, fp>> \/ (sp \in Slots /\ sp' = sp - 1)
    BY <1>1, <1>6 DEF IntDivision, Has, Replace, Stop
  <2>2. QED
    BY <2>1, SameLeft, InsideLeft DEF Slots
<1>7. CASE ConvIntToDouble \/ ConvDoubleToInt \/ Load
  <2>1. sp \in Slots /\ sp' = sp
    BY <1>1, <1>7 DEF ConvIntToDouble, ConvDoubleToInt, Load, Has, Replace
  <2>2. QED
    BY <2>1, InsideLeft DEF Slots
<1>8. CASE Enter
  <2>1. ip \in Nodes /\ Instr.arg \in Nat
    BY <1>8, InstrType DEF Enter, At, TypeOK
  <2>2. sp + 1 < StackSize /\ sp' = sp + 1 + Instr.arg /\ prog' = prog
    BY <1>8 DEF Enter, Room, Slots
  <2>3. fp' = sp + 1 /\ fp' \in Slots'
    BY <1>1, <1>8, <2>2 DEF Enter, Room, Slots
  <2>4. prog'.code[ip].op = "ENTER" /\ ip \in Nodes' /\ sp' = fp' + prog'.code[ip].arg
    BY <1>1, <1>8, <2>1, <2>2, <2>3 DEF Enter, At, Instr, Nodes
  <2>5. QED
    BY <2>3, <2>4 DEF LeftByLocals
<1>9. CASE RetVoid \/ Ret
  <2>1. Instr.arg \in Nat /\ fp < StackSize
    BY <1>9, InstrType DEF RetVoid, Ret, At, FrameOK, Slots
  <2>2. sp' = fp - Instr.arg - 2 \/ sp' = fp - Instr.arg - 1
    BY <1>9 DEF RetVoid, Ret
  <2>3. QED
    BY <1>1, <2>1, <2>2, InsideLeft
<1>10. QED
  BY <1>2, <1>3, <1>4, <1>5, <1>6, <1>7, <1>8, <1>9 DEF Next

(* Whatever program runs and however deep it recurses, a stack pointer     *)
(* behind the end of the array has been put there by one ENTER, from       *)
(* inside the array, until the first access outside ends what is defined.  *)
THEOREM LeftOnlyByLocals == Spec => []LeftByLocals
<1>1. Init => LeftByLocals
  BY SizeAssumption DEF Init, Started, LeftByLocals
<1>2. QED
  BY <1>1, TypeCorrect, LeftNext, PTL DEF Spec

(* Whatever program without locals runs and however deep it recurses, the  *)
(* stack pointer stays in the array.                                       *)
THEOREM NeverLeftWithoutLocals == Spec => []ChecksSuffice
<1>1. TypeOK /\ LeftByLocals => ChecksSuffice
  BY DEF TypeOK, LeftByLocals, ChecksSuffice, WithoutLocals, Slots
<1>2. QED
  BY <1>1, TypeCorrect, LeftOnlyByLocals, PTL
-----------------------------------------------------------------------------
(* The frames of a conventional program.  v[1] .. v[n] are the frame       *)
(* pointers of the functions called and not returned; when one is about to *)
(* ENTER, the last is where it will put its own.  Index 0 is the code that *)
(* main() runs.                                                            *)

Base(v, k) == IF k = 0 THEN NoFrame ELSE v[k]

\* Where frame k goes on when those above it have returned, and its function.
Node(v, n, k) == IF k = n THEN ip ELSE stack[v[k + 1] - 1].val
Fn(v, n, k) == prog.frame[Node(v, n, k)]

\* The operands that frame k has now: those it will go on with, less the result.
Operands(v, n, k) ==
  prog.depth[Node(v, n, k)] - (IF k = n THEN 0 ELSE Fn(v, n, k + 1).results)

\* Frame k reaches from its first parameter to its last operand.
First(v, n, k) == Base(v, k) - 1 - Fn(v, n, k).params
End(v, n, k) == Base(v, k) + Fn(v, n, k).locals + Operands(v, n, k)

\* The parameters and locals of a frame with base b.
Own(f, b) == (b - 1 - f.params .. b - 2) \cup (b + 1 .. b + f.locals)
Address(c, f, b) == c.tag = "global" \/ (c.tag = "stack" /\ c.val \in Own(f, b) \cap Slots)

Frame(v, n, k) ==
  /\ Node(v, n, k) \in Nodes
  /\ k < n => prog.code[Node(v, n, k)].op # "ENTER"
  /\ Fn(v, n, k).function = (k > 0)
  /\ Operands(v, n, k) \in Nat
  /\ \A a \in prog.addrs[Node(v, n, k)] :
       /\ a <= Operands(v, n, k)
       /\ Address(stack[Base(v, k) + Fn(v, n, k).locals + a], Fn(v, n, k), Base(v, k))

Linked(v, n, k) ==
  /\ v[k] - 1 \in Slots /\ stack[v[k] - 1].tag = "instr"
  /\ (k = n /\ Entering) \/ (v[k] \in Slots /\ stack[v[k]] = StackP(Base(v, k - 1)))
  /\ First(v, n, k) = End(v, n, k - 1) + 1
  /\ \A i \in 1 .. k - 1 : v[i] < First(v, n, k)

Layout(v, n) ==
  /\ \A k \in 0 .. n : Frame(v, n, k)
  /\ \A k \in 1 .. n : Linked(v, n, k)
  /\ IF Entering THEN n > 0 /\ fp = Base(v, n - 1) /\ sp = v[n] - 1
     ELSE fp = Base(v, n) /\ sp = End(v, n, n) /\ (Operands(v, n, n) > 0 => sp \in Slots)

Framed == Conventional(prog) => \E v \in [Nat -> Int], n \in Nat : Layout(v, n)
-----------------------------------------------------------------------------
(* The chain of frame pointers.                                            *)

LEMMA FirstPlace ==
  ASSUME NEW S, S \subseteq Nat, S # {}
  PROVE  \E x \in S : \A y \in S : x <= y
<1>1. PICK x \in S : \A y \in S : ~ (<<y, x>> \in OpToRel(<, Nat))
  BY NatLessThanWellFounded, WFMin
<1>2. ASSUME NEW y \in S PROVE x <= y
  <2>1. ~ (y < x)
    BY <1>1 DEF OpToRel
  <2>2. QED BY <2>1
<1>3. QED BY <1>2

Saved(f) == stack[f].tag = "stack" /\ stack[f].val \in NoFrame .. f - 2

ChainStep(g, f) ==
  IF f = NoFrame THEN <<>>
  ELSE IF Saved(f) THEN Append(g[stack[f].val], f) ELSE <<f>>

IsChain(g, m) == g = [f \in NoFrame .. m |-> ChainStep(g, f)]

(* A chain up to one place can be carried on to the next, since a saved    *)
(* frame pointer counts only if it points further down.                    *)
LEMMA ChainGrows ==
  ASSUME NEW m \in Nat, NEW g, IsChain(g, m - 1)
  PROVE  \E h : IsChain(h, m)
<1> DEFINE h == [f \in NoFrame .. m |-> IF f = m THEN ChainStep(g, m) ELSE g[f]]
<1>1. ASSUME NEW f \in NoFrame .. m PROVE ChainStep(h, f) = ChainStep(g, f)
  <2>1. CASE f # NoFrame /\ Saved(f)
    <3>1. stack[f].val \in NoFrame .. m /\ stack[f].val # m
      BY <2>1 DEF Saved, NoFrame
    <3>2. h[stack[f].val] = g[stack[f].val]
      BY <3>1
    <3> HIDE DEF h
    <3>3. QED BY <3>2 DEF ChainStep
  <2>2. CASE ~ (f # NoFrame /\ Saved(f))
    BY <2>2 DEF ChainStep
  <2>3. QED BY <2>1, <2>2
<1>2. ASSUME NEW f \in NoFrame .. m PROVE h[f] = ChainStep(h, f)
  <2>1. CASE f = m
    BY <1>1, <2>1
  <2>2. CASE f # m
    <3>1. f \in NoFrame .. m - 1
      BY <2>2 DEF NoFrame
    <3>2. g[f] = ChainStep(g, f)
      BY <3>1 DEF IsChain
    <3>3. h[f] = g[f]
      BY <2>2
    <3> HIDE DEF h
    <3>4. QED BY <1>1, <3>2, <3>3
  <2>3. QED BY <2>1, <2>2
<1>3. h = [f \in NoFrame .. m |-> h[f]]
  OBVIOUS
<1> HIDE DEF h
<1>4. [f \in NoFrame .. m |-> h[f]] = [f \in NoFrame .. m |-> ChainStep(h, f)]
  BY <1>2
<1>5. QED BY <1>3, <1>4 DEF IsChain

LEMMA ChainExists == \A m \in Nat : \E g : IsChain(g, m - 1)
<1> DEFINE Without == {m \in Nat : ~ \E g : IsChain(g, m - 1)}
<1>1. ASSUME Without # {} PROVE FALSE
  <2>1. PICK m \in Without : \A k \in Without : m <= k
    <3> HIDE DEF Without
    <3>1. Without \subseteq Nat
      BY DEF Without
    <3>2. QED BY <1>1, <3>1, FirstPlace
  <2>2. m \in Nat /\ ~ \E g : IsChain(g, m - 1)
    BY <2>1
  <2>3. CASE m = 0
    <3> DEFINE g == [f \in NoFrame .. -1 |-> <<>>]
    <3>1. \A f \in NoFrame .. -1 : f = NoFrame
      BY DEF NoFrame
    <3>2. \A f \in NoFrame .. -1 : ChainStep(g, f) = <<>>
      BY <3>1, Zenon DEF ChainStep
    <3>3. [f \in NoFrame .. -1 |-> ChainStep(g, f)] = [f \in NoFrame .. -1 |-> <<>>]
      BY <3>2, Zenon
    <3>4. g = [f \in NoFrame .. -1 |-> ChainStep(g, f)]
      BY <3>3, Zenon
    <3> HIDE DEF g
    <3>5. IsChain(g, -1)
      BY <3>4 DEF IsChain
    <3>6. QED BY <2>2, <2>3, <3>5
  <2>4. CASE m # 0
    <3>1. m - 1 \in Nat /\ ~ (m <= m - 1)
      BY <2>2, <2>4
    <3>2. m - 1 \notin Without
      BY <2>1, <3>1
    <3>3. PICK g : IsChain(g, (m - 1) - 1)
      BY <3>1, <3>2
    <3>4. QED BY <2>2, <3>1, <3>3, ChainGrows
  <2>5. QED BY <2>3, <2>4
<1>2. QED BY <1>1

LEMMA ChainUnfolds ==
  /\ Chain[NoFrame] = <<>>
  /\ \A f \in Slots :
       Chain[f] = IF Saved(f) THEN Append(Chain[stack[f].val], f) ELSE <<f>>
<1>1. Chain = CHOOSE g : g = [f \in {NoFrame} \cup Slots |-> ChainStep(g, f)]
  BY Zenon DEF Chain, ChainStep, Saved
<1>2. {NoFrame} \cup Slots = NoFrame .. StackSize - 1
  BY DEF NoFrame, Slots
<1>3. PICK g : IsChain(g, StackSize - 1)
  BY ChainExists
<1>4. g = [f \in {NoFrame} \cup Slots |-> ChainStep(g, f)]
  BY <1>2, <1>3 DEF IsChain
<1>5. Chain = [f \in {NoFrame} \cup Slots |-> ChainStep(Chain, f)]
  BY <1>1, <1>4, Zenon
<1>6. \A f \in {NoFrame} \cup Slots : Chain[f] = ChainStep(Chain, f)
  BY <1>5, Zenon
<1>7. \A f \in Slots : f # NoFrame
  BY DEF NoFrame, Slots
<1>8. QED BY <1>6, <1>7, Zenon DEF ChainStep
-----------------------------------------------------------------------------
(* What the convention and the layout say of a node and of a frame.        *)

LEMMA NodeFacts ==
  ASSUME Conventional(prog), NEW i \in Nodes
  PROVE  /\ prog.frame[i].function \in BOOLEAN
         /\ prog.frame[i].params \in Nat /\ prog.frame[i].locals \in Nat
         /\ prog.frame[i].results \in {0, 1}
         /\ prog.depth[i] \in Nat /\ prog.addrs[i] \subseteq 1 .. prog.depth[i]
         /\ ~ prog.frame[i].function => prog.frame[i].params = 0 /\ prog.frame[i].locals = 0
         /\ Allowed(prog, i)
         /\ \A j \in Successors(prog, i) : Flows(prog, i, j)
<1>1. prog.frame[i] \in [function : BOOLEAN, params : Nat, locals : Nat, results : {0, 1}]
  BY DEF Conventional, Described, Nodes
<1>2. prog.depth[i] \in Nat /\ prog.addrs[i] \subseteq 1 .. prog.depth[i]
  BY DEF Conventional, Described, Nodes
<1>3. ~ prog.frame[i].function => prog.frame[i].params = 0 /\ prog.frame[i].locals = 0
  BY DEF Conventional, Described, Nodes
<1>4. Allowed(prog, i) /\ \A j \in Successors(prog, i) : Flows(prog, i, j)
  BY DEF Conventional, Nodes
<1>5. QED BY <1>1, <1>2, <1>3, <1>4

LEMMA FnFacts ==
  ASSUME Conventional(prog), NEW v \in [Nat -> Int], NEW n \in Nat, Layout(v, n), NEW k \in 0 .. n
  PROVE  /\ Node(v, n, k) \in Nodes
         /\ Fn(v, n, k).params \in Nat /\ Fn(v, n, k).locals \in Nat
         /\ Fn(v, n, k).results \in {0, 1}
         /\ k = 0 => Fn(v, n, k).params = 0 /\ Fn(v, n, k).locals = 0
         /\ Operands(v, n, k) \in Nat
         /\ Base(v, k) \in Int /\ First(v, n, k) \in Int /\ End(v, n, k) \in Int
         /\ Base(v, k) <= End(v, n, k)
         /\ k > 0 => First(v, n, k) <= v[k] - 1
<1>1. Frame(v, n, k)
  BY DEF Layout
<1>2. Node(v, n, k) \in Nodes /\ Operands(v, n, k) \in Nat /\ Fn(v, n, k).function = (k > 0)
  BY <1>1 DEF Frame
<1>3. /\ Fn(v, n, k).params \in Nat /\ Fn(v, n, k).locals \in Nat
      /\ Fn(v, n, k).results \in {0, 1}
      /\ k = 0 => Fn(v, n, k).params = 0 /\ Fn(v, n, k).locals = 0
  BY <1>2, NodeFacts DEF Fn
<1>4. Base(v, k) \in Int /\ (k > 0 => Base(v, k) = v[k])
  BY DEF Base, NoFrame
<1>5. First(v, n, k) = Base(v, k) - 1 - Fn(v, n, k).params
  BY DEF First
<1>6. End(v, n, k) = Base(v, k) + Fn(v, n, k).locals + Operands(v, n, k)
  BY DEF End
<1>7. QED BY <1>2, <1>3, <1>4, <1>5, <1>6

(* Frames follow each other without touching, and lie in the array up to   *)
(* the saved frame pointer of the last.                                    *)
LEMMA FramesInOrder ==
  ASSUME Conventional(prog), NEW v \in [Nat -> Int], NEW n \in Nat, Layout(v, n)
  PROVE  /\ \A k \in 1 .. n : v[k] - 1 \in Slots /\ 0 <= First(v, n, k)
         /\ \A k \in 1 .. n : First(v, n, k) = End(v, n, k - 1) + 1
         /\ \A k \in 1 .. n : \A i \in 1 .. k - 1 : v[i] < First(v, n, k)
         /\ \A k \in 1 .. n : \A i \in 0 .. k - 1 : End(v, n, i) < First(v, n, k)
         /\ \A k \in 0 .. n : NoFrame <= Base(v, k)
<1>1. \A k \in 1 .. n : Linked(v, n, k)
  BY DEF Layout
<1>2. \A k \in 1 .. n : /\ v[k] - 1 \in Slots
                        /\ First(v, n, k) = End(v, n, k - 1) + 1
                        /\ \A i \in 1 .. k - 1 : v[i] < First(v, n, k)
  BY <1>1 DEF Linked
<1>3. \A k \in 0 .. n : NoFrame <= Base(v, k)
  <2>1. TAKE k \in 0 .. n
  <2>2. CASE k = 0
    BY <2>2 DEF Base, NoFrame
  <2>3. CASE k # 0
    <3>1. v[k] - 1 \in 0 .. StackSize - 1 /\ v[k] \in Int
      BY <1>2, <2>3 DEF Slots
    <3>2. QED BY <2>3, <3>1 DEF Base, NoFrame
  <2>4. QED BY <2>2, <2>3
<1>4. ASSUME NEW k \in 1 .. n PROVE 0 <= First(v, n, k)
  <2>1. k - 1 \in 0 .. n
    OBVIOUS
  <2>2. NoFrame <= Base(v, k - 1) /\ Base(v, k - 1) <= End(v, n, k - 1)
    BY <1>3, <2>1, FnFacts
  <2>3. Base(v, k - 1) \in Int /\ End(v, n, k - 1) \in Int
    BY <2>1, FnFacts
  <2>4. First(v, n, k) = End(v, n, k - 1) + 1
    BY <1>2
  <2>5. QED BY <2>2, <2>3, <2>4 DEF NoFrame
<1>5. ASSUME NEW k \in 1 .. n, NEW i \in 0 .. k - 1 PROVE End(v, n, i) < First(v, n, k)
  <2>1. End(v, n, i) \in Int /\ First(v, n, k) \in Int
    BY FnFacts
  <2>2. CASE i = k - 1
    BY <1>2, <2>1, <2>2
  <2>3. CASE i # k - 1
    <3>1. i + 1 \in 1 .. n /\ i + 1 \in 1 .. k - 1 /\ (i + 1) - 1 = i
      BY <2>3
    <3>2. First(v, n, i + 1) = End(v, n, i) + 1
      BY <1>2, <3>1
    <3>3. First(v, n, i + 1) <= v[i + 1] - 1 /\ v[i + 1] \in Int
      BY <3>1, FnFacts
    <3>4. v[i + 1] < First(v, n, k)
      BY <1>2, <3>1
    <3>5. QED BY <2>1, <3>2, <3>3, <3>4
  <2>4. QED BY <2>2, <2>3
<1>6. QED BY <1>2, <1>3, <1>4, <1>5
-----------------------------------------------------------------------------
(* The frames of CallStack, where the layout has them.                     *)

\* The frame that runs: the callee's is not there before its ENTER.
Current(n) == IF Entering THEN n - 1 ELSE n

Segment(st, from, to) ==
  [i \in 1 .. to - from + 1 |-> IF from + i - 1 \in Slots THEN st[from + i - 1] ELSE Raw]

ReturnTo(v, n, k) == IF k = 0 THEN 0 ELSE Node(v, n, k - 1)
Args(v, n, k) == IF k = 0 THEN <<>> ELSE Segment(stack, First(v, n, k), v[k] - 2)
Reach(v, n, k) == IF k = Current(n) THEN sp ELSE End(v, n, k)

FrameAt(v, n, k) ==
  [ret   |-> ReturnTo(v, n, k),
   args  |-> Args(v, n, k),
   cells |-> Segment(stack, Base(v, k) + 1, Reach(v, n, k))]

LEMMA CurrentType ==
  ASSUME NEW v \in [Nat -> Int], NEW n \in Nat, Layout(v, n)
  PROVE  Current(n) \in 0 .. n /\ fp = Base(v, Current(n))
  BY DEF Current, Layout

LEMMA SavedLaid ==
  ASSUME Conventional(prog), NEW v \in [Nat -> Int], NEW n \in Nat, Layout(v, n),
         NEW k \in 1 .. Current(n)
  PROVE  v[k] \in Slots /\ Saved(v[k]) /\ stack[v[k]].val = Base(v, k - 1)
<1>1. k \in 1 .. n /\ ~ (k = n /\ Entering) /\ k - 1 \in 0 .. n
  BY CurrentType DEF Current
<1>2. v[k] \in Slots /\ stack[v[k]] = StackP(Base(v, k - 1))
  BY <1>1 DEF Layout, Linked
<1>3. NoFrame <= Base(v, k - 1) /\ Base(v, k - 1) <= End(v, n, k - 1)
  BY <1>1, FnFacts, FramesInOrder
<1>4. First(v, n, k) = End(v, n, k - 1) + 1 /\ First(v, n, k) <= v[k] - 1
  BY <1>1, FnFacts, FramesInOrder
<1>5. Base(v, k - 1) \in Int /\ End(v, n, k - 1) \in Int /\ v[k] \in Int
  BY <1>1, FnFacts
<1>6. Base(v, k - 1) \in NoFrame .. v[k] - 2
  BY <1>3, <1>4, <1>5 DEF NoFrame
<1>7. QED BY <1>2, <1>6 DEF Saved, StackP

LEMMA ChainLaid ==
  ASSUME Conventional(prog), NEW v \in [Nat -> Int], NEW n \in Nat, Layout(v, n)
  PROVE  \A k \in 0 .. Current(n) : Chain[Base(v, k)] = [i \in 1 .. k |-> v[i]]
<1> DEFINE Wrong == {k \in 0 .. Current(n) : Chain[Base(v, k)] # [i \in 1 .. k |-> v[i]]}
<1>1. ASSUME Wrong # {} PROVE FALSE
  <2>1. PICK k \in Wrong : \A i \in Wrong : k <= i
    <3>1. Wrong \subseteq Nat
      OBVIOUS
    <3> HIDE DEF Wrong
    <3>2. QED BY <1>1, <3>1, FirstPlace
  <2>2. k \in 0 .. Current(n) /\ Chain[Base(v, k)] # [i \in 1 .. k |-> v[i]]
    BY <2>1
  <2>3. CASE k = 0
    <3>1. Base(v, 0) = NoFrame
      BY DEF Base
    <3>2. [i \in 1 .. 0 |-> v[i]] = <<>>
      OBVIOUS
    <3>3. QED BY <2>2, <2>3, <3>1, <3>2, ChainUnfolds
  <2>4. CASE k # 0
    <3>1. k \in 1 .. Current(n) /\ k - 1 \in 0 .. Current(n) /\ ~ (k <= k - 1)
      BY <2>2, <2>4, CurrentType
    <3>2. Chain[Base(v, k - 1)] = [i \in 1 .. k - 1 |-> v[i]]
      BY <2>1, <3>1
    <3>3. Chain[v[k]] = Append(Chain[Base(v, k - 1)], v[k])
      <4>1. v[k] \in Slots /\ Saved(v[k]) /\ stack[v[k]].val = Base(v, k - 1)
        BY <3>1, SavedLaid
      <4>2. QED BY <4>1, ChainUnfolds, Zenon
    <3>4. Base(v, k) = v[k]
      BY <2>4 DEF Base
    <3>5. Append([i \in 1 .. k - 1 |-> v[i]], v[k]) = [i \in 1 .. k |-> v[i]]
      BY <3>1, CurrentType
    <3>6. QED BY <2>2, <3>2, <3>3, <3>4, <3>5
  <2>5. QED BY <2>3, <2>4
<1>2. QED BY <1>1

LEMMA ResumeLaid ==
  ASSUME NEW v \in [Nat -> Int], NEW n \in Nat, Layout(v, n)
  PROVE  Resume = Node(v, n, Current(n))
<1>1. CASE Entering
  <2>1. n > 0 /\ sp = v[n] - 1 /\ v[n] - 1 \in Slots
    BY <1>1 DEF Layout, Linked
  <2>2. Current(n) = n - 1 /\ n - 1 # n /\ (n - 1) + 1 = n
    BY <1>1, <2>1 DEF Current
  <2>3. QED BY <1>1, <2>1, <2>2 DEF Resume, Cell, Node
<1>2. CASE ~ Entering
  BY <1>2 DEF Resume, Node, Current
<1>3. QED BY <1>1, <1>2

LEMMA FramesLaid ==
  ASSUME Conventional(prog), NEW v \in [Nat -> Int], NEW n \in Nat, Layout(v, n)
  PROVE  Frames = [j \in 1 .. Current(n) + 1 |-> FrameAt(v, n, j - 1)]
<1> DEFINE m       == Current(n)
           fps     == Chain[fp]
           at      == [k \in 0 .. Len(fps) |-> IF k = Len(fps) THEN Resume ELSE Cell(fps[k + 1] - 1).val]
           args    == [k \in 0 .. Len(fps) |-> IF k = 0 THEN 0 ELSE Params(at[k])]
           last    == [k \in 0 .. Len(fps) |->
                         IF k = Len(fps) THEN sp ELSE fps[k + 1] - 2 - args[k + 1]]
           frame(k) ==
             [ret   |-> IF k = 0 THEN 0 ELSE Cell(fps[k] - 1).val,
              args  |-> IF k = 0 THEN <<>> ELSE Cells(fps[k] - 1 - args[k], fps[k] - 2),
              cells |-> Cells(IF k = 0 THEN 0 ELSE fps[k] + 1, last[k])]
<1>1. Frames = [j \in 1 .. Len(fps) + 1 |-> frame(j - 1)]
  BY Zenon DEF Frames
<1>2. m \in Nat /\ m <= n /\ (m = n \/ m = n - 1)
  BY CurrentType DEF Current
<1>3. fps = [i \in 1 .. m |-> v[i]]
  <2>1. m \in 0 .. Current(n) /\ fp = Base(v, m)
    BY <1>2, CurrentType
  <2>2. \A k \in 0 .. Current(n) : Chain[Base(v, k)] = [i \in 1 .. k |-> v[i]]
    BY ChainLaid
  <2> HIDE DEF m
  <2>3. QED BY <2>1, <2>2
<1>4. Len(fps) = m /\ \A i \in 1 .. m : fps[i] = v[i]
  BY <1>2, <1>3
<1>5. \A k \in 1 .. m : Cell(fps[k] - 1).val = Node(v, n, k - 1)
  <2>1. TAKE k \in 1 .. m
  <2>2. k \in 1 .. n /\ k - 1 # n /\ (k - 1) + 1 = k
    BY <1>2
  <2>3. v[k] - 1 \in Slots
    BY <2>2, FramesInOrder
  <2>4. QED BY <1>4, <2>2, <2>3 DEF Cell, Node
<1> HIDE DEF m, fps
<1>6. \A k \in 0 .. m : at[k] = Node(v, n, k)
  <2>1. TAKE k \in 0 .. m
  <2>2. CASE k = m
    BY <1>4, <2>2, ResumeLaid DEF m
  <2>3. CASE k # m
    <3>1. k + 1 \in 1 .. m /\ (k + 1) - 1 = k
      BY <1>2, <2>3
    <3>2. at[k] = Cell(fps[k + 1] - 1).val
      BY <1>4, <2>3
    <3>3. QED BY <1>5, <3>1, <3>2
  <2>4. QED BY <2>2, <2>3
<1> HIDE DEF at
<1>7. \A k \in 1 .. m : args[k] = Fn(v, n, k).params
  <2>1. TAKE k \in 1 .. m
  <2>2. k \in 0 .. n /\ k \in 0 .. m /\ k # 0
    BY <1>2
  <2>3. Node(v, n, k) \in Nodes
    BY <2>2, FnFacts
  <2>4. QED BY <1>4, <1>6, <2>2, <2>3 DEF Params, Fn
<1> HIDE DEF args
<1>8. ASSUME NEW k \in 0 .. m PROVE last[k] = IF k = m THEN sp ELSE End(v, n, k)
  <2>1. CASE k = m
    BY <1>4, <2>1
  <2>2. CASE k # m
    <3>1. k + 1 \in 1 .. m /\ k + 1 \in 1 .. n /\ (k + 1) - 1 = k /\ k + 1 # 0
      BY <1>2, <2>2
    <3>2. last[k] = v[k + 1] - 2 - Fn(v, n, k + 1).params
      BY <1>4, <1>7, <2>2, <3>1
    <3>3. First(v, n, k + 1) = v[k + 1] - 1 - Fn(v, n, k + 1).params
      BY <3>1 DEF First, Base
    <3>4. First(v, n, k + 1) = End(v, n, k) + 1
      BY <3>1, FramesInOrder
    <3>5. v[k + 1] \in Int /\ Fn(v, n, k + 1).params \in Nat /\ End(v, n, k) \in Int
      BY <1>2, <3>1, FnFacts
    <3>6. End(v, n, k) = v[k + 1] - 2 - Fn(v, n, k + 1).params
      BY <3>3, <3>4, <3>5
    <3>7. QED BY <2>2, <3>2, <3>6
  <2>3. QED BY <2>1, <2>2
<1> HIDE DEF last
<1>9. ASSUME NEW k \in 0 .. m PROVE frame(k) = FrameAt(v, n, k)
  <2>1. last[k] = Reach(v, n, k)
    BY <1>8 DEF Reach, m
  <2>2. CASE k = 0
    <3>1. Base(v, k) + 1 = 0
      BY <2>2 DEF Base, NoFrame
    <3>2. frame(k) = [ret |-> 0, args |-> <<>>, cells |-> Cells(0, last[k])]
      BY <2>2
    <3>3. QED BY <2>1, <2>2, <3>1, <3>2 DEF FrameAt, ReturnTo, Args, Segment, Cells, Cell
  <2>3. CASE k # 0
    <3>1. k \in 1 .. m /\ k \in 1 .. n
      BY <1>2, <2>3
    <3>2. First(v, n, k) = v[k] - 1 - Fn(v, n, k).params /\ Base(v, k) = v[k]
      BY <3>1, <2>3 DEF First, Base
    <3>3. frame(k) = [ret   |-> Node(v, n, k - 1),
                      args  |-> Cells(First(v, n, k), v[k] - 2),
                      cells |-> Cells(Base(v, k) + 1, last[k])]
      BY <1>4, <1>5, <1>7, <2>3, <3>1, <3>2
    <3>4. QED BY <2>1, <2>3, <3>3 DEF FrameAt, ReturnTo, Args, Segment, Cells, Cell
  <2>4. QED BY <2>2, <2>3
<1> HIDE DEF frame
<1>10. \A j \in 1 .. m + 1 : j - 1 \in 0 .. m
  BY <1>2
<1>11. QED BY <1>1, <1>4, <1>9, <1>10 DEF m
LaidOut ==
  \A v \in [Nat -> Int], n \in Nat :
    Conventional(prog) /\ Layout(v, n) =>
      Frames = [j \in 1 .. Current(n) + 1 |-> FrameAt(v, n, j - 1)]

LEMMA FramesLaidOut == LaidOut
  BY FramesLaid DEF LaidOut

(* The same in the next state.                                             *)
LEMMA FramesLaidNext ==
  ASSUME NEW v \in [Nat -> Int], NEW n \in Nat, Conventional(prog)', Layout(v, n)'
  PROVE  Frames' = [j \in 1 .. Current(n)' + 1 |-> FrameAt(v, n, j - 1)']
<1>1. LaidOut'
  BY FramesLaidOut, PTL
<1>3. QED BY <1>1 DEF LaidOut
-----------------------------------------------------------------------------
(* A step that writes nothing below frame m, and not to its return         *)
(* address, leaves the frames below as they were.                          *)

Spared(v, n, m) ==
  /\ prog' = prog
  /\ \A i \in Slots : i < First(v, n, m) => stack'[i] = stack[i]
  /\ m > 0 => stack'[v[m] - 1] = stack[v[m] - 1]

(* w and k are the frame pointers after the step: as before up to m, with  *)
(* the same function in frame m.                                           *)
Prolongs(w, k, v, n, m) ==
  /\ \A i \in 1 .. m : w[i] = v[i]
  /\ Fn(w, k, m)' = Fn(v, n, m)

LEMMA CellsBelow ==
  ASSUME Conventional(prog), NEW v \in [Nat -> Int], NEW n \in Nat, Layout(v, n),
         NEW m \in 0 .. n, Spared(v, n, m)
  PROVE  /\ \A k \in 1 .. m : stack'[v[k] - 1] = stack[v[k] - 1]
         /\ \A k \in 1 .. m - 1 : v[k] \in Slots => stack'[v[k]] = stack[v[k]]
         /\ \A k \in 0 .. m - 1 : \A i \in Slots : i <= End(v, n, k) => stack'[i] = stack[i]
<1>1. ASSUME NEW k \in 1 .. m - 1
      PROVE  v[k] < First(v, n, m) /\ v[k] - 1 \in Slots /\ v[k] \in Int /\ First(v, n, m) \in Int
  <2>1. m \in 1 .. n /\ k \in 1 .. n /\ k \in 1 .. m - 1
    OBVIOUS
  <2>2. QED BY <2>1, FnFacts, FramesInOrder
<1>2. ASSUME NEW k \in 1 .. m PROVE stack'[v[k] - 1] = stack[v[k] - 1]
  <2>1. CASE k = m
    BY <2>1 DEF Spared
  <2>2. CASE k # m
    <3>1. k \in 1 .. m - 1
      BY <2>2
    <3>2. v[k] - 1 < First(v, n, m)
      BY <1>1, <3>1
    <3>3. QED BY <1>1, <3>1, <3>2 DEF Spared
  <2>3. QED BY <2>1, <2>2
<1>3. ASSUME NEW k \in 1 .. m - 1, v[k] \in Slots PROVE stack'[v[k]] = stack[v[k]]
  BY <1>1, <1>3 DEF Spared
<1>4. ASSUME NEW k \in 0 .. m - 1, NEW i \in Slots, i <= End(v, n, k)
      PROVE  stack'[i] = stack[i]
  <2>1. m \in 1 .. n /\ k \in 0 .. m - 1 /\ k \in 0 .. n
    OBVIOUS
  <2>2. End(v, n, k) < First(v, n, m)
    BY <2>1, FramesInOrder
  <2>3. End(v, n, k) \in Int /\ First(v, n, m) \in Int /\ i \in Int
    BY <2>1, FnFacts DEF Slots
  <2>4. i < First(v, n, m)
    BY <1>4, <2>2, <2>3
  <2>5. QED BY <2>4 DEF Spared
<1>5. QED BY <1>2, <1>3, <1>4

LEMMA NodesBelow ==
  ASSUME Conventional(prog), NEW v \in [Nat -> Int], NEW n \in Nat, Layout(v, n),
         NEW m \in 0 .. n, Spared(v, n, m),
         NEW w \in [Nat -> Int], NEW l \in Nat, m <= l, Prolongs(w, l, v, n, m)
  PROVE  /\ \A k \in 0 .. m : Base(w, k) = Base(v, k)
         /\ \A k \in 0 .. m - 1 : Node(w, l, k)' = Node(v, n, k)
         /\ \A k \in 0 .. m : Fn(w, l, k)' = Fn(v, n, k)
         /\ \A k \in 0 .. m - 1 : Operands(w, l, k)' = Operands(v, n, k)
         /\ \A k \in 0 .. m : First(w, l, k)' = First(v, n, k)
         /\ \A k \in 0 .. m - 1 : End(w, l, k)' = End(v, n, k)
<1>1. \A k \in 0 .. m : Base(w, k) = Base(v, k)
  BY DEF Base, Prolongs
<1>2. ASSUME NEW k \in 0 .. m - 1 PROVE Node(w, l, k)' = Node(v, n, k)
  <2>1. k # n /\ k # l /\ k + 1 \in 1 .. m
    OBVIOUS
  <2>2. w[k + 1] = v[k + 1]
    BY <2>1 DEF Prolongs
  <2>3. stack'[v[k + 1] - 1] = stack[v[k + 1] - 1]
    BY <2>1, CellsBelow
  <2>4. QED BY <2>1, <2>2, <2>3 DEF Node
<1>3. ASSUME NEW k \in 0 .. m PROVE Fn(w, l, k)' = Fn(v, n, k)
  <2>1. CASE k = m
    BY <2>1 DEF Prolongs
  <2>2. CASE k # m
    <3>1. k \in 0 .. m - 1
      BY <2>2
    <3>2. QED BY <1>2, <3>1 DEF Fn, Spared
  <2>3. QED BY <2>1, <2>2
<1>4. ASSUME NEW k \in 0 .. m - 1 PROVE Operands(w, l, k)' = Operands(v, n, k)
  <2>1. k # n /\ k # l /\ k + 1 \in 0 .. m
    OBVIOUS
  <2>2. QED BY <1>2, <1>3, <2>1 DEF Operands, Spared
<1>5. ASSUME NEW k \in 0 .. m PROVE First(w, l, k)' = First(v, n, k)
  <2>1. Base(w, k)' = Base(v, k)
    BY <1>1 DEF Base
  <2>2. QED BY <1>3, <2>1 DEF First
<1>6. ASSUME NEW k \in 0 .. m - 1 PROVE End(w, l, k)' = End(v, n, k)
  <2>1. Base(w, k)' = Base(v, k)
    BY <1>1 DEF Base
  <2>2. QED BY <1>3, <1>4, <2>1 DEF End
<1>7. QED BY <1>1, <1>2, <1>3, <1>4, <1>5, <1>6

LEMMA FramesBelow ==
  ASSUME Conventional(prog), NEW v \in [Nat -> Int], NEW n \in Nat, Layout(v, n),
         NEW m \in 0 .. n, Spared(v, n, m),
         NEW w \in [Nat -> Int], NEW l \in Nat, m <= l, Prolongs(w, l, v, n, m)
  PROVE  /\ \A k \in 0 .. m - 1 : Frame(w, l, k)'
         /\ \A k \in 1 .. m - 1 : Linked(w, l, k)'
<1>1. ASSUME NEW k \in 0 .. m - 1 PROVE Frame(w, l, k)'
  <2>1. k \in 0 .. n /\ k < n /\ k < l /\ m \in 1 .. n
    OBVIOUS
  <2>2. Frame(v, n, k)
    BY <2>1 DEF Layout
  <2>3. /\ Base(w, k) = Base(v, k) /\ Node(w, l, k)' = Node(v, n, k)
        /\ Fn(w, l, k)' = Fn(v, n, k) /\ Operands(w, l, k)' = Operands(v, n, k)
    BY NodesBelow
  <2>4. /\ (Node(w, l, k) \in Nodes)'
        /\ (prog.code[Node(w, l, k)].op # "ENTER")'
        /\ (Fn(w, l, k).function = (k > 0))'
        /\ (Operands(w, l, k) \in Nat)'
    BY <2>1, <2>2, <2>3 DEF Frame, Nodes, Spared
  <2>5. ASSUME NEW a \in prog.addrs[Node(v, n, k)]
        PROVE  /\ a <= Operands(v, n, k)
               /\ Address(stack'[Base(v, k) + Fn(v, n, k).locals + a], Fn(v, n, k), Base(v, k))
    <3>1. a <= Operands(v, n, k)
          /\ Address(stack[Base(v, k) + Fn(v, n, k).locals + a], Fn(v, n, k), Base(v, k))
      BY <2>2 DEF Frame
    <3> DEFINE i == Base(v, k) + Fn(v, n, k).locals + a
    <3>2. a \in Nat /\ a >= 1
      BY <2>2, NodeFacts DEF Frame
    <3>3. i <= End(v, n, k) /\ i \in Int /\ i >= Base(v, k) + 1
      BY <2>1, <3>1, <3>2, FnFacts DEF End
    <3>4. NoFrame <= Base(v, k) /\ End(v, n, k) < First(v, n, m) /\ v[m] - 1 \in Slots
      BY <2>1, FramesInOrder
    <3>5. First(v, n, m) <= v[m] - 1 /\ First(v, n, m) \in Int /\ End(v, n, k) \in Int /\ Base(v, k) \in Int
      BY <2>1, FnFacts
    <3>6. i \in Slots
      <4> HIDE DEF i
      <4>1. QED BY <3>3, <3>4, <3>5 DEF Slots, NoFrame
    <3>7. stack'[i] = stack[i]
      <4> HIDE DEF i
      <4>1. QED BY <3>3, <3>6, CellsBelow
    <3>8. QED BY <3>1, <3>7
  <2>6. \A a \in prog'.addrs[Node(w, l, k)'] :
           /\ a <= Operands(w, l, k)'
           /\ Address(stack'[Base(w, k) + Fn(w, l, k)'.locals + a], Fn(w, l, k)', Base(w, k))
    BY <2>3, <2>5 DEF Spared
  <2>7. Base(w, k)' = Base(w, k)
    BY DEF Base
  <2>8. QED BY <2>4, <2>6, <2>7 DEF Frame, Address, Own
<1>2. ASSUME NEW k \in 1 .. m - 1 PROVE Linked(w, l, k)'
  <2>1. k \in 1 .. n /\ k # n /\ k \in 1 .. m /\ k - 1 \in 0 .. m - 1 /\ k \in 0 .. m
    OBVIOUS
  <2>2. Linked(v, n, k)
    BY <2>1 DEF Layout
  <2>3. /\ v[k] - 1 \in Slots /\ stack[v[k] - 1].tag = "instr"
        /\ v[k] \in Slots /\ stack[v[k]] = StackP(Base(v, k - 1))
        /\ First(v, n, k) = End(v, n, k - 1) + 1
        /\ \A i \in 1 .. k - 1 : v[i] < First(v, n, k)
    BY <2>1, <2>2 DEF Linked
  <2>4. stack'[v[k] - 1] = stack[v[k] - 1] /\ stack'[v[k]] = stack[v[k]]
    BY <2>1, <2>3, CellsBelow
  <2>5. \A i \in 1 .. k : w[i] = v[i]
    BY DEF Prolongs
  <2>6. /\ Base(w, k - 1) = Base(v, k - 1)
        /\ First(w, l, k)' = First(v, n, k)
        /\ End(w, l, k - 1)' = End(v, n, k - 1)
    BY <2>1, NodesBelow
  <2>7. Base(w, k - 1)' = Base(v, k - 1)
    BY <2>6 DEF Base
  <2>8. w[k] = v[k] /\ \A i \in 1 .. k - 1 : w[i] = v[i]
    BY <2>5
  <2>9. QED BY <2>3, <2>4, <2>6, <2>7, <2>8 DEF Linked, Slots, StackP
<1>3. QED BY <1>1, <1>2

\* Frame m itself stays linked to the one below if its saved pointer stays.
LEMMA LinkedStill ==
  ASSUME Conventional(prog), NEW v \in [Nat -> Int], NEW n \in Nat, Layout(v, n),
         NEW m \in 1 .. n, Spared(v, n, m), ~ (m = n /\ Entering), stack'[v[m]] = stack[v[m]],
         NEW w \in [Nat -> Int], NEW l \in Nat, m <= l, Prolongs(w, l, v, n, m)
  PROVE  Linked(w, l, m)'
<1>1. Linked(v, n, m)
  BY DEF Layout
<1>2. /\ v[m] - 1 \in Slots /\ stack[v[m] - 1].tag = "instr"
      /\ v[m] \in Slots /\ stack[v[m]] = StackP(Base(v, m - 1))
      /\ First(v, n, m) = End(v, n, m - 1) + 1
      /\ \A i \in 1 .. m - 1 : v[i] < First(v, n, m)
  BY <1>1 DEF Linked
<1>3. stack'[v[m] - 1] = stack[v[m] - 1]
  BY DEF Spared
<1>4. m - 1 \in 0 .. m - 1 /\ m \in 0 .. m /\ m - 1 \in 0 .. m /\ m \in 0 .. n
  OBVIOUS
<1>5. /\ Base(w, m - 1) = Base(v, m - 1)
      /\ First(w, l, m)' = First(v, n, m)
      /\ End(w, l, m - 1)' = End(v, n, m - 1)
  BY <1>4, NodesBelow
<1>6. Base(w, m - 1)' = Base(v, m - 1)
  BY <1>5 DEF Base
<1>7. w[m] = v[m] /\ \A i \in 1 .. m - 1 : w[i] = v[i]
  BY DEF Prolongs
<1>8. QED BY <1>2, <1>3, <1>5, <1>6, <1>7 DEF Linked, Slots, StackP
-----------------------------------------------------------------------------
(* Segments of the stack, and what a step does not change in a frame.      *)

LEMMA SameSegment ==
  ASSUME NEW st, NEW su, NEW from \in Int, NEW to \in Int,
         \A i \in Slots : from <= i /\ i <= to => su[i] = st[i]
  PROVE  Segment(su, from, to) = Segment(st, from, to)
<1>1. ASSUME NEW i \in 1 .. to - from + 1
      PROVE  (IF from + i - 1 \in Slots THEN su[from + i - 1] ELSE Raw)
               = IF from + i - 1 \in Slots THEN st[from + i - 1] ELSE Raw
  <2>1. from <= from + i - 1 /\ from + i - 1 <= to
    OBVIOUS
  <2>2. QED BY <2>1
<1>2. QED BY <1>1 DEF Segment

LEMMA SegmentLength ==
  ASSUME NEW st, NEW from \in Int, NEW to \in Int, from <= to + 1
  PROVE  /\ Len(Segment(st, from, to)) = to - from + 1
         /\ Segment(st, from, to) = <<>> <=> to = from - 1
         /\ to \in Slots /\ from <= to => Segment(st, from, to)[to - from + 1] = st[to]
<1> DEFINE s == Segment(st, from, to)
<1>1. to - from + 1 \in Nat
  OBVIOUS
<1>2. Len(s) = to - from + 1
  BY <1>1 DEF Segment
<1>3. s = <<>> <=> to = from - 1
  BY <1>1, <1>2 DEF Segment
<1>4. to \in Slots /\ from <= to => s[to - from + 1] = st[to]
  <2>1. SUFFICES ASSUME to \in Slots, from <= to PROVE s[to - from + 1] = st[to]
    OBVIOUS
  <2>2. to - from + 1 \in 1 .. to - from + 1 /\ from + (to - from + 1) - 1 = to
    BY <2>1
  <2>3. QED BY <2>1, <2>2 DEF Segment
<1>5. QED BY <1>2, <1>3, <1>4

Slice(s, i, j) == SubSeq(s, i, j)

LEMMA SegmentPart ==
  ASSUME NEW st, NEW from \in Int, NEW to \in Int,
         NEW i \in Int, NEW j \in Int, 1 <= i, i <= j + 1, j <= to - from + 1
  PROVE  Slice(Segment(st, from, to), i, j) = Segment(st, from + i - 1, from + j - 1)
<1> DEFINE s == Segment(st, from, to)
           part == Segment(st, from + i - 1, from + j - 1)
<1>1. s = [k \in 1 .. to - from + 1 |-> s[k]] /\ to - from + 1 \in Int
  BY DEF Segment
<1>2. SubSeq(s, i, j) = [k \in 1 .. j - i + 1 |-> s[i + k - 1]]
  BY DEF Segment
<1>3. part = [k \in 1 .. j - i + 1 |-> part[k]]
  <2>1. (from + j - 1) - (from + i - 1) + 1 = j - i + 1
    OBVIOUS
  <2>2. QED BY <2>1 DEF Segment
<1>4. ASSUME NEW k \in 1 .. j - i + 1 PROVE s[i + k - 1] = part[k]
  <2>1. i + k - 1 \in 1 .. to - from + 1 /\ from + (i + k - 1) - 1 = (from + i - 1) + k - 1
        /\ k \in 1 .. (from + j - 1) - (from + i - 1) + 1
    OBVIOUS
  <2>2. QED BY <2>1 DEF Segment
<1> HIDE DEF s, part
<1>5. QED BY <1>2, <1>3, <1>4 DEF s, part, Slice

Joined(s, t) == s \o t

LEMMA SegmentGrows ==
  ASSUME NEW st, NEW su, NEW from \in Int, NEW to \in Int, from <= to + 1, to + 1 \in Slots,
         \A i \in Slots : from <= i /\ i <= to => su[i] = st[i]
  PROVE  Segment(su, from, to + 1) = Joined(Segment(st, from, to), <<su[to + 1]>>)
<1> DEFINE s == Segment(st, from, to)
           u == Segment(su, from, to + 1)
           n == to - from + 1
<1>1. n \in Nat /\ (to + 1) - from + 1 = n + 1
  OBVIOUS
<1>2. s = [k \in 1 .. n |-> s[k]] /\ u = [k \in 1 .. n + 1 |-> u[k]]
  BY <1>1 DEF Segment
<1>3. ASSUME NEW k \in 1 .. n PROVE u[k] = s[k]
  <2>1. k \in 1 .. n + 1 /\ from <= from + k - 1 /\ from + k - 1 <= to
    BY <1>1
  <2>2. QED BY <1>1, <2>1 DEF Segment
<1>4. u[n + 1] = su[to + 1]
  <2>1. n + 1 \in 1 .. n + 1 /\ from + (n + 1) - 1 = to + 1
    BY <1>1
  <2>2. QED BY <1>1, <2>1 DEF Segment
<1> HIDE DEF s, u, n
<1> DEFINE x == su[to + 1]
           S == {s[k] : k \in 1 .. n} \cup {x}
           t == s \o <<x>>
<1> HIDE DEF x
<1>5. s \in Seq(S) /\ <<x>> \in Seq(S) /\ Len(s) = n /\ Len(<<x>>) = 1
  <2>1. \A k \in 1 .. n : s[k] \in S
    OBVIOUS
  <2>2. x \in S
    OBVIOUS
  <2> HIDE DEF S
  <2>3. s \in [1 .. n -> S]
    BY <1>2, <2>1
  <2>4. QED BY <1>1, <2>2, <2>3
<1> HIDE DEF S
<1>6. /\ t \in Seq(S) /\ Len(t) = n + 1
      /\ \A k \in 1 .. n + 1 : t[k] = IF k <= n THEN s[k] ELSE <<x>>[k - n]
  BY <1>5, ConcatProperties
<1>7. <<x>>[(n + 1) - n] = x
  BY <1>1
<1>8. \A k \in 1 .. n + 1 : u[k] = t[k]
  <2>1. TAKE k \in 1 .. n + 1
  <2>2. CASE k <= n
    BY <1>1, <1>3, <1>6, <2>2
  <2>3. CASE ~ (k <= n)
    <3>1. k = n + 1
      BY <1>1, <2>3
    <3>2. QED BY <1>4, <1>6, <1>7, <2>3, <3>1 DEF x
  <2>4. QED BY <2>2, <2>3
<1> HIDE DEF t
<1>9. t = [k \in 1 .. n + 1 |-> t[k]]
  BY <1>6
<1>10. u = t
  BY <1>2, <1>8, <1>9
<1>11. QED BY <1>10 DEF s, u, t, x, Joined

LEMMA SegmentWhole ==
  ASSUME NEW st, NEW from \in Int, NEW to \in Int, from <= to + 1
  PROVE  Joined(Segment(st, from, to), <<>>) = Segment(st, from, to)
<1> DEFINE s == Segment(st, from, to)
           n == to - from + 1
           S == {s[k] : k \in 1 .. n}
<1>1. n \in Nat /\ s = [k \in 1 .. n |-> s[k]]
  BY DEF Segment
<1>2. s \in Seq(S)
  <2>1. \A k \in 1 .. n : s[k] \in S
    OBVIOUS
  <2> HIDE DEF s, n, S
  <2>2. s \in [1 .. n -> S]
    BY <1>1, <2>1
  <2>3. QED BY <1>1, <2>2
<1> HIDE DEF s, S
<1>3. s \o <<>> = s
  BY <1>2, ConcatEmptySeq
<1>4. QED BY <1>3, Zenon DEF s, Joined

SameLength(s, t) == Len(s) = Len(t)
SameCall(f, g) == f.ret = g.ret /\ SameLength(f.args, g.args)

LEMMA CallsBelow ==
  ASSUME Conventional(prog), NEW v \in [Nat -> Int], NEW n \in Nat, Layout(v, n),
         NEW m \in 0 .. n, Spared(v, n, m),
         NEW w \in [Nat -> Int], NEW l \in Nat, m <= l, Prolongs(w, l, v, n, m),
         NEW k \in 0 .. m
  PROVE  /\ ReturnTo(w, l, k)' = ReturnTo(v, n, k)
         /\ SameLength(Args(w, l, k)', Args(v, n, k))
         /\ (\A i \in Slots : i < v[k] - 1 => stack'[i] = stack[i] \/ i < First(v, n, k))
              => Args(w, l, k)' = Args(v, n, k)
<1>1. First(w, l, k)' = First(v, n, k)
  BY NodesBelow
<1>2. CASE k = 0
  BY <1>2 DEF ReturnTo, Args, SameLength
<1>3. CASE k # 0
  <2>1. w[k] = v[k] /\ k - 1 \in 0 .. m - 1 /\ k \in 1 .. n
    BY <1>3 DEF Prolongs
  <2>2. ReturnTo(w, l, k)' = ReturnTo(v, n, k)
    BY <1>3, <2>1, NodesBelow DEF ReturnTo
  <2>3. First(v, n, k) \in Int /\ v[k] - 2 \in Int /\ First(v, n, k) <= v[k] - 1
    BY <1>3, <2>1, FnFacts
  <2>4. /\ Args(w, l, k)' = Segment(stack', First(v, n, k), v[k] - 2)
        /\ Args(v, n, k) = Segment(stack, First(v, n, k), v[k] - 2)
    BY <1>1, <1>3, <2>1 DEF Args, Segment, Slots, Raw
  <2>5. SameLength(Args(w, l, k)', Args(v, n, k))
    <3>1. /\ Len(Segment(stack', First(v, n, k), v[k] - 2)) = (v[k] - 2) - First(v, n, k) + 1
          /\ Len(Segment(stack, First(v, n, k), v[k] - 2)) = (v[k] - 2) - First(v, n, k) + 1
      <4>1. First(v, n, k) <= (v[k] - 2) + 1
        BY <2>3
      <4> DEFINE a == First(v, n, k)
                 b == v[k] - 2
      <4>2. a \in Int /\ b \in Int /\ a <= b + 1
        BY <2>3, <4>1
      <4> HIDE DEF a, b
      <4>3. Len(Segment(stack', a, b)) = b - a + 1 /\ Len(Segment(stack, a, b)) = b - a + 1
        BY <4>2, SegmentLength
      <4>4. QED BY <4>3 DEF a, b
    <3>2. QED BY <2>4, <3>1 DEF SameLength
  <2>6. ASSUME \A i \in Slots : i < v[k] - 1 => stack'[i] = stack[i] \/ i < First(v, n, k)
        PROVE  Args(w, l, k)' = Args(v, n, k)
    <3>1. \A i \in Slots : First(v, n, k) <= i /\ i <= v[k] - 2 => stack'[i] = stack[i]
      BY <2>3, <2>6 DEF Slots
    <3>2. QED BY <2>3, <2>4, <3>1, SameSegment
  <2>7. QED BY <2>2, <2>5, <2>6
<1>4. QED BY <1>2, <1>3

LEMMA FrameParts ==
  ASSUME NEW v \in [Nat -> Int], NEW n \in Nat, NEW k \in Nat
  PROVE  /\ FrameAt(v, n, k) =
              [ret |-> ReturnTo(v, n, k), args |-> Args(v, n, k),
               cells |-> Segment(stack, Base(v, k) + 1, Reach(v, n, k))]
         /\ FrameAt(v, n, k)' =
              [ret |-> ReturnTo(v, n, k)', args |-> Args(v, n, k)',
               cells |-> Segment(stack', Base(v, k) + 1, Reach(v, n, k)')]
<1>1. Base(v, k)' = Base(v, k)
  BY DEF Base
<1>2. QED BY <1>1 DEF FrameAt, Segment, Slots, Raw

(* The frames below frame m are the same in CallStack too, and frame m has *)
(* the same return address and as many arguments.                          *)
LEMMA AbstractBelow ==
  ASSUME Conventional(prog), NEW v \in [Nat -> Int], NEW n \in Nat, Layout(v, n),
         NEW m \in 0 .. n, Spared(v, n, m),
         NEW w \in [Nat -> Int], NEW l \in Nat, m <= l, Prolongs(w, l, v, n, m),
         m <= Current(n), m <= Current(l)', Current(l)' \in Nat
  PROVE  /\ \A k \in 0 .. m - 1 : FrameAt(w, l, k)' = FrameAt(v, n, k)
         /\ SameCall(FrameAt(w, l, m)', FrameAt(v, n, m))
<1>1. Current(n) \in 0 .. n
  BY CurrentType
<1>2. ASSUME NEW k \in 0 .. m - 1 PROVE FrameAt(w, l, k)' = FrameAt(v, n, k)
  <2>1. k \in 0 .. n /\ k \in Nat /\ k # Current(n) /\ k # Current(l)' /\ k \in 0 .. m
    BY <1>1
  <2>2. Base(w, k) = Base(v, k) /\ End(w, l, k)' = End(v, n, k)
    BY <2>1, NodesBelow
  <2>3. /\ End(v, n, k) \in Int /\ Base(v, k) \in Int
        /\ Base(v, k) <= End(v, n, k) /\ (k > 0 => Base(v, k) = v[k] /\ v[k] \in Int)
    BY <2>1, FnFacts DEF Base
  <2>4. \A i \in Slots : i <= End(v, n, k) => stack'[i] = stack[i]
    BY CellsBelow
  <2>5. Segment(stack', Base(v, k) + 1, End(v, n, k)) = Segment(stack, Base(v, k) + 1, End(v, n, k))
    <3>1. \A i \in Slots : Base(v, k) + 1 <= i /\ i <= End(v, n, k) => stack'[i] = stack[i]
      BY <2>4
    <3>2. QED BY <2>3, <3>1, SameSegment
  <2>6. Args(w, l, k)' = Args(v, n, k) /\ ReturnTo(w, l, k)' = ReturnTo(v, n, k)
    <3>1. CASE k = 0
      BY <3>1 DEF Args, ReturnTo
    <3>2. CASE k # 0
      <4>1. \A i \in Slots : i < v[k] - 1 => stack'[i] = stack[i] \/ i < First(v, n, k)
        BY <2>3, <2>4, <3>2 DEF Slots
      <4>2. QED BY <2>1, <4>1, CallsBelow
    <3>3. QED BY <3>1, <3>2
  <2>7. Reach(w, l, k)' = End(v, n, k) /\ Reach(v, n, k) = End(v, n, k)
    BY <2>1, <2>2 DEF Reach
  <2>8. /\ FrameAt(w, l, k)' = [ret |-> ReturnTo(w, l, k)', args |-> Args(w, l, k)',
                                cells |-> Segment(stack', Base(w, k) + 1, Reach(w, l, k)')]
        /\ FrameAt(v, n, k) = [ret |-> ReturnTo(v, n, k), args |-> Args(v, n, k),
                               cells |-> Segment(stack, Base(v, k) + 1, Reach(v, n, k))]
    BY <2>1, FrameParts
  <2>9. QED BY <2>2, <2>5, <2>6, <2>7, <2>8
<1>3. SameCall(FrameAt(w, l, m)', FrameAt(v, n, m))
  <2>1. m \in Nat /\ m \in 0 .. m
    OBVIOUS
  <2>2. ReturnTo(w, l, m)' = ReturnTo(v, n, m) /\ SameLength(Args(w, l, m)', Args(v, n, m))
    BY <2>1, CallsBelow
  <2>3. /\ FrameAt(w, l, m)' = [ret |-> ReturnTo(w, l, m)', args |-> Args(w, l, m)',
                                cells |-> Segment(stack', Base(w, m) + 1, Reach(w, l, m)')]
        /\ FrameAt(v, n, m) = [ret |-> ReturnTo(v, n, m), args |-> Args(v, n, m),
                               cells |-> Segment(stack, Base(v, m) + 1, Reach(v, n, m))]
    BY <2>1, FrameParts
  <2>4. QED BY <2>2, <2>3 DEF SameCall
<1>4. QED BY <1>2, <1>3
-----------------------------------------------------------------------------
(* An instruction that neither calls nor returns: what it writes is an     *)
(* argument or a local of the function, or the operand it leaves.          *)

Writes(v, n) ==
  /\ \A i \in Slots : \/ stack'[i] = stack[i]
                      \/ i \in Own(Fn(v, n, n), Base(v, n))
                      \/ Instr.op \in ValueOps /\ i = sp'
  /\ Instr.op \in ValueOps => sp' \in Slots
  /\ Instr.op \in AddressOps => Address(stack'[sp'], Fn(v, n, n), Base(v, n))

Proceeds ==
  /\ ip \in Nodes /\ Instr.op \notin {"ENTER", "CALL"}
  /\ ip' \in Successors(prog, ip)
  /\ UNCHANGED <<prog, fp>>
  /\ sp' = sp - Arity(Instr.op) + IF Instr.op \in ValueOps THEN 1 ELSE 0

LEMMA FlowOn ==
  ASSUME Conventional(prog), Proceeds
  PROVE  /\ ~ Entering /\ ~ Entering'
         /\ ip' \in Nodes /\ prog.frame[ip'] = prog.frame[ip]
         /\ prog.depth[ip] \in Nat /\ Arity(Instr.op) \in Nat /\ Arity(Instr.op) <= prog.depth[ip]
         /\ prog.depth[ip'] = prog.depth[ip] - Arity(Instr.op)
                                + IF Instr.op \in ValueOps THEN 1 ELSE 0
         /\ prog.addrs[ip'] \subseteq
              (prog.addrs[ip] \cap 1 .. prog.depth[ip] - Arity(Instr.op))
                \cup (IF Instr.op \in AddressOps THEN {prog.depth[ip] - Arity(Instr.op) + 1} ELSE {})
<1>1. ip \in Nodes /\ Instr = prog.code[ip] /\ prog.code[ip].op \notin {"ENTER", "CALL"}
  BY DEF Proceeds, Instr
<1>2. Flows(prog, ip, ip') /\ Allowed(prog, ip) /\ prog.depth[ip] \in Nat
  BY <1>1, NodeFacts DEF Proceeds
<1>3. Takes(prog, ip) = Arity(Instr.op)
      /\ Gives(prog, ip) = IF Instr.op \in ValueOps THEN 1 ELSE 0
  BY <1>1 DEF Takes, Gives
<1>4. Arity(Instr.op) \in Nat /\ Arity(Instr.op) <= prog.depth[ip]
  BY <1>2, <1>3 DEF Allowed, Arity
<1>5. ip' \in Nodes /\ prog.code[ip'].op # "ENTER"
  BY <1>2 DEF Flows, Nodes
<1>6. ~ Entering /\ ~ Entering'
  BY <1>1, <1>5 DEF Entering, Instr, Proceeds
<1>7. QED BY <1>1, <1>2, <1>3, <1>4, <1>5, <1>6 DEF Flows

LEMMA Spares ==
  ASSUME Conventional(prog), NEW v \in [Nat -> Int], NEW n \in Nat, Layout(v, n),
         Proceeds, Writes(v, n)
  PROVE  /\ Spared(v, n, n) /\ Prolongs(v, n, v, n, n)
         /\ n > 0 => stack'[v[n]] = stack[v[n]]
         /\ sp = End(v, n, n) /\ sp' = End(v, n, n)'
         /\ Operands(v, n, n) = prog.depth[ip] /\ Operands(v, n, n)' = prog.depth[ip']
         /\ Fn(v, n, n)' = Fn(v, n, n)
<1>1. /\ ~ Entering /\ ~ Entering' /\ prog.frame[ip'] = prog.frame[ip]
      /\ prog.depth[ip] \in Nat /\ Arity(Instr.op) \in Nat /\ Arity(Instr.op) <= prog.depth[ip]
      /\ prog.depth[ip'] = prog.depth[ip] - Arity(Instr.op) + IF Instr.op \in ValueOps THEN 1 ELSE 0
  BY FlowOn
<1>2. Fn(v, n, n)' = Fn(v, n, n)
  BY <1>1 DEF Fn, Node, Proceeds
<1>3. Operands(v, n, n) = prog.depth[ip] /\ Operands(v, n, n)' = prog.depth[ip']
  BY <1>1 DEF Operands, Node, Proceeds
<1>4. Base(v, n)' = Base(v, n) /\ Base(v, n) \in Int /\ Fn(v, n, n).locals \in Nat
      /\ Fn(v, n, n).params \in Nat /\ (n > 0 => Base(v, n) = v[n])
  BY FnFacts DEF Base
<1>5. sp = End(v, n, n)
  BY <1>1 DEF Layout
<1>6. sp = Base(v, n) + Fn(v, n, n).locals + prog.depth[ip]
  BY <1>3, <1>5 DEF End
<1>7. End(v, n, n)' = Base(v, n) + Fn(v, n, n).locals + prog.depth[ip']
  BY <1>2, <1>3, <1>4 DEF End
<1>8. sp' = sp - Arity(Instr.op) + IF Instr.op \in ValueOps THEN 1 ELSE 0
  BY DEF Proceeds
<1>9. sp' = End(v, n, n)'
  BY <1>1, <1>4, <1>6, <1>7, <1>8
<1>10. Instr.op \in ValueOps => sp' > Base(v, n) + Fn(v, n, n).locals
  BY <1>1, <1>4, <1>6, <1>8
<1>11. ASSUME NEW i \in Slots, i < First(v, n, n) \/ (n > 0 /\ i \in {v[n], v[n] - 1})
       PROVE  stack'[i] = stack[i]
  <2>1. First(v, n, n) = Base(v, n) - 1 - Fn(v, n, n).params /\ i \in Int
    BY DEF First, Slots
  <2>2. i \notin Own(Fn(v, n, n), Base(v, n))
    BY <1>4, <1>11, <2>1 DEF Own
  <2>3. Instr.op \in ValueOps => i # sp'
    BY <1>4, <1>10, <1>11, <2>1
  <2>4. QED BY <2>2, <2>3 DEF Writes
<1>12. n > 0 => v[n] - 1 \in Slots /\ v[n] \in Slots
  BY <1>1 DEF Layout, Linked
<1>13. Spared(v, n, n)
  BY <1>11, <1>12 DEF Spared, Proceeds
<1>14. Prolongs(v, n, v, n, n)
  BY <1>2 DEF Prolongs
<1>15. QED BY <1>2, <1>3, <1>5, <1>9, <1>11, <1>12, <1>13, <1>14

LEMMA LayoutProceeds ==
  ASSUME TypeOK, Conventional(prog), NEW v \in [Nat -> Int], NEW n \in Nat, Layout(v, n),
         Proceeds, Writes(v, n)
  PROVE  Layout(v, n)'
<1>1. /\ ~ Entering /\ ~ Entering' /\ ip' \in Nodes /\ prog.frame[ip'] = prog.frame[ip]
      /\ prog.depth[ip] \in Nat /\ Arity(Instr.op) \in Nat /\ Arity(Instr.op) <= prog.depth[ip]
      /\ prog.depth[ip'] = prog.depth[ip] - Arity(Instr.op) + IF Instr.op \in ValueOps THEN 1 ELSE 0
  BY FlowOn
<1>2. /\ Spared(v, n, n) /\ Prolongs(v, n, v, n, n)
      /\ sp = End(v, n, n) /\ sp' = End(v, n, n)'
      /\ Operands(v, n, n) = prog.depth[ip] /\ Operands(v, n, n)' = prog.depth[ip']
      /\ Fn(v, n, n)' = Fn(v, n, n)
  BY Spares
<1>3. Base(v, n) \in Int /\ Fn(v, n, n).locals \in Nat /\ NoFrame <= Base(v, n)
      /\ Base(v, n)' = Base(v, n)
  BY FnFacts, FramesInOrder DEF Base
<1>4. sp = Base(v, n) + Fn(v, n, n).locals + prog.depth[ip]
  BY <1>2 DEF End
<1>5. prog.depth[ip] > 0 => sp \in Slots
  BY <1>1, <1>2 DEF Layout
<1>6. prog.depth[ip'] > 0 => sp' \in Slots
  <2>1. CASE Instr.op \in ValueOps
    BY <2>1 DEF Writes
  <2>2. CASE Instr.op \notin ValueOps
    <3>1. sp' = sp - Arity(Instr.op)
      BY <1>1, <1>3, <1>4, <2>2 DEF Proceeds
    <3>2. QED BY <1>1, <1>3, <1>4, <1>5, <2>2, <3>1 DEF Slots, NoFrame
  <2>3. QED BY <2>1, <2>2
<1>7. ASSUME NEW a \in prog.addrs[ip']
      PROVE  /\ a <= prog.depth[ip']
             /\ Address(stack'[Base(v, n) + Fn(v, n, n).locals + a], Fn(v, n, n), Base(v, n))
  <2>1. a \in 1 .. prog.depth[ip']
    BY <1>1, NodeFacts
  <2>2. CASE a \in prog.addrs[ip] \cap 1 .. prog.depth[ip] - Arity(Instr.op)
    <3> DEFINE i == Base(v, n) + Fn(v, n, n).locals + a
    <3>1. i \in Slots
      BY <1>1, <1>3, <1>4, <1>5, <2>2 DEF Slots, NoFrame
    <3>2. i \notin Own(Fn(v, n, n), Base(v, n))
      BY <1>3, <2>2 DEF Own
    <3>3. Instr.op \in ValueOps => i # sp'
      BY <1>1, <1>3, <1>4, <2>2 DEF Proceeds
    <3>4. stack'[i] = stack[i]
      BY <3>1, <3>2, <3>3 DEF Writes
    <3>5. Node(v, n, n) = ip /\ Frame(v, n, n)
      BY DEF Node, Layout
    <3>6. Address(stack[i], Fn(v, n, n), Base(v, n))
      BY <2>2, <3>5 DEF Frame
    <3>7. QED BY <2>1, <3>4, <3>6
  <2>3. CASE Instr.op \in AddressOps /\ a = prog.depth[ip] - Arity(Instr.op) + 1
    <3>1. Instr.op \in ValueOps
      BY <2>3 DEF ValueOps
    <3>2. sp' = Base(v, n) + Fn(v, n, n).locals + a
      BY <1>1, <1>3, <1>4, <2>3, <3>1 DEF Proceeds
    <3>3. QED BY <2>1, <2>3, <3>2 DEF Writes
  <2>4. QED BY <2>2, <2>3, FlowOn
<1>8. Frame(v, n, n)'
  <2>1. Node(v, n, n)' = ip' /\ Node(v, n, n) = ip /\ Frame(v, n, n) /\ prog' = prog
    BY DEF Node, Layout, Proceeds
  <2>2. /\ (Node(v, n, n) \in Nodes)' /\ (Fn(v, n, n).function = (n > 0))'
        /\ (Operands(v, n, n) \in Nat)'
    BY <1>1, <1>2, <2>1, NodeFacts DEF Frame, Nodes
  <2>3. \A a \in prog'.addrs[Node(v, n, n)'] :
           /\ a <= Operands(v, n, n)'
           /\ Address(stack'[Base(v, n) + Fn(v, n, n)'.locals + a], Fn(v, n, n)', Base(v, n))
    BY <1>2, <1>7, <2>1
  <2>4. QED BY <1>3, <2>2, <2>3 DEF Frame, Address, Own
<1>9. \A k \in 0 .. n : Frame(v, n, k)'
  <2>1. \A k \in 0 .. n - 1 : Frame(v, n, k)'
    BY <1>2, FramesBelow
  <2>2. QED BY <1>8, <2>1
<1>10. \A k \in 1 .. n : Linked(v, n, k)'
  <2>1. \A k \in 1 .. n - 1 : Linked(v, n, k)'
    BY <1>2, FramesBelow
  <2>2. ASSUME n > 0 PROVE Linked(v, n, n)'
    <3>1. n \in 1 .. n /\ stack'[v[n]] = stack[v[n]]
      BY <2>2, Spares
    <3>2. QED BY <1>1, <1>2, <3>1, LinkedStill
  <2>3. QED BY <2>1, <2>2
<1>11. fp' = Base(v, n)'
  BY <1>1, <1>3 DEF Layout, Proceeds
<1>12. QED BY <1>1, <1>2, <1>6, <1>9, <1>10, <1>11 DEF Layout
-----------------------------------------------------------------------------
(* The steps of CallStack.                                                 *)

LEMMA ConventionStays ==
  ASSUME prog' = prog
  PROVE  Conventional(prog)' <=> Conventional(prog)
<1>1. \A i : Takes(prog, i)' = Takes(prog, i) /\ Gives(prog, i)' = Gives(prog, i)
  BY DEF Takes, Gives, Arity
<1>2. \A i : Successors(prog, i)' = Successors(prog, i)
  BY DEF Successors
<1>3. ASSUME NEW i PROVE Allowed(prog, i)' <=> Allowed(prog, i)
  BY <1>1 DEF Allowed, Arity
<1>4. ASSUME NEW i, NEW j PROVE Flows(prog, i, j)' <=> Flows(prog, i, j)
  BY <1>1 DEF Flows
<1>5. Described(prog)' <=> Described(prog)
  BY DEF Described
<1>6. QED BY <1>2, <1>3, <1>4, <1>5 DEF Conventional

(* The frames are those of the layout, in this state and in the next.      *)
AsLaid(v, n) ==
  /\ Current(n) \in Nat /\ Len(Frames) = Current(n) + 1
  /\ \A k \in 0 .. Current(n) : Frames[k + 1] = FrameAt(v, n, k)

LEMMA LaidHere ==
  ASSUME Conventional(prog), NEW v \in [Nat -> Int], NEW n \in Nat, Layout(v, n)
  PROVE  AsLaid(v, n)
<1>1. Frames = [j \in 1 .. Current(n) + 1 |-> FrameAt(v, n, j - 1)]
  BY FramesLaid
<1>2. Current(n) \in Nat
  BY CurrentType
<1>3. Len(Frames) = Current(n) + 1
  BY <1>1, <1>2
<1>4. ASSUME NEW k \in 0 .. Current(n) PROVE Frames[k + 1] = FrameAt(v, n, k)
  <2>1. k + 1 \in 1 .. Current(n) + 1 /\ (k + 1) - 1 = k
    BY <1>2
  <2>2. QED BY <1>1, <2>1
<1>5. QED BY <1>2, <1>3, <1>4 DEF AsLaid

AlwaysLaid == \A v \in [Nat -> Int], n \in Nat : Conventional(prog) /\ Layout(v, n) => AsLaid(v, n)

LEMMA LaidEverywhere == AlwaysLaid
  BY LaidHere DEF AlwaysLaid

LEMMA LaidNext ==
  ASSUME NEW v \in [Nat -> Int], NEW n \in Nat, Conventional(prog)', Layout(v, n)'
  PROVE  AsLaid(v, n)'
<1>1. AlwaysLaid'
  BY LaidEverywhere, PTL
<1>2. QED BY <1>1 DEF AlwaysLaid

\* The first m frames stay as they are.
LEMMA SamePrefix ==
  ASSUME NEW v, NEW w, NEW n \in Nat, NEW l \in Nat, AsLaid(v, n), AsLaid(w, l)',
         NEW m \in Nat, m <= Current(n), m <= Current(l)',
         \A k \in 0 .. m - 1 : FrameAt(w, l, k)' = FrameAt(v, n, k)
  PROVE  \A k \in 1 .. m : Frames'[k] = Frames[k]
<1>1. TAKE k \in 1 .. m
<1>2. Current(n) \in Nat /\ Current(l)' \in Nat
  BY DEF AsLaid
<1>3. k - 1 \in 0 .. m - 1 /\ k - 1 \in 0 .. Current(n) /\ k - 1 \in 0 .. Current(l)'
      /\ (k - 1) + 1 = k
  BY <1>2
<1>4. Frames[k] = FrameAt(v, n, k - 1)
  BY <1>3 DEF AsLaid
<1>5. Frames'[k] = FrameAt(w, l, k - 1)'
  BY <1>3 DEF AsLaid
<1>6. QED BY <1>3, <1>4, <1>5

(* The function that runs stays the same, whatever happens in its frame.   *)
LEMMA IsCompute ==
  ASSUME Conventional(prog), NEW v \in [Nat -> Int], NEW n \in Nat, Layout(v, n),
         NEW w \in [Nat -> Int], NEW l \in Nat, Layout(w, l)',
         NEW m \in Nat, m = Current(n), m = Current(l)',
         Spared(v, n, m), Prolongs(w, l, v, n, m),
         UNCHANGED <<out, status>>
  PROVE  Abstract!Compute
<1>1. m \in 0 .. n
  BY CurrentType
<1>2. m <= l
  <2>1. (Current(l) \in 0 .. l)'
    BY DEF Current, Layout
  <2>2. QED BY <1>1, <2>1
<1>3. Conventional(prog)'
  BY ConventionStays DEF Spared
<1>4. AsLaid(v, n) /\ AsLaid(w, l)'
  BY <1>3, LaidHere, LaidNext
<1>5. /\ \A k \in 0 .. m - 1 : FrameAt(w, l, k)' = FrameAt(v, n, k)
      /\ SameCall(FrameAt(w, l, m)', FrameAt(v, n, m))
  <2>1. m <= Current(n) /\ m <= Current(l)' /\ Current(l)' \in Nat
    OBVIOUS
  <2>2. QED BY <1>1, <1>2, <2>1, AbstractBelow
<1>6. /\ Len(Frames) = m + 1 /\ Len(Frames') = m + 1
      /\ Frames[m + 1] = FrameAt(v, n, m) /\ Frames'[m + 1] = FrameAt(w, l, m)'
  <2>1. m \in 0 .. Current(n) /\ m \in 0 .. Current(l)'
    BY <1>1
  <2>2. QED BY <1>4, <2>1 DEF AsLaid
<1>7. ASSUME NEW k \in 1 .. (m + 1) - 1 PROVE Frames'[k] = Frames[k]
  <2>1. k - 1 \in 0 .. m - 1 /\ k - 1 \in 0 .. Current(n) /\ k - 1 \in 0 .. Current(l)'
        /\ (k - 1) + 1 = k
    BY <1>1
  <2>2. Frames[k] = FrameAt(v, n, k - 1) /\ Frames'[k] = FrameAt(w, l, k - 1)'
    BY <1>4, <2>1 DEF AsLaid
  <2>3. QED BY <1>5, <2>1, <2>2
<1>8. QED
  BY <1>5, <1>6, <1>7 DEF SameCall, SameLength, Abstract!Compute, Abstract!Depth, Abstract!Running, Abstract!Untouched
-----------------------------------------------------------------------------
(* The instructions that neither call nor return.                          *)

PlainOps == ValueOps \cup {"CALL_EXT", "FPSTORE", "DROP", "NOP"}

LEMMA PlainSuccessor ==
  ASSUME TypeOK, ip # NULL, Instr.op \in PlainOps
  PROVE  /\ ip \in Nodes /\ Instr.op \notin {"ENTER", "CALL"}
         /\ Successors(prog, ip) = {Instr.next}
<1>1. ip \in Nodes
  BY DEF TypeOK
<1>2. Instr.op \notin {"ENTER", "CALL", "HALT", "RET", "RET_VOID", "JMP", "JF", "JT"}
  BY DEF PlainOps, ValueOps, AddressOps, ConvertOps, LoadOps, StoreOps, IntOps, DblOps
<1>3. QED BY <1>1, <1>2 DEF Successors, Instr

LEMMA LayoutHere ==
  ASSUME Conventional(prog), NEW v \in [Nat -> Int], NEW n \in Nat, Layout(v, n),
         ip \in Nodes, Instr.op # "ENTER"
  PROVE  /\ ~ Entering /\ Current(n) = n /\ Node(v, n, n) = ip /\ Fn(v, n, n) = prog.frame[ip]
         /\ Allowed(prog, ip) /\ fp = Base(v, n)
         /\ sp = Base(v, n) + Fn(v, n, n).locals + prog.depth[ip] /\ prog.depth[ip] \in Nat
         /\ prog.depth[ip] > 0 => sp \in Slots
         /\ \A a \in prog.addrs[ip] :
              Address(stack[Base(v, n) + Fn(v, n, n).locals + a], Fn(v, n, n), Base(v, n))
<1>1. ~ Entering /\ Current(n) = n /\ Node(v, n, n) = ip
  BY DEF Entering, Current, Node
<1>0. prog.depth[ip] \in Nat
  BY NodeFacts
<1>2. Operands(v, n, n) = prog.depth[ip] /\ Fn(v, n, n) = prog.frame[ip]
  BY <1>0, <1>1 DEF Operands, Fn
<1>3. fp = Base(v, n) /\ sp = End(v, n, n) /\ (Operands(v, n, n) > 0 => sp \in Slots) /\ Frame(v, n, n)
  BY <1>1 DEF Layout
<1>4. Allowed(prog, ip) /\ prog.depth[ip] \in Nat
  BY NodeFacts
<1>5. QED BY <1>1, <1>2, <1>3, <1>4 DEF End, Frame

LEMMA ReplaceStep ==
  ASSUME TypeOK, NEW v \in [Nat -> Int], NEW n \in Nat, ip # NULL,
         Instr.op \in ValueOps, NEW c, Replace(Arity(Instr.op), c),
         sp - Arity(Instr.op) + 1 \in Slots, UNCHANGED <<prog, fp>>,
         Instr.op \in AddressOps => Address(c, Fn(v, n, n), Base(v, n))
  PROVE  Proceeds /\ Writes(v, n)
<1>1. Instr.op \in PlainOps
  BY DEF PlainOps
<1>2. sp' = sp - Arity(Instr.op) + 1 /\ sp' \in Slots
      /\ stack' = [stack EXCEPT ![sp'] = c] /\ ip' = Instr.next
  BY DEF Replace
<1>3. stack'[sp'] = c /\ \A i \in Slots : i # sp' => stack'[i] = stack[i]
  BY <1>2 DEF TypeOK
<1>4. Proceeds
  BY <1>1, <1>2, PlainSuccessor DEF Proceeds
<1>5. Writes(v, n)
  BY <1>2, <1>3 DEF Writes
<1>6. QED BY <1>4, <1>5

\* A slot of the convention is a parameter or a local of the function.
LEMMA SlotOwn ==
  ASSUME TypeOK, Conventional(prog), NEW v \in [Nat -> Int], NEW n \in Nat, Layout(v, n),
         ip # NULL, Instr.op \in SlotOps
  PROVE  Slot \in Own(Fn(v, n, n), Base(v, n))
<1>1. ip \in Nodes /\ Instr.op # "ENTER"
  BY DEF TypeOK, SlotOps
<1>2. Fn(v, n, n) = prog.frame[ip] /\ fp = Base(v, n) /\ Allowed(prog, ip) /\ Instr = prog.code[ip]
  BY <1>1, LayoutHere DEF Instr
<1>3. Instr.arg \in 1 .. Fn(v, n, n).locals \cup -1 - Fn(v, n, n).params .. -2
  BY <1>2 DEF Allowed
<1>4. Base(v, n) \in Int /\ Fn(v, n, n).locals \in Nat /\ Fn(v, n, n).params \in Nat
  BY FnFacts
<1>5. QED BY <1>2, <1>3, <1>4 DEF Slot, Own

LEMMA Computing ==
  ASSUME TypeOK, Conventional(prog), NEW v \in [Nat -> Int], NEW n \in Nat, Layout(v, n),
         \/ PushInt \/ PushDouble \/ FpLoad \/ IntArithmetic \/ DoubleArithmetic
         \/ ConvIntToDouble \/ ConvDoubleToInt \/ PushAddress \/ Load
  PROVE  Proceeds /\ Writes(v, n) /\ UNCHANGED <<out, status>>
<1>1. ip # NULL /\ sp \in Int /\ UNCHANGED <<prog, fp>> /\ UNCHANGED <<out, status>>
  BY DEF TypeOK, At, PushInt, PushDouble, FpLoad, IntArithmetic, DoubleArithmetic, ConvIntToDouble,
         ConvDoubleToInt, PushAddress, Load
<1>2. CASE PushInt \/ PushDouble \/ FpLoad
  <2>1. /\ Instr.op \in ValueOps /\ Instr.op \notin AddressOps /\ Arity(Instr.op) = 0
        /\ sp + 1 \in Slots /\ \E c : Replace(0, c)
    BY <1>2 DEF At, PushInt, PushDouble, FpLoad, Room, ValueOps, AddressOps, Arity, Pop2Ops, PopOps,
                IntOps, DblOps
  <2>2. QED BY <1>1, <2>1, ReplaceStep
<1>3. CASE IntArithmetic \/ DoubleArithmetic
  <2>1. Instr.op \in IntOps \cup DblOps /\ sp - 2 + 1 \in Slots /\ \E c : Replace(2, c)
    BY <1>1, <1>3 DEF At, IntArithmetic, DoubleArithmetic, Has
  <2>2. Instr.op \in ValueOps /\ Instr.op \notin AddressOps /\ Arity(Instr.op) = 2
    BY <2>1 DEF ValueOps, AddressOps, Arity, Pop2Ops, IntOps, DblOps
  <2>3. QED BY <1>1, <2>1, <2>2, ReplaceStep
<1>4. CASE ConvIntToDouble \/ ConvDoubleToInt \/ Load
  <2>1. /\ Instr.op \in ConvertOps \cup LoadOps /\ sp - 1 + 1 \in Slots
        /\ \E c : Replace(1, c)
    BY <1>1, <1>4 DEF At, ConvIntToDouble, ConvDoubleToInt, Load, Has, ConvertOps, LoadOps
  <2>2. Instr.op \in ValueOps /\ Instr.op \notin AddressOps /\ Arity(Instr.op) = 1
    BY <2>1 DEF ValueOps, AddressOps, Arity, Pop2Ops, PopOps, IntOps, DblOps, ConvertOps, LoadOps
  <2>3. QED BY <1>1, <2>1, <2>2, ReplaceStep
<1>5. CASE PushAddress
  <2>1. Instr.op \in AddressOps /\ sp + 1 \in Slots
    BY <1>5 DEF PushAddress, At, AddressOps, Room
  <2>2. Instr.op \in ValueOps /\ Arity(Instr.op) = 0
    BY <2>1 DEF ValueOps, AddressOps, Arity, Pop2Ops, PopOps, IntOps, DblOps
  <2>3. \E c : Replace(0, c) /\ Address(c, Fn(v, n, n), Base(v, n))
    <3>1. CASE At({"ADDR"}) /\ Replace(0, GlobalP(Instr.arg))
      BY <3>1 DEF Address, GlobalP
    <3>2. CASE At({"FPADDR_I", "FPADDR_F"}) /\ SlotOK /\ Replace(0, StackP(Slot))
      <4>1. Slot \in Own(Fn(v, n, n), Base(v, n))
        BY <1>1, <3>2, SlotOwn DEF At, SlotOps
      <4>2. QED BY <3>2, <4>1 DEF Address, StackP, SlotOK
    <3>3. QED BY <1>5, <3>1, <3>2 DEF PushAddress
  <2>4. QED BY <1>1, <2>1, <2>2, <2>3, ReplaceStep
<1>6. QED BY <1>2, <1>3, <1>4, <1>5

LEMMA Dividing ==
  ASSUME TypeOK, NEW v \in [Nat -> Int], NEW n \in Nat, IntDivision
  PROVE  \/ Stop("error") \/ Stop("undefined")
         \/ Proceeds /\ Writes(v, n) /\ UNCHANGED <<out, status>>
<1>1. \/ Stop("error") \/ Stop("undefined")
      \/ (\E c : Replace(2, c)) /\ UNCHANGED <<prog, fp, mem, out, status>>
  BY DEF IntDivision
<1>2. /\ ip # NULL /\ sp - 2 + 1 \in Slots
      /\ Instr.op \in ValueOps /\ Instr.op \notin AddressOps /\ Arity(Instr.op) = 2
  BY DEF TypeOK, At, IntDivision, Has, ValueOps, AddressOps, Arity, Pop2Ops
<1>3. QED BY <1>1, <1>2, ReplaceStep

LEMMA Storing ==
  ASSUME TypeOK, Conventional(prog), NEW v \in [Nat -> Int], NEW n \in Nat, Layout(v, n), Store
  PROVE  Proceeds /\ Writes(v, n) /\ UNCHANGED <<out, status>>
<1>1. /\ ip # NULL /\ ip \in Nodes /\ Instr.op \in StoreOps /\ sp \in Int
      /\ sp - 1 \in Slots /\ sp' = sp - 1 /\ ip' = Instr.next
      /\ UNCHANGED <<prog, fp>> /\ UNCHANGED <<out, status>>
  BY DEF TypeOK, At, Store, Has, StoreOps
<1>2. /\ Instr.op \in ValueOps /\ Instr.op \in PlainOps /\ Instr.op \notin AddressOps
      /\ Instr.op # "ENTER" /\ Arity(Instr.op) = 2
  BY <1>1 DEF ValueOps, PlainOps, StoreOps, AddressOps, Arity, Pop2Ops
<1>3. Address(stack[sp - 1], Fn(v, n, n), Base(v, n))
  <2>1. Allowed(prog, ip) /\ Instr = prog.code[ip] /\ prog.depth[ip] \in Nat
        /\ sp = Base(v, n) + Fn(v, n, n).locals + prog.depth[ip]
    BY <1>1, <1>2, LayoutHere DEF Instr
  <2>2. prog.depth[ip] - 1 \in prog.addrs[ip]
    BY <1>1, <2>1 DEF Allowed
  <2>3. Base(v, n) \in Int /\ Fn(v, n, n).locals \in Nat
    BY FnFacts
  <2>4. Base(v, n) + Fn(v, n, n).locals + (prog.depth[ip] - 1) = sp - 1
    BY <2>1, <2>3
  <2>5. QED BY <1>1, <1>2, <2>2, <2>4, LayoutHere
<1>4. PICK c : \/ /\ stack[sp - 1].tag = "stack"
                  /\ stack' = [stack EXCEPT ![stack[sp - 1].val] = c, ![sp - 1] = c]
               \/ stack' = [stack EXCEPT ![sp - 1] = c]
  BY DEF Store, Top
<1>5. ASSUME NEW i \in Slots
      PROVE  stack'[i] = stack[i] \/ i \in Own(Fn(v, n, n), Base(v, n)) \/ i = sp - 1
  BY <1>3, <1>4 DEF Address, TypeOK
<1>6. Proceeds
  BY <1>1, <1>2, PlainSuccessor DEF Proceeds
<1>7. Writes(v, n)
  BY <1>1, <1>2, <1>5 DEF Writes
<1>8. QED BY <1>1, <1>6, <1>7

LEMMA Consuming ==
  ASSUME TypeOK, Conventional(prog), NEW v \in [Nat -> Int], NEW n \in Nat, Layout(v, n),
         FpStore \/ CallExt \/ Drop \/ Nop \/ Jump \/ JumpIf
  PROVE  Proceeds /\ Writes(v, n) /\ status' = status /\ (~ CallExt => out' = out)
<1>1. ip # NULL /\ ip \in Nodes /\ sp \in Int /\ UNCHANGED <<prog, fp>> /\ status' = status
      /\ (~ CallExt => out' = out)
  BY DEF TypeOK, At, FpStore, CallExt, Drop, Nop, Jump, JumpIf
<1>2. Instr.op \in {"FPSTORE", "CALL_EXT", "DROP", "NOP", "JMP", "JF", "JT"}
  BY DEF At, FpStore, CallExt, Drop, Nop, Jump, JumpIf
<1>3. /\ Instr.op \notin {"ENTER", "CALL"} /\ Instr.op \notin ValueOps /\ Instr.op \notin AddressOps
      /\ Arity(Instr.op) = IF Instr.op \in {"NOP", "JMP"} THEN 0 ELSE 1
  BY <1>2 DEF ValueOps, AddressOps, ConvertOps, LoadOps, StoreOps, IntOps, DblOps, Arity, Pop2Ops, PopOps
<1>4. sp' = sp - Arity(Instr.op)
  BY <1>1, <1>3 DEF At, FpStore, CallExt, Drop, Nop, Jump, JumpIf
<1>5. ip' \in Successors(prog, ip)
  <2>1. CASE FpStore \/ CallExt \/ Drop \/ Nop
    <3>1. Instr.op \in PlainOps /\ ip' = Instr.next
      BY <2>1 DEF At, FpStore, CallExt, Drop, Nop, PlainOps
    <3>2. QED BY <1>1, <3>1, PlainSuccessor
  <2>2. CASE Jump
    BY <2>2 DEF Jump, At, Successors, Instr
  <2>3. CASE JumpIf
    <3>1. Instr.op \in {"JF", "JT"} /\ ip' \in {Instr.arg, Instr.next}
      BY <2>3 DEF JumpIf, At
    <3>2. Successors(prog, ip) = {Instr.arg, Instr.next}
      BY <3>1 DEF Successors, Instr
    <3>3. QED BY <3>1, <3>2
  <2>4. QED BY <2>1, <2>2, <2>3
<1>6. Proceeds
  BY <1>1, <1>3, <1>4, <1>5 DEF Proceeds
<1>7. ASSUME NEW i \in Slots PROVE stack'[i] = stack[i] \/ i \in Own(Fn(v, n, n), Base(v, n))
  <2>1. CASE FpStore
    <3>1. Slot \in Own(Fn(v, n, n), Base(v, n))
      BY <1>1, <2>1, SlotOwn DEF FpStore, At, SlotOps
    <3>2. QED BY <2>1, <3>1 DEF FpStore, TypeOK
  <2>2. CASE CallExt \/ Drop \/ Nop \/ Jump \/ JumpIf
    BY <2>2 DEF CallExt, Drop, Nop, Jump, JumpIf
  <2>3. QED BY <2>1, <2>2
<1>8. Writes(v, n)
  BY <1>3, <1>7 DEF Writes
<1>9. QED BY <1>1, <1>6, <1>8
-----------------------------------------------------------------------------
(* CALL: the callee's frame is the operands it takes and the return        *)
(* address, and the caller will go on without them.                        *)

LEMMA CallFacts ==
  ASSUME TypeOK, Conventional(prog), NEW v \in [Nat -> Int], NEW n \in Nat, Layout(v, n), Call
  PROVE  /\ ~ Entering /\ ip \in Nodes /\ ip' \in Nodes /\ prog.code[ip'].op = "ENTER" /\ Entering'
         /\ fp = Base(v, n) /\ sp = Base(v, n) + Fn(v, n, n).locals + prog.depth[ip]
         /\ Current(n) = n /\ Fn(v, n, n) = prog.frame[ip]
         /\ prog.depth[ip] \in Nat /\ prog.frame[ip'].params \in Nat
         /\ prog.frame[ip'].results \in {0, 1}
         /\ prog.frame[ip'].params <= prog.depth[ip]
         /\ prog.frame[ip'].function /\ prog.depth[ip'] = 0 /\ prog.addrs[ip'] = {}
         /\ Instr.next \in Nodes /\ prog.code[Instr.next].op # "ENTER"
         /\ prog.frame[Instr.next] = prog.frame[ip]
         /\ prog.depth[Instr.next] =
              prog.depth[ip] - prog.frame[ip'].params + prog.frame[ip'].results
         /\ prog.addrs[Instr.next] \subseteq
              prog.addrs[ip] \cap 1 .. prog.depth[ip] - prog.frame[ip'].params
<1>1. ip \in Nodes /\ Instr = prog.code[ip] /\ Instr.op = "CALL" /\ ip' = Instr.arg /\ prog' = prog
  BY DEF TypeOK, Call, At, Instr
<1>2. /\ ~ Entering /\ Current(n) = n /\ Fn(v, n, n) = prog.frame[ip]
      /\ Allowed(prog, ip) /\ fp = Base(v, n)
      /\ sp = Base(v, n) + Fn(v, n, n).locals + prog.depth[ip] /\ prog.depth[ip] \in Nat
  BY <1>1, LayoutHere
<1>3. ip' \in Nodes /\ prog.code[ip'].op = "ENTER" /\ Takes(prog, ip) = prog.frame[ip'].params
      /\ Gives(prog, ip) = prog.frame[ip'].results
      /\ prog.frame[ip'].params <= prog.depth[ip]
  BY <1>1, <1>2 DEF Allowed, Takes, Gives, Nodes
<1>4. /\ Allowed(prog, ip') /\ prog.frame[ip'].params \in Nat
      /\ prog.frame[ip'].results \in {0, 1} /\ prog.addrs[ip'] \subseteq 1 .. prog.depth[ip']
  BY <1>3, NodeFacts
<1>5. prog.frame[ip'].function /\ prog.depth[ip'] = 0
  BY <1>3, <1>4 DEF Allowed
<1>6. prog.addrs[ip'] = {}
  BY <1>4, <1>5
<1>7. Entering'
  BY <1>1, <1>3 DEF Entering, Nodes, Instr
<1>8. Successors(prog, ip) = {Instr.next}
  BY <1>1 DEF Successors
<1>9. Flows(prog, ip, Instr.next)
  BY <1>1, <1>8, NodeFacts
<1>10. QED
  BY <1>1, <1>2, <1>3, <1>4, <1>5, <1>6, <1>7, <1>9 DEF Flows, AddressOps, Nodes

\* The callee will put its frame pointer after the return address.
Pushed(w, v, n) == w[n + 1] = sp + 2 /\ \A i \in 1 .. n : w[i] = v[i]

LEMMA CallSpares ==
  ASSUME TypeOK, Conventional(prog), NEW v \in [Nat -> Int], NEW n \in Nat, Layout(v, n), Call,
         NEW l \in Nat, l = n + 1,
         NEW w \in [Nat -> Int], Pushed(w, v, n)
  PROVE  /\ Spared(v, n, n) /\ Prolongs(w, l, v, n, n)
         /\ \A i \in Slots : i <= sp => stack'[i] = stack[i]
         /\ n > 0 => stack'[v[n]] = stack[v[n]]
         /\ Base(v, n) <= sp
         /\ Node(w, l, n)' = Instr.next
<1>1. /\ stack' = [stack EXCEPT ![sp + 1] = InstrP(Instr.next)] /\ prog' = prog
      /\ sp + 1 \in Slots /\ sp \in Int
  BY DEF Call, TypeOK, Room
<1>2. \A i \in Slots : i <= sp => stack'[i] = stack[i]
  BY <1>1 DEF TypeOK, Slots
<1>3. stack'[sp + 1] = InstrP(Instr.next)
  BY <1>1 DEF TypeOK
<1>4. Fn(v, n, n).locals \in Nat /\ prog.depth[ip] \in Nat /\ Base(v, n) \in Int
      /\ Fn(v, n, n).params \in Nat /\ (n > 0 => Base(v, n) = v[n])
      /\ sp = Base(v, n) + Fn(v, n, n).locals + prog.depth[ip]
      /\ Fn(v, n, n) = prog.frame[ip] /\ ~ Entering
      /\ prog.frame[Instr.next] = prog.frame[ip]
  BY FnFacts, CallFacts DEF Base
<1>5. Base(v, n) <= sp
  BY <1>4
<1>6. First(v, n, n) = Base(v, n) - 1 - Fn(v, n, n).params
  BY DEF First
<1>7. n > 0 => v[n] - 1 \in Slots /\ v[n] \in Slots
  BY <1>4 DEF Layout, Linked
<1>8. Spared(v, n, n)
  <2>1. \A i \in Slots : i < First(v, n, n) => i <= sp
    BY <1>4, <1>5, <1>6 DEF Slots
  <2>2. QED BY <1>1, <1>2, <1>4, <1>5, <1>7, <2>1 DEF Spared
<1>9. n > 0 => stack'[v[n]] = stack[v[n]]
  BY <1>2, <1>4, <1>5, <1>7
<1>10. Node(w, l, n)' = Instr.next
  <2>1. w[l] = sp + 2 /\ (sp + 2) - 1 = sp + 1 /\ n # l /\ n + 1 = l
    BY <1>1 DEF Pushed
  <2>2. Node(w, l, n)' = stack'[sp + 1].val
    BY <2>1 DEF Node
  <2>3. QED BY <1>3, <2>2 DEF InstrP
<1>11. \A i \in 1 .. n : w[i] = v[i]
  BY DEF Pushed
<1>12. Fn(w, l, n)' = Fn(v, n, n)
  BY <1>1, <1>4, <1>10 DEF Fn
<1>13. Prolongs(w, l, v, n, n)
  BY <1>11, <1>12 DEF Prolongs
<1>14. QED BY <1>2, <1>5, <1>8, <1>9, <1>10, <1>13

LEMMA LayoutCall ==
  ASSUME TypeOK, Conventional(prog), NEW v \in [Nat -> Int], NEW n \in Nat, Layout(v, n), Call,
         NEW l \in Nat, l = n + 1,
         NEW w \in [Nat -> Int], Pushed(w, v, n)
  PROVE  Layout(w, l)'
<1>1. /\ Spared(v, n, n) /\ Prolongs(w, l, v, n, n)
      /\ \A i \in Slots : i <= sp => stack'[i] = stack[i]
      /\ n > 0 => stack'[v[n]] = stack[v[n]]
      /\ Node(w, l, n)' = Instr.next
  BY CallSpares
<1>2. /\ ip \in Nodes /\ ~ Entering /\ prog' = prog /\ fp' = fp /\ sp' = sp + 1 /\ sp \in Int
      /\ sp + 1 \in Slots /\ stack'[sp + 1] = InstrP(Instr.next)
  BY CallFacts DEF Call, TypeOK, Room
<1>3. w[l] = sp + 2 /\ l \in Nat /\ n <= l /\ n # l /\ l # 0 /\ l - 1 = n /\ n \in 0 .. n
  BY DEF Pushed
<1>4. /\ Base(v, n) \in Int /\ Fn(v, n, n).locals \in Nat /\ prog.depth[ip] \in Nat
      /\ NoFrame <= Base(v, n) /\ Base(v, n) <= sp
      /\ sp = Base(v, n) + Fn(v, n, n).locals + prog.depth[ip]
  BY FnFacts, FramesInOrder, CallFacts, CallSpares
<1>5. /\ Node(w, l, l)' = ip' /\ Fn(w, l, l)' = prog.frame[ip'] /\ Operands(w, l, l)' = 0
  <2>1. prog.depth[ip'] = 0
    BY CallFacts
  <2>2. QED BY <1>2, <2>1 DEF Node, Fn, Operands
<1>6. Fn(w, l, n)' = Fn(v, n, n) /\ Base(w, n) = Base(v, n) /\ Base(w, n)' = Base(w, n)
  BY <1>1, <1>3 DEF Prolongs, Base
<1>7. Operands(w, l, n)' = prog.depth[ip] - prog.frame[ip'].params
  <2>1. Operands(w, l, n)' = prog.depth[Instr.next] - prog.frame[ip'].results
    BY <1>1, <1>2, <1>3, <1>5 DEF Operands
  <2>2. QED BY <2>1, CallFacts
<1>8. Frame(w, l, l)'
  <2>1. /\ ip' \in Nodes /\ prog.addrs[ip'] = {}
        /\ prog.frame[ip'].function = TRUE
    BY CallFacts, NodeFacts
  <2>2. (Node(w, l, l) \in Nodes)' /\ prog'.addrs[Node(w, l, l)'] = {}
    BY <1>2, <1>5, <2>1 DEF Nodes
  <2>3. Fn(w, l, l)'.function = (l > 0)
    <3>1. (l > 0) = TRUE
      BY <1>3
    <3>2. Fn(w, l, l)'.function = TRUE
      BY <1>5, <2>1, Zenon
    <3>3. QED BY <3>1, <3>2, Zenon
  <2>4. ~ (l < l) /\ Operands(w, l, l)' \in Nat
    BY <1>5
  <2>5. QED BY <2>2, <2>3, <2>4 DEF Frame
<1>9. Frame(w, l, n)'
  <2>1. Frame(v, n, n) /\ Node(v, n, n) = ip
    BY DEF Layout, Node
  <2>2. /\ Instr.next \in Nodes /\ prog.code[Instr.next].op # "ENTER"
        /\ Operands(w, l, n)' \in Nat
    BY <1>4, <1>7, CallFacts
  <2>3. /\ (Node(w, l, n) \in Nodes)' /\ prog'.code[Node(w, l, n)'].op # "ENTER"
        /\ Fn(w, l, n)'.function = (n > 0)
    BY <1>1, <1>2, <1>6, <2>1, <2>2 DEF Frame, Nodes
  <2>4. ASSUME NEW a \in prog.addrs[Instr.next]
        PROVE  /\ a <= Operands(w, l, n)'
               /\ Address(stack'[Base(v, n) + Fn(v, n, n).locals + a], Fn(v, n, n), Base(v, n))
    <3> DEFINE i == Base(v, n) + Fn(v, n, n).locals + a
    <3>1. a \in prog.addrs[ip] /\ a \in 1 .. prog.depth[ip] - prog.frame[ip'].params
          /\ prog.frame[ip'].params \in Nat
      BY CallFacts
    <3>2. i \in Slots /\ i <= sp
      BY <1>2, <1>4, <3>1 DEF Slots, NoFrame
    <3>3. Address(stack[i], Fn(v, n, n), Base(v, n))
      BY <2>1, <3>1 DEF Frame
    <3>4. stack'[i] = stack[i]
      BY <1>1, <3>2
    <3>5. a <= Operands(w, l, n)'
      BY <1>4, <1>7, <3>1
    <3>6. QED BY <3>3, <3>4, <3>5
  <2>5. \A a \in prog'.addrs[Node(w, l, n)'] :
           /\ a <= Operands(w, l, n)'
           /\ Address(stack'[Base(w, n) + Fn(w, l, n)'.locals + a], Fn(w, l, n)', Base(w, n))
    BY <1>1, <1>2, <1>6, <2>4
  <2>6. QED BY <1>6, <2>2, <2>3, <2>5 DEF Frame, Address, Own
<1>10. \A k \in 0 .. l : Frame(w, l, k)'
  <2>1. \A k \in 0 .. n - 1 : Frame(w, l, k)'
    BY <1>1, <1>3, FramesBelow
  <2>2. QED BY <1>8, <1>9, <2>1
<1>11. Linked(w, l, l)'
  <2>1. Base(w, l)' = sp + 2
    BY <1>3 DEF Base
  <2>2. First(w, l, l)' = sp + 1 - prog.frame[ip'].params
    <3>1. prog.frame[ip'].params \in Nat
      BY CallFacts
    <3>2. QED BY <1>2, <1>5, <2>1, <3>1 DEF First
  <2>3. End(w, l, n)' = sp - prog.frame[ip'].params
    <3>1. End(w, l, n)' = Base(v, n) + Fn(v, n, n).locals + (prog.depth[ip] - prog.frame[ip'].params)
      BY <1>6, <1>7 DEF End
    <3>2. prog.frame[ip'].params \in Nat
      BY CallFacts
    <3>3. QED BY <1>4, <3>1, <3>2
  <2>4. prog.frame[ip'].params \in Nat /\ prog.frame[ip'].params <= prog.depth[ip]
    BY CallFacts
  <2>5. First(w, l, l)' = End(w, l, n)' + 1
    BY <1>2, <2>2, <2>3, <2>4
  <2>6. ASSUME NEW i \in 1 .. n PROVE w[i] < First(w, l, l)'
    <3>1. w[i] = v[i] /\ v[i] \in Int
      BY <1>1 DEF Prolongs
    <3>2. Base(v, n) < First(w, l, l)'
      BY <1>2, <1>4, <2>2, <2>4
    <3>3. v[i] <= Base(v, n)
      <4>1. CASE i = n
        BY <3>1, <4>1 DEF Base
      <4>2. CASE i # n
        <5>1. n \in 1 .. n /\ i \in 1 .. n - 1 /\ n \in 0 .. n /\ n > 0
          BY <4>2
        <5>2. v[i] < First(v, n, n)
          BY <5>1, FramesInOrder
        <5>3. First(v, n, n) <= v[n] - 1 /\ First(v, n, n) \in Int /\ v[n] \in Int
          BY <5>1, FnFacts
        <5>4. Base(v, n) = v[n]
          BY <5>1 DEF Base
        <5>5. QED BY <3>1, <5>2, <5>3, <5>4
      <4>3. QED BY <4>1, <4>2
    <3>4. First(w, l, l)' \in Int
      BY <1>2, <2>2, <2>4
    <3>5. QED BY <1>4, <3>1, <3>2, <3>3, <3>4
  <2>7. Entering'
    BY CallFacts
  <2>8. (w[l] - 1 \in Slots)' /\ stack'[w[l] - 1].tag = "instr"
    <3>1. w[l] - 1 = sp + 1
      BY <1>2, <1>3
    <3>2. QED BY <1>2, <3>1 DEF InstrP, Slots
  <2>9. \A i \in 1 .. l - 1 : w[i] < First(w, l, l)'
    BY <1>3, <2>6
  <2>10. First(w, l, l)' = End(w, l, l - 1)' + 1
    BY <1>3, <2>5
  <2>11. QED BY <2>7, <2>8, <2>9, <2>10 DEF Linked
<1>12. \A k \in 1 .. l : Linked(w, l, k)'
  <2>1. \A k \in 1 .. n - 1 : Linked(w, l, k)'
    BY <1>1, <1>3, FramesBelow
  <2>2. ASSUME n > 0 PROVE Linked(w, l, n)'
    <3>1. n \in 1 .. n /\ stack'[v[n]] = stack[v[n]]
      BY <1>1, <2>2
    <3>2. QED BY <1>1, <1>2, <1>3, <3>1, LinkedStill
  <2>3. QED BY <1>11, <2>1, <2>2
<1>13. Entering' /\ l > 0 /\ fp' = Base(w, l - 1)' /\ sp' = w[l] - 1
  <2>1. Entering' /\ fp = Base(v, n)
    BY CallFacts
  <2>2. QED BY <1>2, <1>3, <1>6, <2>1
<1>14. QED BY <1>10, <1>12, <1>13 DEF Layout
-----------------------------------------------------------------------------
(* ENTER: the frame pointer of the layout becomes the register.            *)

LEMMA EnterFacts ==
  ASSUME TypeOK, Conventional(prog), NEW v \in [Nat -> Int], NEW n \in Nat, Layout(v, n), Enter
  PROVE  /\ Entering /\ ~ Entering' /\ n > 0 /\ n - 1 \in 0 .. n /\ Current(n) = n - 1
         /\ fp = Base(v, n - 1) /\ sp = v[n] - 1 /\ sp \in Int /\ v[n] - 1 \in Slots /\ v[n] \in Slots
         /\ stack[v[n] - 1].tag = "instr"
         /\ prog' = prog /\ fp' = v[n] /\ sp' = v[n] + Fn(v, n, n).locals
         /\ stack'[v[n]] = StackP(fp)
         /\ \A i \in Slots : i <= sp => stack'[i] = stack[i]
         /\ ip' \in Nodes /\ prog.frame[ip'] = prog.frame[ip] /\ Fn(v, n, n) = prog.frame[ip]
         /\ prog.depth[ip'] = 0 /\ prog.addrs[ip'] = {}
<1>1. ip \in Nodes /\ Instr = prog.code[ip] /\ Instr.op = "ENTER" /\ ip' = Instr.next /\ prog' = prog
  BY DEF TypeOK, Enter, At, Instr
<1>2. Entering
  BY <1>1 DEF Entering
<1>3. n > 0 /\ fp = Base(v, n - 1) /\ sp = v[n] - 1 /\ v[n] \in Int
  BY <1>2 DEF Layout
<1>4. v[n] - 1 \in Slots /\ stack[v[n] - 1].tag = "instr"
  BY <1>3 DEF Layout, Linked
<1>5. n - 1 \in 0 .. n /\ Current(n) = n - 1
  BY <1>2, <1>3 DEF Current
<1>6. sp + 1 = v[n] /\ v[n] \in Slots
  BY <1>3 DEF Enter, Room
<1>7. /\ stack'[v[n]] = StackP(fp)
      /\ \A i \in Slots : i <= sp => stack'[i] = stack[i]
  BY <1>3, <1>6 DEF Enter, TypeOK, Slots
<1>8. Fn(v, n, n) = prog.frame[ip]
  BY DEF Fn, Node
<1>9. Allowed(prog, ip)
  BY <1>1, NodeFacts
<1>10. Instr.arg = prog.frame[ip].locals /\ prog.depth[ip] = 0
  BY <1>1, <1>9 DEF Allowed
<1>11. fp' = v[n] /\ sp' = v[n] + Fn(v, n, n).locals
  BY <1>3, <1>6, <1>8, <1>10 DEF Enter
<1>12. Successors(prog, ip) = {Instr.next}
  BY <1>1 DEF Successors
<1>13. Flows(prog, ip, ip')
  BY <1>1, <1>12, NodeFacts
<1>14. Takes(prog, ip) = 0 /\ Gives(prog, ip) = 0 /\ prog.code[ip].op \notin AddressOps
  BY <1>1 DEF Takes, Gives, Arity, Pop2Ops, PopOps, IntOps, DblOps, ValueOps, AddressOps, ConvertOps,
              LoadOps, StoreOps
<1>15. ip' \in Nodes /\ prog.code[ip'].op # "ENTER" /\ prog.frame[ip'] = prog.frame[ip]
       /\ prog.depth[ip'] = 0
  BY <1>10, <1>13, <1>14 DEF Flows, Nodes
<1>16. prog.addrs[ip'] = {}
  <2>1. prog.addrs[ip'] \subseteq 1 .. prog.depth[ip']
    BY <1>15, NodeFacts
  <2>2. QED BY <1>15, <2>1
<1>17. ~ Entering'
  BY <1>1, <1>15 DEF Entering, Instr
<1>18. sp \in Int
  BY DEF TypeOK
<1>19. QED
  BY <1>1, <1>2, <1>3, <1>4, <1>5, <1>6, <1>7, <1>8, <1>11, <1>15, <1>16, <1>17, <1>18

LEMMA EnterSpares ==
  ASSUME TypeOK, Conventional(prog), NEW v \in [Nat -> Int], NEW n \in Nat, Layout(v, n), Enter
  PROVE  /\ Spared(v, n, n) /\ Prolongs(v, n, v, n, n)
         /\ Node(v, n, n)' = ip' /\ Fn(v, n, n)' = Fn(v, n, n) /\ Operands(v, n, n)' = 0
<1>1. /\ n > 0 /\ sp = v[n] - 1 /\ sp \in Int /\ v[n] - 1 \in Slots /\ prog' = prog
      /\ \A i \in Slots : i <= sp => stack'[i] = stack[i]
      /\ prog.frame[ip'] = prog.frame[ip] /\ Fn(v, n, n) = prog.frame[ip] /\ prog.depth[ip'] = 0
  BY EnterFacts
<1>2. First(v, n, n) <= v[n] - 1 /\ First(v, n, n) \in Int
  BY <1>1, FnFacts
<1>3. Spared(v, n, n)
  BY <1>1, <1>2 DEF Spared, Slots
<1>4. Node(v, n, n)' = ip' /\ Fn(v, n, n)' = Fn(v, n, n) /\ Operands(v, n, n)' = 0
  BY <1>1 DEF Node, Fn, Operands
<1>5. Prolongs(v, n, v, n, n)
  BY <1>4 DEF Prolongs
<1>6. QED BY <1>3, <1>4, <1>5

LEMMA LayoutEnter ==
  ASSUME TypeOK, Conventional(prog), NEW v \in [Nat -> Int], NEW n \in Nat, Layout(v, n), Enter
  PROVE  Layout(v, n)'
<1>1. /\ Spared(v, n, n) /\ Prolongs(v, n, v, n, n)
      /\ Node(v, n, n)' = ip' /\ Fn(v, n, n)' = Fn(v, n, n) /\ Operands(v, n, n)' = 0
  BY EnterSpares
<1>2. /\ ~ Entering' /\ n > 0 /\ fp = Base(v, n - 1) /\ prog' = prog
      /\ v[n] - 1 \in Slots /\ v[n] \in Slots /\ stack[v[n] - 1].tag = "instr"
      /\ fp' = v[n] /\ sp' = v[n] + Fn(v, n, n).locals /\ stack'[v[n]] = StackP(fp)
      /\ ip' \in Nodes /\ prog.addrs[ip'] = {}
  BY EnterFacts
<1>3. Frame(v, n, n)'
  <2>1. Frame(v, n, n)
    BY DEF Layout
  <2>2. (Node(v, n, n) \in Nodes)' /\ prog'.addrs[Node(v, n, n)'] = {}
    BY <1>1, <1>2 DEF Nodes
  <2>3. Fn(v, n, n)'.function = (n > 0)
    BY <1>1, <2>1 DEF Frame
  <2>4. ~ (n < n) /\ Operands(v, n, n)' \in Nat
    BY <1>1
  <2>5. QED BY <2>2, <2>3, <2>4 DEF Frame
<1>4. \A k \in 0 .. n : Frame(v, n, k)'
  <2>1. \A k \in 0 .. n - 1 : Frame(v, n, k)'
    BY <1>1, FramesBelow
  <2>2. QED BY <1>3, <2>1
<1>5. Linked(v, n, n)'
  <2>1. /\ First(v, n, n) = End(v, n, n - 1) + 1
        /\ \A i \in 1 .. n - 1 : v[i] < First(v, n, n)
    BY <1>2 DEF Layout, Linked
  <2>2. n - 1 \in 0 .. n - 1 /\ n \in 0 .. n /\ n - 1 \in 0 .. n
    BY <1>2
  <2>3. First(v, n, n)' = First(v, n, n) /\ End(v, n, n - 1)' = End(v, n, n - 1)
    BY <1>1, <2>2, NodesBelow
  <2>4. stack'[v[n] - 1] = stack[v[n] - 1]
    BY <1>1, <1>2 DEF Spared
  <2>5. Base(v, n - 1)' = Base(v, n - 1)
    BY DEF Base
  <2>6. stack'[v[n]] = StackP(Base(v, n - 1))
    BY <1>2
  <2>7. QED BY <1>2, <2>1, <2>3, <2>4, <2>5, <2>6 DEF Linked, Slots, StackP
<1>6. \A k \in 1 .. n : Linked(v, n, k)'
  <2>1. \A k \in 1 .. n - 1 : Linked(v, n, k)'
    BY <1>1, FramesBelow
  <2>2. QED BY <1>5, <2>1
<1>7. Base(v, n)' = v[n] /\ v[n] \in Int
  BY <1>2 DEF Base
<1>8. fp' = Base(v, n)' /\ sp' = End(v, n, n)'
  <2>1. End(v, n, n)' = v[n] + Fn(v, n, n).locals + 0
    BY <1>1, <1>7 DEF End
  <2>2. Fn(v, n, n).locals \in Nat
    BY FnFacts
  <2>3. QED BY <1>2, <1>7, <2>1, <2>2
<1>9. ~ (Operands(v, n, n)' > 0)
  BY <1>1
<1>10. QED BY <1>2, <1>4, <1>6, <1>8, <1>9 DEF Layout
-----------------------------------------------------------------------------
(* RET and RET_VOID: the caller goes on where its operands end, with the   *)
(* result on top if there is one.                                          *)

LEMMA ReturnFacts ==
  ASSUME TypeOK, Conventional(prog), NEW v \in [Nat -> Int], NEW n \in Nat, Layout(v, n),
         Ret \/ RetVoid
  PROVE  /\ ~ Entering /\ ~ Entering' /\ n > 0 /\ n - 1 \in 0 .. n /\ Current(n) = n
         /\ prog' = prog /\ fp' = Base(v, n - 1) /\ ip' = Node(v, n, n - 1) /\ ip' \in Nodes
         /\ sp' = First(v, n, n) - 1 + Fn(v, n, n).results
         /\ Fn(v, n, n).results > 0 => sp' \in Slots /\ Ret
         /\ \A i \in Slots : i < First(v, n, n) => stack'[i] = stack[i]
         /\ Ret => /\ sp \in Slots /\ Base(v, n) + 1 <= sp /\ stack'[sp'] = stack[sp]
                   /\ Fn(v, n, n).results = 1
         /\ RetVoid => Fn(v, n, n).results = 0
<1>1. ip \in Nodes /\ Instr = prog.code[ip] /\ Instr.op \in {"RET", "RET_VOID"} /\ prog' = prog
      /\ FrameOK
  BY DEF TypeOK, Ret, RetVoid, At, Instr
<1>2. /\ ~ Entering /\ Current(n) = n /\ Fn(v, n, n) = prog.frame[ip] /\ Node(v, n, n) = ip
      /\ Allowed(prog, ip) /\ fp = Base(v, n)
      /\ sp = Base(v, n) + Fn(v, n, n).locals + prog.depth[ip] /\ prog.depth[ip] \in Nat
  BY <1>1, LayoutHere
<1>3. /\ Fn(v, n, n).function /\ Instr.arg = Fn(v, n, n).params
      /\ Fn(v, n, n).results = Arity(Instr.op) /\ Takes(prog, ip) <= prog.depth[ip]
  BY <1>1, <1>2 DEF Allowed
<1>4. Takes(prog, ip) = Arity(Instr.op) /\ (Instr.op = "RET" => Arity(Instr.op) = 1)
      /\ (Instr.op = "RET_VOID" => Arity(Instr.op) = 0)
  BY <1>1 DEF Takes, Arity, Pop2Ops, PopOps, IntOps, DblOps
<1>5. n > 0
  <2>1. Fn(v, n, n).function = (n > 0)
    BY DEF Layout, Frame
  <2>2. QED BY <1>3, <2>1
<1>6. n - 1 \in 0 .. n /\ n - 1 < n /\ n - 1 # n /\ (n - 1) + 1 = n /\ n \in 1 .. n
  BY <1>5
<1>7. fp = v[n] /\ Base(v, n) = v[n] /\ v[n] \in Int
  BY <1>2, <1>5 DEF Base
<1>8. stack[v[n]] = StackP(Base(v, n - 1))
  BY <1>2, <1>6 DEF Layout, Linked
<1>9. fp' = Base(v, n - 1) /\ ip' = Node(v, n, n - 1)
  <2>1. fp' = stack[v[n]].val /\ ip' = stack[v[n] - 1].val
    BY <1>7 DEF Ret, RetVoid
  <2>2. QED BY <1>6, <1>8, <2>1 DEF StackP, Node
<1>10. ip' \in Nodes /\ prog.code[ip'].op # "ENTER"
  BY <1>6, <1>9 DEF Layout, Frame
<1>11. ~ Entering'
  BY <1>1, <1>10 DEF Entering, Instr, Nodes
<1>12. First(v, n, n) = v[n] - 1 - Fn(v, n, n).params /\ First(v, n, n) \in Int
       /\ Fn(v, n, n).params \in Nat /\ Fn(v, n, n).locals \in Nat
  BY <1>6, <1>7, FnFacts DEF First
<1>13. CASE Ret
  <2>1. /\ Instr.op = "RET" /\ fp - Instr.arg - 1 \in Slots /\ sp' = fp - Instr.arg - 1
        /\ stack' = [stack EXCEPT ![fp - Instr.arg - 1] = stack[sp]] /\ sp \in Slots
    BY <1>13 DEF Ret, At, Top, Has, TypeOK
  <2>2. fp - Instr.arg - 1 = First(v, n, n)
    BY <1>3, <1>7, <1>12
  <2>3. sp' = First(v, n, n) /\ First(v, n, n) \in Slots
        /\ stack' = [stack EXCEPT ![First(v, n, n)] = stack[sp]]
    BY <2>1, <2>2
  <2>4. stack'[sp'] = stack[sp] /\ \A i \in Slots : i < First(v, n, n) => stack'[i] = stack[i]
    BY <2>3 DEF TypeOK, Slots
  <2>5. Fn(v, n, n).results = 1 /\ prog.depth[ip] >= 1
    BY <1>2, <1>3, <1>4, <2>1
  <2>6. Base(v, n) + 1 <= sp
    BY <1>2, <1>7, <1>12, <2>5
  <2>7. ~ RetVoid
    BY <2>1 DEF RetVoid, At
  <2>8. sp' = First(v, n, n) - 1 + Fn(v, n, n).results
    BY <1>12, <2>3, <2>5
  <2>9. QED
    BY <1>1, <1>2, <1>5, <1>6, <1>9, <1>10, <1>11, <1>13, <2>1, <2>3, <2>4, <2>5, <2>6, <2>7, <2>8
<1>14. CASE RetVoid
  <2>1. Instr.op = "RET_VOID" /\ sp' = fp - Instr.arg - 2 /\ stack' = stack
    BY <1>14 DEF RetVoid, At
  <2>2. Fn(v, n, n).results = 0
    BY <1>3, <1>4, <2>1
  <2>3. sp' = First(v, n, n) - 1 + Fn(v, n, n).results
    BY <1>3, <1>7, <1>12, <2>1, <2>2
  <2>4. ~ Ret
    BY <2>1 DEF Ret, At
  <2>5. QED
    BY <1>1, <1>2, <1>5, <1>6, <1>9, <1>10, <1>11, <1>14, <2>1, <2>2, <2>3, <2>4
<1>15. QED BY <1>13, <1>14

LEMMA ReturnSpares ==
  ASSUME TypeOK, Conventional(prog), NEW v \in [Nat -> Int], NEW n \in Nat, Layout(v, n),
         Ret \/ RetVoid, NEW m \in Nat, n = m + 1
  PROVE  /\ Spared(v, n, m) /\ Prolongs(v, m, v, n, m)
         /\ m > 0 => stack'[v[m]] = stack[v[m]]
         /\ Node(v, m, m)' = ip' /\ Fn(v, m, m)' = Fn(v, n, m)
         /\ Operands(v, m, m)' = Operands(v, n, m) + Fn(v, n, n).results
<1>1. n - 1 = m /\ m \in 0 .. n /\ m \in 0 .. n - 1 /\ n \in 1 .. n /\ m # n /\ n # 0
  OBVIOUS
<1>2. /\ prog' = prog /\ ip' = Node(v, n, m) /\ ip' \in Nodes
      /\ \A i \in Slots : i < First(v, n, n) => stack'[i] = stack[i]
  BY <1>1, ReturnFacts
<1>3. First(v, n, n) \in Int /\ Fn(v, n, n).results \in {0, 1} /\ Operands(v, n, m) \in Nat
      /\ First(v, n, m) \in Int /\ End(v, n, m) \in Int /\ Base(v, m) <= End(v, n, m)
      /\ Base(v, m) \in Int /\ Fn(v, n, m).params \in Nat
  BY <1>1, FnFacts
<1>4. End(v, n, m) < First(v, n, n)
  BY <1>1, FramesInOrder
<1>5. First(v, n, m) = Base(v, m) - 1 - Fn(v, n, m).params
  BY DEF First
<1>6. m > 0 => Base(v, m) = v[m] /\ v[m] \in Slots /\ v[m] - 1 \in Slots
  BY <1>1 DEF Layout, Linked, Base
<1>7. \A i \in Slots : i <= Base(v, m) => stack'[i] = stack[i]
  BY <1>2, <1>3, <1>4 DEF Slots
<1>8. m > 0 => stack'[v[m]] = stack[v[m]] /\ stack'[v[m] - 1] = stack[v[m] - 1]
  BY <1>3, <1>6, <1>7
<1>9. Spared(v, n, m)
  <2>1. \A i \in Slots : i < First(v, n, m) => i <= Base(v, m)
    BY <1>3, <1>5 DEF Slots
  <2>2. QED BY <1>2, <1>7, <1>8, <2>1 DEF Spared
<1>10. Node(v, m, m)' = ip' /\ Fn(v, m, m)' = Fn(v, n, m)
  BY <1>2 DEF Node, Fn
<1>11. Operands(v, m, m)' = Operands(v, n, m) + Fn(v, n, n).results
  <2>1. prog.depth[ip'] \in Nat
    BY <1>2, NodeFacts
  <2>2. Operands(v, m, m)' = prog.depth[ip']
    BY <1>2, <1>10, <2>1 DEF Operands
  <2>3. Operands(v, n, m) = prog.depth[ip'] - Fn(v, n, n).results
    BY <1>1, <1>2 DEF Operands
  <2>4. QED BY <1>3, <2>1, <2>2, <2>3
<1>12. Prolongs(v, m, v, n, m)
  BY <1>10 DEF Prolongs
<1>13. QED BY <1>8, <1>9, <1>10, <1>11, <1>12

LEMMA LayoutReturn ==
  ASSUME TypeOK, Conventional(prog), NEW v \in [Nat -> Int], NEW n \in Nat, Layout(v, n),
         Ret \/ RetVoid, NEW m \in Nat, n = m + 1
  PROVE  Layout(v, m)'
<1>1. /\ Spared(v, n, m) /\ Prolongs(v, m, v, n, m)
      /\ m > 0 => stack'[v[m]] = stack[v[m]]
      /\ Node(v, m, m)' = ip' /\ Fn(v, m, m)' = Fn(v, n, m)
      /\ Operands(v, m, m)' = Operands(v, n, m) + Fn(v, n, n).results
  BY ReturnSpares
<1>2. n - 1 = m /\ m \in 0 .. n /\ m \in 0 .. n - 1 /\ n \in 1 .. n /\ m < n /\ m # n /\ n # 0 /\ m <= m
  OBVIOUS
<1>3. /\ ~ Entering' /\ prog' = prog /\ fp' = Base(v, m) /\ ip' = Node(v, n, m) /\ ip' \in Nodes
      /\ sp' = First(v, n, n) - 1 + Fn(v, n, n).results
      /\ Fn(v, n, n).results > 0 => sp' \in Slots
      /\ \A i \in Slots : i < First(v, n, n) => stack'[i] = stack[i]
  BY <1>2, ReturnFacts
<1>4. First(v, n, n) \in Int /\ Fn(v, n, n).results \in {0, 1} /\ Operands(v, n, m) \in Nat
      /\ End(v, n, m) \in Int /\ Base(v, m) <= End(v, n, m)
      /\ Base(v, m) \in Int /\ Fn(v, n, m).locals \in Nat
      /\ First(v, n, n) <= v[n] - 1 /\ v[n] \in Int
  BY <1>2, FnFacts
<1>5. /\ First(v, n, n) = End(v, n, m) + 1 /\ NoFrame <= Base(v, m) /\ v[n] - 1 \in Slots
  BY <1>2, FramesInOrder
<1>6. End(v, n, m) = Base(v, m) + Fn(v, n, m).locals + Operands(v, n, m)
  BY DEF End
<1>7. Base(v, m)' = Base(v, m)
  BY DEF Base
<1>8. Frame(v, m, m)'
  <2>1. Frame(v, n, m)
    BY <1>2 DEF Layout
  <2>2. (Node(v, m, m) \in Nodes)' /\ Fn(v, m, m)'.function = (m > 0) /\ Operands(v, m, m)' \in Nat
    BY <1>1, <1>3, <1>4, <2>1 DEF Frame, Nodes
  <2>3. ASSUME NEW a \in prog.addrs[ip']
        PROVE  /\ a <= Operands(v, m, m)'
               /\ Address(stack'[Base(v, m) + Fn(v, n, m).locals + a], Fn(v, n, m), Base(v, m))
    <3> DEFINE i == Base(v, m) + Fn(v, n, m).locals + a
    <3>1. a <= Operands(v, n, m) /\ Address(stack[i], Fn(v, n, m), Base(v, m))
      BY <1>3, <2>1 DEF Frame
    <3>2. a \in Nat /\ a >= 1
      BY <1>3, NodeFacts
    <3>3. i \in Slots /\ i < First(v, n, n)
      BY <1>4, <1>5, <1>6, <3>1, <3>2 DEF Slots, NoFrame
    <3>4. stack'[i] = stack[i]
      BY <1>3, <3>3
    <3>5. a <= Operands(v, m, m)'
      BY <1>1, <1>4, <3>1, <3>2
    <3>6. QED BY <3>1, <3>4, <3>5
  <2>4. \A a \in prog'.addrs[Node(v, m, m)'] :
           /\ a <= Operands(v, m, m)'
           /\ Address(stack'[Base(v, m) + Fn(v, m, m)'.locals + a], Fn(v, m, m)', Base(v, m))
    BY <1>1, <1>3, <2>3
  <2>5. ~ (m < m)
    OBVIOUS
  <2>6. QED BY <1>7, <2>2, <2>4, <2>5 DEF Frame, Address, Own
<1>9. \A k \in 0 .. m : Frame(v, m, k)'
  <2>1. \A k \in 0 .. m - 1 : Frame(v, m, k)'
    BY <1>1, <1>2, FramesBelow
  <2>2. QED BY <1>8, <2>1
<1>10. \A k \in 1 .. m : Linked(v, m, k)'
  <2>1. \A k \in 1 .. m - 1 : Linked(v, m, k)'
    BY <1>1, <1>2, FramesBelow
  <2>2. ASSUME m > 0 PROVE Linked(v, m, m)'
    <3>1. m \in 1 .. n /\ stack'[v[m]] = stack[v[m]] /\ ~ (m = n /\ Entering)
      BY <1>1, <1>2, <2>2
    <3>2. QED BY <1>1, <1>2, <3>1, LinkedStill
  <2>3. QED BY <2>1, <2>2
<1>11. sp' = End(v, m, m)'
  <2>1. End(v, m, m)' = Base(v, m) + Fn(v, n, m).locals + (Operands(v, n, m) + Fn(v, n, n).results)
    BY <1>1, <1>7 DEF End
  <2>2. sp' = End(v, n, m) + Fn(v, n, n).results
    BY <1>3, <1>4, <1>5
  <2>3. QED BY <1>4, <1>6, <2>1, <2>2
<1>12. ASSUME Operands(v, m, m)' > 0 PROVE sp' \in Slots
  <2>1. CASE Fn(v, n, n).results > 0
    BY <1>3, <2>1
  <2>2. CASE ~ (Fn(v, n, n).results > 0)
    <3>1. Operands(v, n, m) > 0 /\ sp' = First(v, n, n) - 1
      BY <1>1, <1>3, <1>4, <1>12, <2>2
    <3>2. QED BY <1>4, <1>5, <1>6, <3>1 DEF Slots, NoFrame
  <2>3. QED BY <2>1, <2>2
<1>13. QED BY <1>3, <1>7, <1>9, <1>10, <1>11, <1>12 DEF Layout
-----------------------------------------------------------------------------
(* ENTER and the returns are the steps of CallStack of those names.        *)

LEMMA IsEnter ==
  ASSUME TypeOK, Conventional(prog), NEW v \in [Nat -> Int], NEW n \in Nat, Layout(v, n), Enter,
         NEW m \in Nat, n = m + 1
  PROVE  Abstract!Enter
<1>1. /\ Entering /\ ~ Entering' /\ prog' = prog /\ sp = v[n] - 1 /\ sp \in Int
      /\ v[n] - 1 \in Slots /\ v[n] \in Slots
      /\ \A i \in Slots : i <= sp => stack'[i] = stack[i]
  BY EnterFacts
<1>2. Spared(v, n, n) /\ Prolongs(v, n, v, n, n)
  BY EnterSpares
<1>3. Layout(v, n)' /\ Conventional(prog)'
  BY <1>1, LayoutEnter, ConventionStays
<1>4. /\ Current(n) = m /\ Current(n)' = n /\ m \in 0 .. n /\ m \in 0 .. n - 1 /\ n \in 1 .. n
      /\ n - 1 = m /\ m < n /\ m <= n /\ n # 0 /\ n \in 0 .. n
  BY <1>1 DEF Current
<1>5. /\ First(v, n, n) \in Int /\ End(v, n, m) \in Int /\ Base(v, m) \in Int
      /\ Base(v, m) <= End(v, n, m) /\ First(v, n, n) <= v[n] - 1 /\ v[n] \in Int
      /\ (m > 0 => Base(v, m) = v[m]) /\ First(v, n, m) \in Int
      /\ First(v, n, m) <= Base(v, m)
  <2>1. Fn(v, n, m).params \in Nat /\ First(v, n, m) = Base(v, m) - 1 - Fn(v, n, m).params
    BY <1>4, FnFacts DEF First
  <2>2. QED BY <1>4, <2>1, FnFacts DEF Base
<1>6. First(v, n, n) = End(v, n, m) + 1
  BY <1>4, FramesInOrder
<1>7. Spared(v, n, m) /\ Prolongs(v, n, v, n, m)
  <2>1. Fn(v, n, m)' = Fn(v, n, m)
    BY <1>2, <1>4, NodesBelow
  <2>2. \A i \in Slots : i < First(v, n, m) => i <= sp
    BY <1>1, <1>5, <1>6 DEF Slots
  <2>3. m > 0 => v[m] - 1 \in Slots /\ v[m] - 1 <= sp
    BY <1>1, <1>4, <1>5, <1>6, FramesInOrder
  <2>4. QED BY <1>1, <2>1, <2>2, <2>3 DEF Spared, Prolongs
<1>8. \A k \in 0 .. m - 1 : FrameAt(v, n, k)' = FrameAt(v, n, k)
  <2>1. m <= Current(n) /\ m <= Current(n)' /\ Current(n)' \in Nat
    BY <1>4
  <2>2. QED BY <1>4, <1>7, <2>1, AbstractBelow
<1>9. /\ Len(Frames) = n /\ Len(Frames') = n + 1
      /\ \A k \in 1 .. m : Frames'[k] = Frames[k]
      /\ Frames[n] = FrameAt(v, n, m) /\ Frames'[n] = FrameAt(v, n, m)'
      /\ Frames'[n + 1] = FrameAt(v, n, n)'
  <2>1. AsLaid(v, n) /\ AsLaid(v, n)'
    BY <1>3, LaidHere, LaidNext
  <2>2. m <= Current(n) /\ m <= Current(n)'
    BY <1>4
  <2>3. \A k \in 1 .. m : Frames'[k] = Frames[k]
    BY <1>8, <2>1, <2>2, SamePrefix
  <2>4. m \in 0 .. Current(n) /\ m \in 0 .. Current(n)' /\ n \in 0 .. Current(n)' /\ m + 1 = n
    BY <1>4
  <2>5. QED BY <1>4, <2>1, <2>3, <2>4 DEF AsLaid
<1> DEFINE from  == Base(v, m) + 1
           first == First(v, n, n)
           cells == Segment(stack, from, sp)
           size  == sp - from + 1
           a     == v[n] - 1 - first
<1>10. /\ from \in Int /\ first \in Int /\ from <= first /\ first <= sp /\ size \in Nat /\ a \in Nat /\ a < size
       /\ sp \in Slots /\ from + (size - 1 - a) - 1 = first - 1
       /\ from + (size - a) - 1 = first /\ from + (size - 1) - 1 = sp - 1
  BY <1>1, <1>5, <1>6
<1>11. FrameAt(v, n, m) = [ret |-> ReturnTo(v, n, m), args |-> Args(v, n, m), cells |-> cells]
  <2>1. Reach(v, n, m) = sp
    BY <1>4 DEF Reach
  <2>2. QED BY <2>1, FrameParts
<1>12. Len(cells) = size /\ cells[size] = stack[sp]
  <2>1. from <= sp + 1 /\ from <= sp /\ from \in Int /\ sp \in Int /\ sp \in Slots
    BY <1>1, <1>10
  <2> HIDE DEF from
  <2>2. QED BY <2>1, SegmentLength
<1>13. FrameAt(v, n, m)' = [ret |-> ReturnTo(v, n, m), args |-> Args(v, n, m),
                            cells |-> Slice(cells, 1, size - 1 - a)]
  <2>1. Reach(v, n, m)' = first - 1
    <3>1. m # Current(n)' /\ End(v, n, m)' = End(v, n, m)
      BY <1>2, <1>4, NodesBelow
    <3>2. QED BY <1>5, <1>6, <3>1 DEF Reach
  <2>2. Slice(cells, 1, size - 1 - a) = Segment(stack, from, first - 1)
    <3>1. size - 1 - a \in Int /\ 1 <= (size - 1 - a) + 1 /\ size - 1 - a <= sp - from + 1
          /\ from + 1 - 1 = from
      BY <1>1, <1>10
    <3> DEFINE i == 1
               j == size - 1 - a
    <3>2. Slice(cells, i, j) = Segment(stack, from + i - 1, from + j - 1)
      <4>1. i \in Int /\ j \in Int /\ 1 <= i /\ i <= j + 1 /\ j <= sp - from + 1 /\ from \in Int
            /\ sp \in Int
        BY <1>1, <1>10, <3>1
      <4> HIDE DEF from, first, size, a, i, j
      <4>2. QED BY <4>1, SegmentPart
    <3>3. QED BY <1>10, <3>1, <3>2
  <2>3. Segment(stack', from, first - 1) = Segment(stack, from, first - 1)
    <3>1. \A i \in Slots : from <= i /\ i <= first - 1 => stack'[i] = stack[i]
      BY <1>1, <1>10 DEF Slots
    <3> HIDE DEF from, first
    <3>2. first - 1 \in Int
      BY <1>10
    <3>3. QED BY <1>10, <3>1, <3>2, SameSegment
  <2>4. ReturnTo(v, n, m)' = ReturnTo(v, n, m)
    BY <1>2, <1>4, CallsBelow
  <2>5. Args(v, n, m)' = Args(v, n, m)
    <3>1. CASE m = 0
      BY <3>1 DEF Args
    <3>2. CASE m # 0
      <4>1. \A i \in Slots : i < v[m] - 1 => stack'[i] = stack[i]
        BY <1>1, <1>5, <1>6, <3>2 DEF Slots
      <4>2. QED BY <1>2, <1>4, <4>1, CallsBelow
    <3>3. QED BY <3>1, <3>2
  <2>6. FrameAt(v, n, m)' = [ret |-> ReturnTo(v, n, m)', args |-> Args(v, n, m)',
                             cells |-> Segment(stack', Base(v, m) + 1, Reach(v, n, m)')]
    BY FrameParts
  <2>7. QED BY <2>1, <2>2, <2>3, <2>4, <2>5, <2>6
<1>14. /\ FrameAt(v, n, n)'.args = Slice(cells, size - a, size - 1)
       /\ FrameAt(v, n, n)'.ret = cells[size].val /\ Len(FrameAt(v, n, n)'.args) = a
  <2>1. FrameAt(v, n, n)' = [ret |-> ReturnTo(v, n, n)', args |-> Args(v, n, n)',
                             cells |-> Segment(stack', Base(v, n) + 1, Reach(v, n, n)')]
    BY FrameParts
  <2>2. ReturnTo(v, n, n)' = stack[v[n] - 1].val
    <3>1. ReturnTo(v, n, n)' = Node(v, n, m)'
      BY <1>4 DEF ReturnTo
    <3>2. Node(v, n, m)' = Node(v, n, m)
      BY <1>2, <1>4, NodesBelow
    <3>3. Node(v, n, m) = stack[v[n] - 1].val
      BY <1>4 DEF Node
    <3>4. QED BY <3>1, <3>2, <3>3
  <2>3. Args(v, n, n)' = Segment(stack', first, sp - 1)
    <3>1. First(v, n, n)' = first
      BY <1>2, <1>4, NodesBelow
    <3>2. v[n] - 2 = sp - 1
      BY <1>1, <1>5
    <3>3. Args(v, n, n)' = Segment(stack', First(v, n, n)', v[n] - 2)
      BY <1>4 DEF Args, Segment, Slots, Raw
    <3>4. QED BY <3>1, <3>2, <3>3
  <2>4. Segment(stack', first, sp - 1) = Segment(stack, first, sp - 1)
    <3>1. \A i \in Slots : first <= i /\ i <= sp - 1 => stack'[i] = stack[i]
      <4>1. \A i \in Slots : i <= sp - 1 => i <= sp
        BY <1>1 DEF Slots
      <4>2. QED BY <1>1, <4>1
    <3>2. sp - 1 \in Int
      BY <1>1
    <3> HIDE DEF first
    <3>3. QED BY <1>10, <3>1, <3>2, SameSegment
  <2>5. Slice(cells, size - a, size - 1) = Segment(stack, first, sp - 1)
    <3>1. size - a \in Int /\ size - 1 \in Int /\ 1 <= size - a /\ size - a <= (size - 1) + 1
          /\ size - 1 <= sp - from + 1
      BY <1>1, <1>10
    <3> DEFINE i == size - a
               j == size - 1
    <3>2. Slice(cells, i, j) = Segment(stack, from + i - 1, from + j - 1)
      <4>1. i \in Int /\ j \in Int /\ 1 <= i /\ i <= j + 1 /\ j <= sp - from + 1 /\ from \in Int
            /\ sp \in Int
        BY <1>1, <1>10, <3>1
      <4> HIDE DEF from, first, size, a, i, j
      <4>2. QED BY <4>1, SegmentPart
    <3>3. QED BY <1>10, <3>2
  <2>6. Len(Segment(stack, first, sp - 1)) = a
    <3> DEFINE to == sp - 1
    <3>1. first <= to + 1 /\ to \in Int /\ to - first + 1 = a /\ first \in Int
      BY <1>1, <1>10
    <3> HIDE DEF first, a, to
    <3>2. Len(Segment(stack, first, to)) = a
      BY <3>1, SegmentLength
    <3>3. QED BY <3>2 DEF to
  <2>7. stack[v[n] - 1].val = cells[size].val
    BY <1>1, <1>12
  <2>8. QED BY <2>1, <2>2, <2>3, <2>4, <2>5, <2>6, <2>7
<1> HIDE DEF from, first, cells, size, a
<1>15. /\ Len(Frames[n].cells) = size /\ Frames[n].cells = cells
       /\ Frames'[n] = [Frames[n] EXCEPT !.cells = Slice(cells, 1, size - 1 - a)]
  <2> DEFINE left == Slice(cells, 1, size - 1 - a)
             ret == ReturnTo(v, n, m)
             args == Args(v, n, m)
  <2>1. Frames[n] = [ret |-> ret, args |-> args, cells |-> cells]
    BY <1>9, <1>11
  <2>2. Frames'[n] = [ret |-> ret, args |-> args, cells |-> left]
    BY <1>9, <1>13
  <2> HIDE DEF left, ret, args
  <2>3. Frames'[n] = [Frames[n] EXCEPT !.cells = left]
    BY <2>1, <2>2
  <2>4. Frames[n].cells = cells
    BY <2>1
  <2>5. QED BY <1>12, <2>3, <2>4 DEF left
<1>16. UNCHANGED <<out, status>>
  BY DEF Enter
<1>17. \A k \in 1 .. n - 1 : Frames'[k] = Frames[k]
  BY <1>4, <1>9
<1>18. QED
  BY <1>9, <1>10, <1>14, <1>15, <1>16, <1>17
     DEF Slice, Abstract!Enter, Abstract!Depth, Abstract!Running, Abstract!Untouched

LEMMA IsReturn ==
  ASSUME TypeOK, Conventional(prog), NEW v \in [Nat -> Int], NEW n \in Nat, Layout(v, n),
         Ret \/ RetVoid, NEW m \in Nat, n = m + 1
  PROVE  Abstract!Return
<1>1. /\ ~ Entering' /\ prog' = prog /\ sp' = First(v, n, n) - 1 + Fn(v, n, n).results
      /\ ip' = Node(v, n, m) /\ Current(n) = n
      /\ Fn(v, n, n).results > 0 => sp' \in Slots /\ Ret
      /\ \A i \in Slots : i < First(v, n, n) => stack'[i] = stack[i]
      /\ Ret => /\ sp \in Slots /\ Base(v, n) + 1 <= sp /\ stack'[sp'] = stack[sp]
                /\ Fn(v, n, n).results = 1
      /\ RetVoid => Fn(v, n, n).results = 0
  <2>1. n - 1 = m
    OBVIOUS
  <2>2. QED BY <2>1, ReturnFacts
<1>2. Spared(v, n, m) /\ Prolongs(v, m, v, n, m)
  BY ReturnSpares
<1>3. Layout(v, m)' /\ Conventional(prog)'
  BY <1>1, LayoutReturn, ConventionStays
<1>4. /\ Current(m)' = m /\ m \in 0 .. n /\ m \in 0 .. m /\ n \in 1 .. n /\ n - 1 = m /\ m <= n /\ m <= m
      /\ n # 0 /\ n \in 0 .. n /\ n > 0 /\ m # n
  BY <1>1 DEF Current
<1>5. /\ First(v, n, n) \in Int /\ End(v, n, m) \in Int /\ Base(v, m) \in Int
      /\ Base(v, m) <= End(v, n, m) /\ v[n] \in Int /\ Base(v, n) \in Int
      /\ (m > 0 => Base(v, m) = v[m])
      /\ Fn(v, n, n).results \in {0, 1}
  BY <1>4, FnFacts DEF Base
<1>6. First(v, n, n) = End(v, n, m) + 1
  BY <1>4, FramesInOrder
<1>7. \A k \in 0 .. m - 1 : FrameAt(v, m, k)' = FrameAt(v, n, k)
  <2>1. m <= Current(n) /\ m <= Current(m)' /\ Current(m)' \in Nat
    BY <1>1, <1>4
  <2>2. QED BY <1>2, <1>4, <2>1, AbstractBelow
<1>8. /\ Len(Frames) = n + 1 /\ Len(Frames') = n
      /\ \A k \in 1 .. m : Frames'[k] = Frames[k]
      /\ Frames[n] = FrameAt(v, n, m) /\ Frames'[n] = FrameAt(v, m, m)'
      /\ Frames[n + 1] = FrameAt(v, n, n)
  <2>1. AsLaid(v, n) /\ AsLaid(v, m)'
    BY <1>3, LaidHere, LaidNext
  <2>2. m <= Current(n) /\ m <= Current(m)'
    BY <1>1, <1>4
  <2>3. \A k \in 1 .. m : Frames'[k] = Frames[k]
    BY <1>7, <2>1, <2>2, SamePrefix
  <2>4. m \in 0 .. Current(n) /\ m \in 0 .. Current(m)' /\ n \in 0 .. Current(n) /\ m + 1 = n
    BY <1>1, <1>4
  <2>5. QED BY <1>1, <1>4, <2>1, <2>3, <2>4 DEF AsLaid
<1> DEFINE from  == Base(v, m) + 1
           to    == End(v, n, m)
           cells == Segment(stack, from, to)
           ret   == ReturnTo(v, n, m)
           args  == Args(v, n, m)
<1>9. FrameAt(v, n, m) = [ret |-> ret, args |-> args, cells |-> cells]
  <2>1. Reach(v, n, m) = to
    BY <1>1, <1>4 DEF Reach
  <2>2. QED BY <2>1, FrameParts
<1>10. FrameAt(v, m, m)' = [ret |-> ret, args |-> args, cells |-> Segment(stack', from, sp')]
  <2>1. Reach(v, m, m)' = sp'
    BY <1>4 DEF Reach
  <2>2. ReturnTo(v, m, m)' = ReturnTo(v, n, m)
    BY <1>2, <1>4, CallsBelow
  <2>3. Args(v, m, m)' = Args(v, n, m)
    <3>1. CASE m = 0
      BY <3>1 DEF Args
    <3>2. CASE m # 0
      <4>1. \A i \in Slots : i < v[m] - 1 => stack'[i] = stack[i]
        BY <1>1, <1>5, <1>6, <3>2 DEF Slots
      <4>2. QED BY <1>2, <1>4, <4>1, CallsBelow
    <3>3. QED BY <3>1, <3>2
  <2>4. FrameAt(v, m, m)' = [ret |-> ReturnTo(v, m, m)', args |-> Args(v, m, m)',
                             cells |-> Segment(stack', Base(v, m) + 1, Reach(v, m, m)')]
    BY FrameParts
  <2>5. QED BY <2>1, <2>2, <2>3, <2>4
<1>11. /\ from \in Int /\ to \in Int /\ from <= to + 1 /\ sp' = to + Fn(v, n, n).results
       /\ \A i \in Slots : from <= i /\ i <= to => stack'[i] = stack[i]
  BY <1>1, <1>5, <1>6 DEF Slots
<1>12. /\ FrameAt(v, n, m).cells = cells
       /\ \A c : [FrameAt(v, n, m) EXCEPT !.cells = c] = [ret |-> ret, args |-> args, cells |-> c]
  <2> HIDE DEF from, to, cells, ret, args
  <2>1. QED BY <1>9
<1> DEFINE last == FrameAt(v, n, n).cells
<1>13. PICK r \in {<<>>, IF last = <<>> THEN <<>> ELSE <<last[Len(last)]>>} :
         Segment(stack', from, sp') = Joined(cells, r)
  <2>1. CASE Ret
    <3>1. to + 1 \in Slots /\ sp' = to + 1
      BY <1>1, <1>11, <2>1
    <3>2. Segment(stack', from, to + 1) = Joined(Segment(stack, from, to), <<stack'[to + 1]>>)
      <4> HIDE DEF from, to
      <4>1. QED BY <1>11, <3>1, SegmentGrows
    <3>3. last # <<>> /\ last[Len(last)] = stack[sp]
      <4>1. last = Segment(stack, Base(v, n) + 1, sp)
        <5>1. Reach(v, n, n) = sp
          BY <1>1 DEF Reach
        <5>2. QED BY <5>1, FrameParts
      <4> DEFINE lo == Base(v, n) + 1
      <4>2. lo \in Int /\ sp \in Int /\ sp \in Slots /\ lo <= sp + 1 /\ lo <= sp /\ sp # lo - 1
        BY <1>1, <1>5, <2>1 DEF Slots
      <4> HIDE DEF lo, last
      <4>3. /\ Len(Segment(stack, lo, sp)) = sp - lo + 1
            /\ Segment(stack, lo, sp) # <<>>
            /\ Segment(stack, lo, sp)[sp - lo + 1] = stack[sp]
        BY <4>2, SegmentLength
      <4>4. QED BY <4>1, <4>3 DEF lo
    <3>4. <<stack'[to + 1]>> = <<last[Len(last)]>>
      BY <1>1, <2>1, <3>1, <3>3
    <3> DEFINE x == <<last[Len(last)]>>
    <3>5. x \in {<<>>, IF last = <<>> THEN <<>> ELSE <<last[Len(last)]>>}
      BY <3>3
    <3>6. Segment(stack', from, sp') = Joined(cells, x)
      <4> HIDE DEF from, to, last
      <4>1. QED BY <3>1, <3>2, <3>4 DEF cells
    <3> HIDE DEF from, cells, x, last
    <3>7. QED BY <3>5, <3>6
  <2>2. CASE RetVoid
    <3>1. sp' = to
      BY <1>1, <1>11, <2>2
    <3>2. Segment(stack', from, to) = Segment(stack, from, to)
      <4> HIDE DEF from, to
      <4>1. QED BY <1>11, SameSegment
    <3>3. Joined(Segment(stack, from, to), <<>>) = Segment(stack, from, to)
      <4> HIDE DEF from, to
      <4>1. QED BY <1>11, SegmentWhole
    <3>4. QED BY <3>1, <3>2, <3>3
  <2>3. QED BY <2>1, <2>2
<1> HIDE DEF from, to, cells, ret, args
<1>14. Frames'[n] = [Frames[n] EXCEPT !.cells = Joined(@, r)]
  <2> DEFINE grown == Joined(cells, r)
  <2>1. FrameAt(v, m, m)' = [ret |-> ret, args |-> args, cells |-> grown]
    BY <1>10, <1>13
  <2>2. Joined(FrameAt(v, n, m).cells, r) = grown
    BY <1>12, Zenon
  <2> HIDE DEF grown
  <2>3. [FrameAt(v, n, m) EXCEPT !.cells = grown] = [ret |-> ret, args |-> args, cells |-> grown]
    BY <1>12, Zenon
  <2>4. QED BY <1>8, <2>1, <2>2, <2>3
<1>15. ip' = Frames[n + 1].ret
  <2>1. FrameAt(v, n, n).ret = ReturnTo(v, n, n)
    BY DEF FrameAt
  <2>2. ReturnTo(v, n, n) = Node(v, n, m)
    BY <1>4 DEF ReturnTo
  <2>3. QED BY <1>1, <1>8, <2>1, <2>2
<1>16. last = Frames[n + 1].cells
  BY <1>8
<1> HIDE DEF last
<1>17. UNCHANGED <<out, status>>
  BY DEF Ret, RetVoid
<1>18. (n + 1) - 1 = n /\ \A k \in 1 .. n - 1 : Frames'[k] = Frames[k]
  BY <1>4, <1>8
<1>19. QED
  <2> DEFINE result == IF last = <<>> THEN <<>> ELSE <<last[Len(last)]>>
  <2>1. \E x \in {<<>>, result} : Frames'[n] = [Frames[n] EXCEPT !.cells = Joined(@, x)]
    BY <1>13, <1>14
  <2> HIDE DEF result
  <2>2. n + 1 > 1
    BY <1>4
  <2>3. QED
    BY <1>8, <1>15, <1>16, <1>17, <1>18, <2>1, <2>2
       DEF result, Joined, Abstract!Return, Abstract!Depth, Abstract!Running, Abstract!Untouched
-----------------------------------------------------------------------------
(* The extern functions and the ways to stop.                              *)

LEMMA IsPrint ==
  ASSUME TypeOK, Conventional(prog), NEW v \in [Nat -> Int], NEW n \in Nat, Layout(v, n), CallExt
  PROVE  Abstract!PrintOperand
<1>1. ip \in Nodes /\ Instr.op = "CALL_EXT" /\ stack' = stack /\ sp' = sp - 1 /\ sp \in Slots /\ prog' = prog
  BY DEF TypeOK, CallExt, At, Has
<1>2. /\ ~ Entering /\ Current(n) = n /\ Allowed(prog, ip)
      /\ sp = Base(v, n) + Fn(v, n, n).locals + prog.depth[ip] /\ prog.depth[ip] \in Nat
  BY <1>1, LayoutHere
<1>3. Proceeds /\ Writes(v, n)
  BY Consuming
<1>4. Layout(v, n)' /\ Conventional(prog)' /\ Spared(v, n, n) /\ Prolongs(v, n, v, n, n)
      /\ ~ Entering'
  BY <1>1, <1>3, LayoutProceeds, ConventionStays, Spares, FlowOn
<1>5. Current(n)' = n /\ n \in 0 .. n /\ n <= n /\ n <= Current(n) /\ n <= Current(n)'
  BY <1>2, <1>4 DEF Current
<1>6. \A k \in 0 .. n - 1 : FrameAt(v, n, k)' = FrameAt(v, n, k)
  BY <1>4, <1>5, AbstractBelow
<1>7. /\ Len(Frames) = n + 1 /\ Len(Frames') = n + 1
      /\ \A k \in 1 .. n : Frames'[k] = Frames[k]
      /\ Frames[n + 1] = FrameAt(v, n, n) /\ Frames'[n + 1] = FrameAt(v, n, n)'
  <2>1. AsLaid(v, n) /\ AsLaid(v, n)'
    BY <1>4, LaidHere, LaidNext
  <2>2. \A k \in 1 .. n : Frames'[k] = Frames[k]
    <3>1. n <= Current(n) /\ n <= Current(n)'
      BY <1>5
    <3>2. QED BY <1>6, <2>1, <3>1, SamePrefix
  <2>3. QED BY <1>2, <1>5, <2>1, <2>2 DEF AsLaid
<1> DEFINE from  == Base(v, n) + 1
           cells == Segment(stack, from, sp)
           left  == Slice(cells, 1, Len(cells) - 1)
           ret   == ReturnTo(v, n, n)
           args  == Args(v, n, n)
<1>8. FrameAt(v, n, n) = [ret |-> ret, args |-> args, cells |-> cells]
  <2>1. Reach(v, n, n) = sp
    BY <1>2 DEF Reach
  <2>2. QED BY <2>1, FrameParts
<1>9. from \in Int /\ sp \in Int /\ from <= sp + 1 /\ sp # from - 1
  <2>1. Takes(prog, ip) = 1
    BY <1>1 DEF Takes, Arity, Pop2Ops, PopOps, IntOps, DblOps, Instr
  <2>2. prog.depth[ip] >= 1
    BY <1>2, <2>1 DEF Allowed
  <2>3. Base(v, n) \in Int /\ Fn(v, n, n).locals \in Nat
    BY FnFacts
  <2>4. QED BY <1>2, <2>2, <2>3
<1>10. Len(cells) = sp - from + 1 /\ cells # <<>>
  <2> HIDE DEF from
  <2>1. QED BY <1>9, SegmentLength
<1>11. Segment(stack, from, sp - 1) = left
  <2> DEFINE i == 1
             j == sp - from
  <2>1. i \in Int /\ j \in Int /\ 1 <= i /\ i <= j + 1 /\ j <= sp - from + 1 /\ from \in Int /\ sp \in Int
    BY <1>9
  <2>2. Slice(cells, i, j) = Segment(stack, from + i - 1, from + j - 1)
    <3> HIDE DEF from, i, j
    <3>1. QED BY <2>1, SegmentPart
  <2>3. from + i - 1 = from /\ from + j - 1 = sp - 1 /\ j = Len(cells) - 1
    BY <1>9, <1>10
  <2> HIDE DEF from, cells, j
  <2>4. QED BY <2>2, <2>3
<1>12. FrameAt(v, n, n)' = [ret |-> ret, args |-> args, cells |-> left]
  <2>1. Reach(v, n, n)' = sp - 1
    BY <1>1, <1>5 DEF Reach
  <2>2. ReturnTo(v, n, n)' = ret
    BY <1>4, <1>5, CallsBelow
  <2>3. Args(v, n, n)' = args
    <3>1. \A i \in Slots : i < v[n] - 1 => stack'[i] = stack[i] \/ i < First(v, n, n)
      BY <1>1
    <3>2. QED BY <1>4, <1>5, <3>1, CallsBelow
  <2>4. FrameAt(v, n, n)' = [ret |-> ReturnTo(v, n, n)', args |-> Args(v, n, n)',
                             cells |-> Segment(stack', Base(v, n) + 1, Reach(v, n, n)')]
    BY FrameParts
  <2>5. QED BY <1>1, <1>11, <2>1, <2>2, <2>3, <2>4
<1> HIDE DEF from, cells, left, ret, args
<1>13. Frames[n + 1].cells = cells
  BY <1>7, <1>8
<1>14. Frames' = [Frames EXCEPT ![n + 1].cells = left]
  <2>1. /\ Frames = [j \in 1 .. n + 1 |-> Frames[j]]
        /\ Frames' = [j \in 1 .. n + 1 |-> Frames'[j]]
    <3>1. Frames = [j \in 1 .. n + 1 |-> FrameAt(v, n, j - 1)]
      BY <1>2, FramesLaid
    <3>2. Frames' = [j \in 1 .. n + 1 |-> FrameAt(v, n, j - 1)']
      BY <1>4, <1>5, FramesLaidNext
    <3>3. QED BY <3>1, <3>2
  <2>2. Frames'[n + 1] = [Frames[n + 1] EXCEPT !.cells = left]
    BY <1>7, <1>8, <1>12
  <2>3. \A j \in 1 .. n + 1 : j # n + 1 => Frames'[j] = Frames[j]
    BY <1>7
  <2>4. QED BY <2>1, <2>2, <2>3
<1>15. Len(out') = Len(out) + 1 /\ SubSeq(out', 1, Len(out)) = out /\ status' = status
  <2>1. PICK x : out' = Append(out, x) /\ status' = status
    BY DEF CallExt
  <2>2. out \in Seq(CellsOf(prog))
    BY DEF TypeOK
  <2>3. QED BY <2>1, <2>2
<1>16. QED
  BY <1>7, <1>10, <1>13, <1>14, <1>15
     DEF left, Slice, Abstract!PrintOperand, Abstract!Depth, Abstract!Running

LEMMA FramesStay ==
  ASSUME UNCHANGED <<prog, ip, stack, sp, fp>>
  PROVE  UNCHANGED Frames
  BY DEF Frames, Chain, Cell, Cells, Params, Resume, Entering, Instr, Nodes, Slots

LEMMA IsStop ==
  ASSUME Stop("halted") \/ Stop("error") \/ Stop("undefined")
  PROVE  /\ UNCHANGED <<prog, ip, stack, sp, fp>>
         /\ Abstract!Stop
<1>1. UNCHANGED <<prog, ip, stack, sp, fp, out>> /\ status' \in {"halted", "error", "undefined"}
  BY DEF Stop
<1>2. UNCHANGED Frames
  BY <1>1, FramesStay
<1>3. QED BY <1>1, <1>2 DEF Abstract!Stop
-----------------------------------------------------------------------------
(* The inductive invariant, and the theorems.                              *)

LEMMA FramedInit == Init => Framed /\ (Conventional(prog) => Abstract!Init)
<1> SUFFICES ASSUME Init, Conventional(prog)
             PROVE  (\E v \in [Nat -> Int], n \in Nat : Layout(v, n)) /\ Abstract!Init
  BY DEF Framed
<1> DEFINE v == [i \in Nat |-> 0]
<1>1. /\ ip = prog.entry /\ sp = -1 /\ fp = NoFrame /\ out = <<>> /\ status = "running"
      /\ prog \in Programs
  BY DEF Init, Started
<1>2. ip \in Nodes /\ Instr = prog.code[ip]
  BY <1>1, ProgramAssumption DEF WellLinked, Nodes, Instr
<1>3. Instr.op # "ENTER" /\ prog.depth[ip] = 0 /\ ~ prog.frame[ip].function
  BY <1>1, <1>2 DEF Conventional
<1>4. prog.frame[ip].locals = 0 /\ prog.frame[ip].function = FALSE /\ prog.addrs[ip] \subseteq 1 .. 0
  BY <1>2, <1>3, NodeFacts
<1>5. ~ Entering /\ Current(0) = 0
  BY <1>3 DEF Entering, Current
<1>6. v \in [Nat -> Int]
  OBVIOUS
<1> HIDE DEF v
<1>7. Node(v, 0, 0) = ip /\ Fn(v, 0, 0) = prog.frame[ip] /\ Operands(v, 0, 0) = 0 /\ Base(v, 0) = NoFrame
  BY <1>3 DEF Node, Fn, Operands, Base
<1>8. Frame(v, 0, 0)
  <2>1. Fn(v, 0, 0).function = (0 > 0)
    <3>1. (0 > 0) = FALSE
      OBVIOUS
    <3>2. QED BY <1>4, <1>7, <3>1, Zenon
  <2>2. prog.addrs[ip] = {}
    BY <1>4
  <2>3. QED BY <1>2, <1>7, <2>1, <2>2 DEF Frame
<1>9. End(v, 0, 0) = -1
  BY <1>4, <1>7 DEF End, NoFrame
<1>10. Layout(v, 0)
  <2>1. \A k \in 0 .. 0 : k = 0
    OBVIOUS
  <2>2. ~ \E k \in 1 .. 0 : TRUE
    OBVIOUS
  <2>3. \A k \in 0 .. 0 : Frame(v, 0, k)
    BY <1>8, <2>1
  <2>4. \A k \in 1 .. 0 : Linked(v, 0, k)
    BY <2>2
  <2>5. QED BY <1>1, <1>5, <1>7, <1>9, <2>3, <2>4 DEF Layout
<1>11. AsLaid(v, 0)
  BY <1>6, <1>10, LaidHere
<1>12. Frames = <<FrameAt(v, 0, 0)>>
  <2>1. Frames = [j \in 1 .. 0 + 1 |-> FrameAt(v, 0, j - 1)]
    BY <1>5, <1>6, <1>10, FramesLaid
  <2>2. [j \in 1 .. 0 + 1 |-> FrameAt(v, 0, j - 1)] = <<FrameAt(v, 0, 0)>>
    <3>1. \A j \in 1 .. 0 + 1 : j - 1 = 0
      OBVIOUS
    <3>2. [j \in 1 .. 0 + 1 |-> FrameAt(v, 0, j - 1)] = [j \in 1 .. 1 |-> FrameAt(v, 0, 0)]
      BY <3>1
    <3>3. QED BY <3>2
  <2>3. QED BY <2>1, <2>2
<1>13. FrameAt(v, 0, 0) = [ret |-> 0, args |-> <<>>, cells |-> <<>>]
  <2>1. Reach(v, 0, 0) = -1 /\ Base(v, 0) + 1 = 0
    BY <1>1, <1>5, <1>7 DEF Reach, NoFrame
  <2>2. Segment(stack, 0, -1) = <<>>
    BY SegmentLength
  <2>3. QED BY <2>1, <2>2 DEF FrameAt, ReturnTo, Args
<1>14. Abstract!Init
  BY <1>1, <1>12, <1>13 DEF Abstract!Init
<1>15. QED BY <1>6, <1>10, <1>14

LEMMA LayoutStays ==
  ASSUME NEW v \in [Nat -> Int], NEW n \in Nat, Layout(v, n), UNCHANGED <<prog, ip, stack, sp, fp>>
  PROVE  Layout(v, n)'
<1>1. \A k : Base(v, k)' = Base(v, k)
  BY DEF Base
<1>2. \A k : Node(v, n, k)' = Node(v, n, k)
  BY DEF Node
<1>3. \A k : Fn(v, n, k)' = Fn(v, n, k)
  BY <1>2 DEF Fn
<1>4. \A k : Operands(v, n, k)' = Operands(v, n, k)
  BY <1>2, <1>3 DEF Operands
<1>5. \A k : First(v, n, k)' = First(v, n, k) /\ End(v, n, k)' = End(v, n, k)
  BY <1>1, <1>3, <1>4 DEF First, End
<1>6. Entering' <=> Entering
  BY DEF Entering, Instr, Nodes
<1>7. ASSUME NEW k \in 0 .. n PROVE Frame(v, n, k)'
  <2>1. Frame(v, n, k)
    BY DEF Layout
  <2>2. /\ Base(v, k)' = Base(v, k) /\ Node(v, n, k)' = Node(v, n, k)
        /\ Fn(v, n, k)' = Fn(v, n, k) /\ Operands(v, n, k)' = Operands(v, n, k)
    BY <1>1, <1>2, <1>3, <1>4
  <2>3. QED BY <2>1, <2>2 DEF Frame, Nodes, Address, Own
<1>8. ASSUME NEW k \in 1 .. n PROVE Linked(v, n, k)'
  <2>1. Linked(v, n, k)
    BY DEF Layout
  <2>2. /\ Base(v, k - 1)' = Base(v, k - 1) /\ First(v, n, k)' = First(v, n, k)
        /\ End(v, n, k - 1)' = End(v, n, k - 1)
    BY <1>1, <1>5
  <2>3. QED BY <1>6, <2>1, <2>2 DEF Linked, Slots, StackP
<1>9. Base(v, n)' = Base(v, n) /\ Base(v, n - 1)' = Base(v, n - 1)
      /\ End(v, n, n)' = End(v, n, n) /\ Operands(v, n, n)' = Operands(v, n, n)
  BY <1>1, <1>4, <1>5
<1>10. QED BY <1>6, <1>7, <1>8, <1>9 DEF Layout, Slots

LEMMA FramedStep ==
  ASSUME TypeOK, Framed, NothingLeft, Next, Conventional(prog)
  PROVE  Framed' /\ NothingLeft' /\ Abstract!Next
<1>1. PICK v \in [Nat -> Int], n \in Nat : Layout(v, n)
  BY DEF Framed
<1>2. status = "running"
  BY DEF Next, FullStack, EmptyStack, OffTheStack, BadAccess, NullInstruction, Halt, PushInt,
         PushDouble, Call, CallExt, Enter, RetVoid, Ret, Jump, JumpIf, FpLoad, FpStore,
         IntArithmetic, IntDivision, DoubleArithmetic, ConvIntToDouble, ConvDoubleToInt,
         PushAddress, Load, Store, Drop, Nop, At
<1>3. ASSUME status' = status PROVE NothingLeft'
  BY <1>2, <1>3 DEF NothingLeft
<1>4. CASE \/ FullStack \/ EmptyStack \/ OffTheStack \/ BadAccess \/ NullInstruction \/ Halt
           \/ Stop("error") \/ Stop("undefined")
  <2>1. Stop("halted") \/ Stop("error") \/ Stop("undefined")
    BY <1>4 DEF FullStack, EmptyStack, OffTheStack, BadAccess, NullInstruction, Halt
  <2>2. UNCHANGED <<prog, ip, stack, sp, fp>> /\ Abstract!Stop
    BY <2>1, IsStop
  <2>3. Framed'
    BY <1>1, <2>2, LayoutStays DEF Framed
  <2>4. NothingLeft'
    <3>1. CASE Halt
      <4>1. ip \in Nodes /\ Instr = prog.code[ip] /\ Instr.op = "HALT"
        BY <3>1 DEF TypeOK, Halt, At, Instr
      <4>2. /\ Fn(v, n, n) = prog.frame[ip] /\ Allowed(prog, ip) /\ fp = Base(v, n) /\ ~ Entering
            /\ sp = Base(v, n) + Fn(v, n, n).locals + prog.depth[ip] /\ prog.depth[ip] \in Nat
        BY <1>1, <4>1, LayoutHere
      <4>3. ~ Fn(v, n, n).function /\ prog.depth[ip] = 0
        BY <4>1, <4>2 DEF Allowed
      <4>4. n = 0
        <5>1. Fn(v, n, n).function = (n > 0)
          BY <1>1 DEF Layout, Frame
        <5>2. ~ (n > 0)
          BY <4>3, <5>1, Zenon
        <5>3. QED BY <5>2
      <4>5. Fn(v, n, n).locals = 0
        BY <4>1, <4>2, <4>3, NodeFacts
      <4>6. sp = -1 /\ fp = NoFrame
        BY <4>2, <4>3, <4>4, <4>5 DEF Base, NoFrame
      <4>7. QED BY <2>2, <4>6 DEF NothingLeft
    <3>2. CASE ~ Halt
      <4>1. status' # "halted"
        BY <1>4, <3>2 DEF FullStack, EmptyStack, OffTheStack, BadAccess, NullInstruction, Stop
      <4>2. QED BY <4>1 DEF NothingLeft
    <3>3. QED BY <3>1, <3>2
  <2>5. QED BY <1>2, <2>2, <2>3, <2>4 DEF Abstract!Next
<1>5. CASE Call
  <2> DEFINE w == [i \in Nat |-> IF i = n + 1 THEN sp + 2 ELSE v[i]]
             l == n + 1
  <2>1. w \in [Nat -> Int] /\ Pushed(w, v, n) /\ l \in Nat
    BY DEF TypeOK, Pushed
  <2>2. PICK u \in [Nat -> Int] : Pushed(u, v, n)
    BY <2>1
  <2> HIDE DEF w
  <2>3. Layout(u, l)'
    BY <1>1, <1>5, <2>1, <2>2, LayoutCall
  <2>4. Spared(v, n, n) /\ Prolongs(u, l, v, n, n)
    BY <1>1, <1>5, <2>1, <2>2, CallSpares
  <2>5. n = Current(n) /\ Entering' /\ UNCHANGED <<out, status>>
    BY <1>1, <1>5, CallFacts DEF Call
  <2>6. n = Current(l)'
    BY <2>5 DEF Current
  <2> HIDE DEF l
  <2>7. Abstract!Compute
    BY <1>1, <2>1, <2>2, <2>3, <2>4, <2>5, <2>6, IsCompute
  <2>8. Framed'
    BY <2>1, <2>2, <2>3 DEF Framed
  <2>9. QED BY <1>2, <1>3, <2>5, <2>7, <2>8 DEF Abstract!Next
<1>6. CASE Enter
  <2>1. n - 1 \in Nat /\ n = (n - 1) + 1
    BY <1>1, <1>6, EnterFacts
  <2>2. Layout(v, n)' /\ Abstract!Enter
    BY <1>1, <1>6, <2>1, LayoutEnter, IsEnter
  <2>3. status' = status
    BY <1>6 DEF Enter
  <2>4. Framed'
    BY <2>2 DEF Framed
  <2>5. QED BY <1>2, <1>3, <2>2, <2>3, <2>4 DEF Abstract!Next
<1>7. CASE Ret \/ RetVoid
  <2>1. n - 1 \in Nat /\ n = (n - 1) + 1
    BY <1>1, <1>7, ReturnFacts
  <2>2. PICK m \in Nat : n = m + 1
    BY <2>1
  <2>3. Layout(v, m)' /\ Abstract!Return
    BY <1>1, <1>7, <2>2, LayoutReturn, IsReturn
  <2>4. status' = status
    BY <1>7 DEF Ret, RetVoid
  <2>5. Framed'
    BY <2>3 DEF Framed
  <2>6. QED BY <1>2, <1>3, <2>3, <2>4, <2>5 DEF Abstract!Next
<1>8. CASE CallExt
  <2>1. Layout(v, n)' /\ status' = status
    BY <1>1, <1>8, Consuming, LayoutProceeds
  <2>2. Abstract!PrintOperand
    BY <1>1, <1>8, IsPrint
  <2>3. Framed'
    BY <2>1 DEF Framed
  <2>4. QED BY <1>2, <1>3, <2>1, <2>2, <2>3 DEF Abstract!Next
<1>9. CASE Proceeds /\ Writes(v, n) /\ UNCHANGED <<out, status>>
  <2>1. Layout(v, n)' /\ Spared(v, n, n) /\ Prolongs(v, n, v, n, n)
    BY <1>1, <1>9, LayoutProceeds, Spares
  <2>2. n = Current(n) /\ n = Current(n)'
    BY <1>9, FlowOn DEF Current
  <2>3. Abstract!Compute
    BY <1>1, <1>9, <2>1, <2>2, IsCompute
  <2>4. Framed'
    BY <2>1 DEF Framed
  <2>5. QED BY <1>2, <1>3, <1>9, <2>3, <2>4 DEF Abstract!Next
<1>10. CASE \/ PushInt \/ PushDouble \/ FpLoad \/ IntArithmetic \/ DoubleArithmetic
            \/ ConvIntToDouble \/ ConvDoubleToInt \/ PushAddress \/ Load
  BY <1>1, <1>9, <1>10, Computing
<1>11. CASE IntDivision
  BY <1>4, <1>9, <1>11, Dividing
<1>12. CASE Store
  BY <1>1, <1>9, <1>12, Storing
<1>13. CASE FpStore \/ Drop \/ Nop \/ Jump \/ JumpIf
  <2>1. ~ CallExt
    BY <1>13 DEF FpStore, Drop, Nop, Jump, JumpIf, CallExt, At
  <2>2. QED BY <1>1, <1>9, <1>13, <2>1, Consuming
<1>14. QED
  BY <1>4, <1>5, <1>6, <1>7, <1>8, <1>10, <1>11, <1>12, <1>13 DEF Next

(* The invariant is inductive, and every step is one of CallStack's.       *)
LEMMA FramedNext ==
  TypeOK /\ Framed /\ NothingLeft /\ [Next]_vars =>
    /\ Framed' /\ NothingLeft'
    /\ Conventional(prog) => [Abstract!Next]_(Abstract!vars)
<1> SUFFICES ASSUME TypeOK, Framed, NothingLeft, [Next]_vars
             PROVE  /\ Framed' /\ NothingLeft'
                    /\ Conventional(prog) => [Abstract!Next]_(Abstract!vars)
  OBVIOUS
<1>1. CASE Conventional(prog) /\ Next
  BY <1>1, FramedStep
<1>2. CASE Conventional(prog) /\ UNCHANGED vars
  <2>1. PICK v \in [Nat -> Int], n \in Nat : Layout(v, n)
    BY <1>2 DEF Framed
  <2>2. UNCHANGED <<prog, ip, stack, sp, fp>> /\ UNCHANGED <<out, status>>
    BY <1>2 DEF vars
  <2>3. Framed'
    BY <2>1, <2>2, LayoutStays DEF Framed
  <2>4. NothingLeft'
    BY <1>2, <2>2 DEF NothingLeft
  <2>5. UNCHANGED Frames
    BY <2>2, FramesStay
  <2>6. QED BY <2>2, <2>3, <2>4, <2>5 DEF Abstract!vars
<1>3. CASE ~ Conventional(prog)
  <2>1. prog' = prog
    BY DEF Next, FullStack, EmptyStack, OffTheStack, BadAccess, NullInstruction, Halt, PushInt,
           PushDouble, Call, CallExt, Enter, RetVoid, Ret, Jump, JumpIf, FpLoad, FpStore,
           IntArithmetic, IntDivision, DoubleArithmetic, ConvIntToDouble, ConvDoubleToInt,
           PushAddress, Load, Store, Drop, Nop, Stop, vars
  <2>2. Conventional(prog)' => Conventional(prog)
    BY <2>1, ConventionStays
  <2>3. QED BY <1>3, <2>2 DEF Framed, NothingLeft
<1>4. QED BY <1>1, <1>2, <1>3

(* When main has returned, nothing is left on the stack, whatever was      *)
(* called and however deep.                                                *)
THEOREM StackLeftEmpty == Spec => []NothingLeft
<1>1. Init => NothingLeft
  BY DEF Init, Started, NothingLeft
<1>2. QED
  BY <1>1, TypeCorrect, FramedInit, FramedNext, PTL DEF Spec

(* The machine implements the stack of frames for every program that keeps *)
(* to the calling convention: no instruction touches another frame than    *)
(* the running one's, CALL and ENTER hand the last operands over, and RET  *)
(* and RET_VOID give the caller back what it had.                          *)
THEOREM CallsKept == Spec => ImplementsCallStack
<1>1. Init => NothingLeft
  BY DEF Init, Started, NothingLeft
<1>2. Spec => [](TypeOK /\ Framed /\ NothingLeft)
  BY <1>1, TypeCorrect, FramedInit, FramedNext, PTL DEF Spec
<1>3. TypeOK /\ Framed /\ NothingLeft /\ [Next]_vars =>
        [Conventional(prog) => [Abstract!Next]_(Abstract!vars)]_vars
  BY FramedNext
<1>4. Init => (Conventional(prog) => Abstract!Init)
  BY FramedInit
<1>5. QED
  BY <1>2, <1>3, <1>4, PTL DEF Spec, ImplementsCallStack
-----------------------------------------------------------------------------
(* What can go wrong on code that keeps to the convention.                 *)

LEMMA LowestCell ==
  ASSUME Conventional(prog), NEW v \in [Nat -> Int], NEW n \in Nat, Layout(v, n), NEW k \in 0 .. n
  PROVE  Base(v, k) >= -1 /\ (k > 0 => v[k] >= 1 /\ First(v, n, k) >= 0)
<1>1. ASSUME NEW i \in 1 .. n PROVE v[i] >= 1
  BY DEF Layout, Linked, Slots
<1>2. ASSUME NEW i \in 0 .. n PROVE Base(v, i) >= -1
  BY <1>1 DEF Base, NoFrame
<1>3. CASE k > 0
  <2>1. k - 1 \in 0 .. n /\ k \in 1 .. n
    BY <1>3
  <2>2. First(v, n, k) = End(v, n, k - 1) + 1
    BY <2>1 DEF Layout, Linked
  <2>3. Base(v, k - 1) \in Int /\ End(v, n, k - 1) \in Int /\ Base(v, k - 1) <= End(v, n, k - 1)
    BY <2>1, FnFacts
  <2>4. QED BY <1>1, <1>2, <2>1, <2>2, <2>3
<1>4. QED BY <1>2, <1>3

\* No function pops an operand it has not pushed.
LEMMA PopsFind ==
  ASSUME TypeOK, Conventional(prog), NEW v \in [Nat -> Int], NEW n \in Nat, Layout(v, n),
         At(PopOps \cup Pop2Ops)
  PROVE  sp \in Slots /\ sp - Arity(Instr.op) + 1 \in Slots
<1>1. /\ ip \in Nodes /\ Instr = prog.code[ip] /\ Instr.op \notin {"ENTER", "CALL"}
      /\ Arity(Instr.op) \in {1, 2}
  BY DEF TypeOK, At, Instr, Arity, PopOps, Pop2Ops, IntOps, DblOps
<1>2. /\ Allowed(prog, ip) /\ prog.depth[ip] \in Nat
      /\ sp = Base(v, n) + Fn(v, n, n).locals + prog.depth[ip]
      /\ prog.depth[ip] > 0 => sp \in Slots
  BY <1>1, LayoutHere
<1>3. Arity(Instr.op) <= prog.depth[ip]
  BY <1>1, <1>2 DEF Allowed, Takes
<1>4. Base(v, n) \in Int /\ Base(v, n) >= -1 /\ Fn(v, n, n).locals \in Nat
  BY FnFacts, LowestCell
<1>5. QED BY <1>1, <1>2, <1>3, <1>4 DEF Slots

\* The stack pointer is never below the empty stack.
LEMMA NeverBelow ==
  ASSUME TypeOK, Conventional(prog), NEW v \in [Nat -> Int], NEW n \in Nat, Layout(v, n)
  PROVE  sp >= -1
<1>1. CASE Entering
  <2>1. sp = v[n] - 1 /\ n > 0
    BY <1>1 DEF Layout
  <2>2. QED BY <2>1, LowestCell
<1>2. CASE ~ Entering
  <2>1. sp = End(v, n, n)
    BY <1>2 DEF Layout
  <2>2. Base(v, n) \in Int /\ End(v, n, n) \in Int /\ Base(v, n) <= End(v, n, n) /\ Base(v, n) >= -1
    BY FnFacts, LowestCell
  <2>3. QED BY <2>1, <2>2
<1>3. QED BY <1>1, <1>2

\* A slot of the convention lies in the array, or behind its end with the top.
LEMMA SlotLies ==
  ASSUME TypeOK, Conventional(prog), NEW v \in [Nat -> Int], NEW n \in Nat, Layout(v, n),
         At(SlotOps), ~ SlotOK
  PROVE  sp >= StackSize
<1>1. ip # NULL /\ ip \in Nodes /\ Instr.op # "ENTER" /\ Instr.op \in SlotOps
  BY DEF TypeOK, At, SlotOps
<1>2. Slot \in Own(Fn(v, n, n), Base(v, n))
  BY <1>1, SlotOwn
<1>3. ~ Entering /\ fp = Base(v, n) /\ prog.depth[ip] \in Nat
      /\ sp = Base(v, n) + Fn(v, n, n).locals + prog.depth[ip]
  BY <1>1, LayoutHere
<1>4. /\ Fn(v, n, n).params \in Nat /\ Fn(v, n, n).locals \in Nat /\ Base(v, n) \in Int
      /\ n = 0 => Fn(v, n, n).params = 0 /\ Fn(v, n, n).locals = 0
  BY FnFacts
<1>5. n > 0
  BY <1>2, <1>4 DEF Own
<1>6. v[n] \in Slots /\ Base(v, n) = v[n]
  BY <1>3, <1>5 DEF Layout, Linked, Base
<1>7. First(v, n, n) >= 0 /\ v[n] >= 1
  BY <1>5, LowestCell
<1>8. Slot \in Int /\ Slot \notin Slots /\ Slot >= 0
  <2>1. Slot \in Int /\ Slot >= Base(v, n) - 1 - Fn(v, n, n).params
    BY <1>2, <1>4 DEF Own
  <2>2. Slot \notin Slots
    BY <1>3, <1>6, <1>7 DEF SlotOK, NoFrame
  <2>3. First(v, n, n) = Base(v, n) - 1 - Fn(v, n, n).params
    BY DEF First
  <2>4. QED BY <1>4, <1>7, <2>1, <2>2, <2>3
<1>9. Slot >= StackSize
  BY <1>8, SizeAssumption DEF Slots
<1>10. Slot <= Base(v, n) + Fn(v, n, n).locals
  BY <1>2, <1>4 DEF Own
<1>11. QED BY <1>3, <1>4, <1>8, <1>9, <1>10, SizeAssumption

\* A return finds what CALL and ENTER have left, and its caller's place for a result.
LEMMA ReturnFinds ==
  ASSUME TypeOK, Conventional(prog), NEW v \in [Nat -> Int], NEW n \in Nat, Layout(v, n),
         At({"RET", "RET_VOID"})
  PROVE  FrameOK /\ fp - Instr.arg - 1 \in Slots
<1>1. ip \in Nodes /\ Instr = prog.code[ip] /\ Instr.op # "ENTER" /\ Instr.op \in {"RET", "RET_VOID"}
  BY DEF TypeOK, At, Instr
<1>2. ~ Entering /\ fp = Base(v, n) /\ Fn(v, n, n) = prog.frame[ip] /\ Allowed(prog, ip)
  BY <1>1, LayoutHere
<1>3. Fn(v, n, n).function /\ Instr.arg = Fn(v, n, n).params
  BY <1>1, <1>2 DEF Allowed
<1>4. n > 0
  <2>1. Fn(v, n, n).function = (n > 0)
    BY DEF Layout, Frame
  <2>2. QED BY <1>3, <2>1
<1>5. /\ v[n] - 1 \in Slots /\ v[n] \in Slots /\ fp = v[n]
      /\ stack[v[n] - 1].tag = "instr" /\ stack[v[n]] = StackP(Base(v, n - 1))
  BY <1>2, <1>4 DEF Layout, Linked, Base
<1>6. FrameOK
  BY <1>5 DEF FrameOK, StackP
<1>7. First(v, n, n) >= 0 /\ First(v, n, n) = v[n] - 1 - Fn(v, n, n).params
      /\ Fn(v, n, n).params \in Nat
  BY <1>4, LowestCell, FnFacts DEF First, Base
<1>8. QED BY <1>3, <1>5, <1>6, <1>7 DEF Slots

\* What is loaded from or stored to is an address of the convention.
LEMMA AddressFound ==
  ASSUME TypeOK, Conventional(prog), NEW v \in [Nat -> Int], NEW n \in Nat, Layout(v, n),
         At(LoadOps \cup StoreOps)
  PROVE  LET c == Top(IF Instr.op \in StoreOps THEN 1 ELSE 0) IN ~ Readable(c) => Narrow(c)
<1> DEFINE a == IF Instr.op \in StoreOps THEN 1 ELSE 0
<1>1. ip \in Nodes /\ Instr = prog.code[ip] /\ Instr.op # "ENTER"
      /\ Instr.op \in LoadOps \cup StoreOps /\ (Instr.op \in LoadOps <=> Instr.op \notin StoreOps)
  BY DEF TypeOK, At, Instr, LoadOps, StoreOps
<1>2. /\ Allowed(prog, ip) /\ prog.depth[ip] \in Nat
      /\ sp = Base(v, n) + Fn(v, n, n).locals + prog.depth[ip]
      /\ \A d \in prog.addrs[ip] :
           Address(stack[Base(v, n) + Fn(v, n, n).locals + d], Fn(v, n, n), Base(v, n))
  BY <1>1, LayoutHere
<1>3. prog.depth[ip] - a \in prog.addrs[ip]
  BY <1>1, <1>2 DEF Allowed
<1>4. Base(v, n) \in Int /\ Fn(v, n, n).locals \in Nat
  BY FnFacts
<1>5. Base(v, n) + Fn(v, n, n).locals + (prog.depth[ip] - a) = sp - a
  BY <1>2, <1>4
<1>6. Address(stack[sp - a], Fn(v, n, n), Base(v, n))
  BY <1>2, <1>3, <1>5
<1>7. QED BY <1>6 DEF Address, Readable, Narrow, Top

Foreseen(s) ==
  /\ s = "error" => (Instr.op \in PushOps /\ sp + 1 = StackSize) \/ ByZero
  /\ s = "undefined" =>
       \/ sp >= StackSize
       \/ Traps
       \/ Instr.op \in LoadOps /\ Narrow(Top(0))
       \/ Instr.op \in StoreOps /\ Narrow(Top(1))

LEMMA FaultOf ==
  ASSUME TypeOK, Framed, Next, Conventional(prog), status' \in {"error", "undefined"}
  PROVE  Stop(status') /\ Foreseen(status')
<1>1. PICK v \in [Nat -> Int], n \in Nat : Layout(v, n)
  BY DEF Framed
<1>2. FullStack \/ EmptyStack \/ OffTheStack \/ BadAccess \/ NullInstruction \/ IntDivision
  BY DEF Next, Halt, PushInt, PushDouble, Call, CallExt, Enter, RetVoid, Ret, Jump, JumpIf, FpLoad,
         FpStore, IntArithmetic, DoubleArithmetic, ConvIntToDouble, ConvDoubleToInt, PushAddress,
         Load, Store, Drop, Nop, At, Stop
<1>3. CASE FullStack
  BY <1>3 DEF FullStack, Stop, Foreseen, At
<1>4. ~ EmptyStack
  <2>1. SUFFICES ASSUME EmptyStack PROVE FALSE
    OBVIOUS
  <2>2. sp \in Slots /\ sp - Arity(Instr.op) + 1 \in Slots
    BY <1>1, <2>1, PopsFind DEF EmptyStack
  <2>3. sp \in -1 .. Arity(Instr.op) - 2 /\ Arity(Instr.op) \in {0, 1, 2}
    BY <2>1 DEF EmptyStack, Arity
  <2>4. QED BY <2>2, <2>3 DEF Slots
<1>5. CASE OffTheStack
  <2>1. CASE At(PushOps) /\ sp + 1 \notin 0 .. StackSize
    <3>1. sp >= -1 /\ sp \in Int
      BY <1>1, NeverBelow DEF TypeOK
    <3>2. sp >= StackSize
      BY <2>1, <3>1, SizeAssumption
    <3>3. QED BY <1>5, <3>2 DEF OffTheStack, Stop, Foreseen
  <2>2. CASE At(PopOps \cup Pop2Ops) /\ sp \notin -1 .. StackSize - 1
    <3>1. sp \in Slots
      BY <1>1, <2>2, PopsFind
    <3>2. QED BY <2>2, <3>1 DEF Slots
  <2>3. QED BY <1>5, <2>1, <2>2 DEF OffTheStack
<1>6. CASE BadAccess
  <2>1. Stop("undefined")
    BY <1>6 DEF BadAccess
  <2>2. CASE At(SlotOps) /\ ~ SlotOK
    BY <1>1, <2>1, <2>2, SlotLies DEF Stop, Foreseen
  <2>3. ~ (At({"RET_VOID"}) /\ ~ FrameOK)
    BY <1>1, ReturnFinds DEF At
  <2>4. ~ (At({"RET"}) /\ ~ (FrameOK /\ fp - Instr.arg - 1 \in Slots))
    BY <1>1, ReturnFinds DEF At
  <2>5. CASE At({"LOAD_I", "LOAD_F"}) /\ ~ Readable(Top(0))
    <3>1. At(LoadOps \cup StoreOps) /\ Instr.op \notin StoreOps /\ Instr.op \in LoadOps
      BY <2>5 DEF At, LoadOps, StoreOps
    <3>2. Narrow(Top(0))
      BY <1>1, <2>5, <3>1, AddressFound
    <3>3. QED BY <2>1, <3>1, <3>2 DEF Stop, Foreseen
  <2>6. CASE At({"STORE_I", "STORE_F"}) /\ ~ Readable(Top(1))
    <3>1. At(LoadOps \cup StoreOps) /\ Instr.op \in StoreOps
      BY <2>6 DEF At, LoadOps, StoreOps
    <3>2. Narrow(Top(1))
      BY <1>1, <2>6, <3>1, AddressFound
    <3>3. QED BY <2>1, <3>1, <3>2 DEF Stop, Foreseen
  <2>7. \/ At(SlotOps) /\ ~ SlotOK
        \/ At({"RET_VOID"}) /\ ~ FrameOK
        \/ At({"RET"}) /\ ~ (FrameOK /\ fp - Instr.arg - 1 \in Slots)
        \/ At({"LOAD_I", "LOAD_F"}) /\ ~ Readable(Top(0))
        \/ At({"STORE_I", "STORE_F"}) /\ ~ Readable(Top(1))
    BY <1>6 DEF BadAccess, At, SlotOps, FrameOps
  <2>8. QED BY <2>2, <2>3, <2>4, <2>5, <2>6, <2>7
<1>7. ~ NullInstruction
  <2>1. Node(v, n, n) = ip /\ Node(v, n, n) \in Nodes
    BY <1>1, FnFacts DEF Node
  <2>2. QED BY <2>1 DEF NullInstruction, TypeOK, WellLinked, Nodes
<1>8. CASE IntDivision
  <2>1. PICK a \in AsInt(Top(1)), b \in AsInt(Top(0)) :
          \/ b = 0 /\ Stop("error")
          \/ b # 0 /\ Quotient(a, b) \notin Ints /\ Stop("undefined")
          \/ status' = status
    BY <1>8 DEF IntDivision
  <2>2. status = "running" /\ Instr.op = "DIV_I"
    BY <1>8 DEF IntDivision, At
  <2>3. CASE b = 0 /\ Stop("error")
    BY <2>2, <2>3 DEF Stop, Foreseen, ByZero
  <2>4. CASE b # 0 /\ Quotient(a, b) \notin Ints /\ Stop("undefined")
    BY <2>2, <2>4 DEF Stop, Foreseen, Traps
  <2>5. QED BY <2>1, <2>2, <2>3, <2>4
<1>9. QED BY <1>2, <1>3, <1>4, <1>5, <1>6, <1>7, <1>8

LEMMA FaultsNext == TypeOK /\ Framed /\ FaultsForeseen /\ [Next]_vars => FaultsForeseen'
<1> SUFFICES ASSUME TypeOK, Framed, FaultsForeseen, [Next]_vars, Conventional(prog)',
                    status' \in {"error", "undefined"}
             PROVE  Foreseen(status)'
  BY DEF FaultsForeseen, Foreseen
<1>1. UNCHANGED <<prog, ip, stack, sp, fp>> => (Foreseen(status)' <=> Foreseen(status'))
  BY DEF Foreseen, ByZero, Traps, Narrow, Readable, Top, Instr, Slots
<1>2. Conventional(prog)
  <2>1. prog' = prog
    BY DEF Next, FullStack, EmptyStack, OffTheStack, BadAccess, NullInstruction, Halt, PushInt,
           PushDouble, Call, CallExt, Enter, RetVoid, Ret, Jump, JumpIf, FpLoad, FpStore,
           IntArithmetic, IntDivision, DoubleArithmetic, ConvIntToDouble, ConvDoubleToInt,
           PushAddress, Load, Store, Drop, Nop, Stop, vars
  <2>2. QED BY <2>1, ConventionStays
<1>3. CASE Next
  <2>1. Stop(status') /\ Foreseen(status')
    BY <1>2, <1>3, FaultOf
  <2>2. QED BY <1>1, <2>1 DEF Stop
<1>4. CASE UNCHANGED vars
  BY <1>1, <1>2, <1>4 DEF vars, FaultsForeseen, Foreseen
<1>5. QED BY <1>3, <1>4

(* On code that keeps to the convention the unchecked pops, frames, slots  *)
(* and return addresses of run() are never wrong: what stops such code is  *)
(* the end of the array, a division or the width of a global.              *)
THEOREM FaultsKnown == Spec => []FaultsForeseen
<1>1. Init => FaultsForeseen
  BY DEF Init, Started, FaultsForeseen
<1>2. Init => NothingLeft
  BY DEF Init, Started, NothingLeft
<1>3. QED
  BY <1>1, <1>2, TypeCorrect, FramedInit, FramedNext, FaultsNext, PTL DEF Spec
=============================================================================
