--------------------------- MODULE VirtualMachine ---------------------------
(***************************************************************************)
(* The AtomC stack machine: src/vm/vm.c, run() and its push and pop        *)
(* helpers, over the linked instructions of include/vm/instruction.h.      *)
(*                                                                         *)
(* One array of cells holds operands, arguments, return addresses, saved   *)
(* frame pointers and locals; stack_pointer and function_pointer are       *)
(* indices into it here (pointers in the code).  A cell is a union in the  *)
(* code: the model keeps the member last written as its tag, and a read of *)
(* another member yields any value of the member's type.                   *)
(*                                                                         *)
(* err() ends the process: status "error".  A C step whose behaviour is    *)
(* undefined (a wild access, a NULL instruction, a trapping division) ends *)
(* the modelled run with status "undefined".                               *)
(***************************************************************************)
EXTENDS Integers, Sequences

CONSTANTS
  StackSize,  (* VM_STACK_SIZE, 10000 in the code                          *)
  MinInt,     (* the least int ...                                         *)
  MaxInt,     (* ... and the largest: ints wrap between the two            *)
  AnyDouble,  (* what reading a non-double cell as a double may give       *)
  Programs    (* the programs the machine may be asked to run              *)

NULL    == 0    \* the NULL Instruction pointer
NoFrame == -1   \* function_pointer == NULL

Ints == MinInt .. MaxInt

(* Definitions named Bad... are not part of the machine: each is a         *)
(* neighbouring definition with a mistake in it, for the properties that   *)
(* should notice.                                                          *)
BadWrap(x) == x

\* C's int arithmetic as the build performs it: two's complement wrap-around.
Wrap(x) == MinInt + ((x - MinInt) % (MaxInt - MinInt + 1))

(* The opcodes by what they do with the top of the stack.                  *)
PushOps == {"PUSH_I", "PUSH_F", "ADDR", "FPADDR_I", "FPADDR_F", "FPLOAD",
            "CALL", "ENTER"}
PopOps  == {"JF", "JT", "FPSTORE", "RET", "CONV_I_F", "CONV_F_I", "LOAD_I",
            "LOAD_F", "DROP", "CALL_EXT"}
IntOps  == {"ADD_I", "SUB_I", "MUL_I", "LESS_I"}
DblOps  == {"ADD_F", "SUB_F", "MUL_F", "DIV_F", "LESS_F"}
FrameOps == {"FPLOAD", "FPADDR_I", "FPADDR_F"}   \* they name FP[arg] before the push
Pop2Ops == IntOps \cup DblOps \cup {"DIV_I", "STORE_I", "STORE_F"}
Opcodes == PushOps \cup PopOps \cup Pop2Ops \cup {"HALT", "RET_VOID", "JMP", "NOP"}

Arity(op) == IF op \in Pop2Ops THEN 2 ELSE IF op \in PopOps THEN 1 ELSE 0

(***************************************************************************)
(* A program: its instructions by node, the node run() starts at, and the  *)
(* size in bytes of every global variable (var_mem).  arg is a constant,   *)
(* a slot, a count, a node, a global or an extern, as the opcode demands.  *)
(***************************************************************************)
PutInt    == 1   \* the two extern functions of vm_init
PutDouble == 2

JumpOps == {"CALL", "JMP", "JF", "JT"}

WellLinked(p) ==
  /\ DOMAIN p.code \subseteq Nat \ {NULL}
  /\ p.entry \in DOMAIN p.code
  /\ \A i \in DOMAIN p.code :
       /\ p.code[i].op \in Opcodes
       /\ p.code[i].next \in DOMAIN p.code \cup {NULL}
       /\ p.code[i].op \in JumpOps => p.code[i].arg \in DOMAIN p.code \cup {NULL}
       /\ p.code[i].op = "PUSH_I" => p.code[i].arg \in Ints
       /\ p.code[i].op = "ADDR" => p.code[i].arg \in DOMAIN p.globals
       /\ p.code[i].op = "CALL_EXT" => p.code[i].arg \in {PutInt, PutDouble}
       /\ p.code[i].op \in {"PUSH_F", "FPADDR_I", "FPADDR_F", "FPLOAD", "FPSTORE"} =>
            p.code[i].arg \in Int
       /\ p.code[i].op \in {"ENTER", "RET", "RET_VOID"} => p.code[i].arg \in Nat

ASSUME SizeAssumption == StackSize \in Nat \ {0}
ASSUME IntAssumption ==
  /\ MinInt \in Int /\ MaxInt \in Int /\ MinInt < 0 /\ MaxInt > 0
ASSUME DoubleAssumption == AnyDouble \subseteq Int /\ AnyDouble # {}
ASSUME ProgramAssumption == \A p \in Programs : WellLinked(p)

VARIABLES
  prog,    \* the program being run: its instructions do not change
  ip,      \* instruction_pointer
  stack,   \* vm->stack
  sp,      \* vm->stack_pointer - vm->stack; -1 when the stack is empty
  fp,      \* vm->function_pointer - vm->stack
  mem,     \* the memory of the global variables
  out,     \* what the extern functions printed
  status   \* "running", "halted", "error" (err was called) or "undefined"

vars == <<prog, ip, stack, sp, fp, mem, out, status>>

(***************************************************************************)
(* Cells.  A double is held as a count of halves, enough for the constants *)
(* the programs use; a "raw" cell holds bits nobody wrote as a value.      *)
(***************************************************************************)
Slots == 0 .. StackSize - 1
Nodes == DOMAIN prog.code

Raw       == [tag |-> "raw", val |-> 0]
Int32(v)  == [tag |-> "int", val |-> v]
Double(v) == [tag |-> "double", val |-> v]
StackP(i) == [tag |-> "stack", val |-> i]
GlobalP(g) == [tag |-> "global", val |-> g]
InstrP(i) == [tag |-> "instr", val |-> i]

CellsOf(p) ==
  {Raw} \cup [tag : {"int"}, val : Ints] \cup [tag : {"double", "stack"}, val : Int]
        \cup [tag : {"global"}, val : DOMAIN p.globals]
        \cup [tag : {"instr"}, val : DOMAIN p.code \cup {NULL}]

AsInt(c)    == IF c.tag = "int" THEN {c.val} ELSE Ints
AsDouble(c) == IF c.tag = "double" THEN {c.val} ELSE AnyDouble

\* Rounds towards minus infinity.
BadQuotient(a, b) == IF b < 0 THEN (-a) \div (-b) ELSE a \div b

\* C integer division truncates towards zero (b # 0).
Quotient(a, b) ==
  LET abs(x) == IF x < 0 THEN -x ELSE x
      q == abs(a) \div abs(b)
  IN  IF (a < 0) = (b < 0) THEN q ELSE -q

Bit(b) == IF b THEN 1 ELSE 0

IntResult(op, a, b) ==
  CASE op = "ADD_I"  -> Wrap(a + b)
    [] op = "SUB_I"  -> Wrap(a - b)
    [] op = "MUL_I"  -> Wrap(a * b)
    [] op = "LESS_I" -> Bit(a < b)

\* The halves nearest to n / d on either side; anything for a division by zero.
Rounded(n, d) ==
  IF d = 0 THEN AnyDouble
  ELSE IF n % (IF d < 0 THEN -d ELSE d) = 0 THEN {Quotient(n, d)}
       ELSE {Quotient(n, d), Quotient(n, d) + (IF (n < 0) = (d < 0) THEN 1 ELSE -1)}

DblResult(op, a, b) ==
  CASE op = "ADD_F"  -> {Double(a + b)}
    [] op = "SUB_F"  -> {Double(a - b)}
    [] op = "MUL_F"  -> {Double(v) : v \in Rounded(a * b, 2)}
    [] op = "DIV_F"  -> {Double(v) : v \in Rounded(2 * a, b)}
    [] op = "LESS_F" -> {Int32(Bit(a < b))}

\* (double)i, and (int)f: truncation; out of range gives whatever the machine does.
DoubleOf(i) == 2 * i
IntOf(f) == LET q == Quotient(f, 2) IN IF q \in Ints THEN {q} ELSE Ints

-----------------------------------------------------------------------------
Instr == prog.code[ip]

At(ops) == status = "running" /\ ip # NULL /\ Instr.op \in ops

Stop(s) == status' = s /\ UNCHANGED <<prog, ip, stack, sp, fp, mem, out>>

\* Compares with the cell behind the end.
BadRoom == sp + 1 \in 0 .. StackSize

Room   == sp + 1 \in Slots                     \* a push writes a cell
Has(n) == sp \in Slots /\ sp - n + 1 \in Slots   \* n pops read cells

(* Pop n cells, push c: the way every computing instruction ends.          *)
Replace(n, c) ==
  /\ sp' = sp - n + 1
  /\ stack' = [stack EXCEPT ![sp - n + 1] = c]
  /\ ip' = Instr.next

\* The cell n below the top.
Top(n) == stack[sp - n]

\* FP[arg], when there is a frame and the slot is a cell.
Slot   == fp + Instr.arg
SlotOK == fp # NoFrame /\ Slot \in Slots

\* The width in bytes of what a LOAD or STORE touches, and whether the
\* address is that of enough memory.
Width(op) == IF op \in {"LOAD_F", "STORE_F"} THEN 8 ELSE 4
Readable(c) ==
  \/ c.tag = "stack" /\ c.val \in Slots
  \/ c.tag = "global" /\ prog.globals[c.val] >= Width(Instr.op)
Contents(c) == IF c.tag = "stack" THEN stack[c.val] ELSE mem[c.val]

-----------------------------------------------------------------------------
(* push_value, push_int, push_pointer, push_double: the bound is compared  *)
(* for equality, so a stack pointer already past the end is not noticed.   *)
FullStack ==
  /\ At(PushOps)
  /\ sp + 1 = StackSize
  /\ Instr.op \in FrameOps => SlotOK
  /\ Stop("error")

(* pop_value, pop_int, pop_pointer, pop_double on an empty stack.          *)
EmptyStack ==
  /\ At(PopOps \cup Pop2Ops)
  /\ sp \in -1 .. Arity(Instr.op) - 2
  /\ Stop("error")

(* A push or pop whose cell lies outside the array and which no check      *)
(* catches.                                                                *)
OffTheStack ==
  /\ \/ At(PushOps) /\ sp + 1 \notin 0 .. StackSize
     \/ At(PopOps \cup Pop2Ops) /\ sp \notin -1 .. StackSize - 1
  /\ Stop("undefined")

Halt ==
  /\ At({"HALT"})
  /\ Stop("halted")

PushInt ==
  /\ At({"PUSH_I"}) /\ Room
  /\ Replace(0, Int32(Instr.arg))
  /\ UNCHANGED <<prog, fp, mem, out, status>>

PushDouble ==
  /\ At({"PUSH_F"}) /\ Room
  /\ Replace(0, Double(Instr.arg))
  /\ UNCHANGED <<prog, fp, mem, out, status>>

Call ==
  /\ At({"CALL"}) /\ Room
  /\ sp' = sp + 1
  /\ stack' = [stack EXCEPT ![sp + 1] = InstrP(Instr.next)]
  /\ ip' = Instr.arg
  /\ UNCHANGED <<prog, fp, mem, out, status>>

(* put_int and put_double pop their argument and print it.                 *)
CallExt ==
  /\ At({"CALL_EXT"}) /\ Has(1)
  /\ \E v \in IF Instr.arg = PutInt THEN {Int32(i) : i \in AsInt(Top(0))}
                                       ELSE {Double(d) : d \in AsDouble(Top(0))} :
       out' = Append(out, v)
  /\ sp' = sp - 1
  /\ ip' = Instr.next
  /\ UNCHANGED <<prog, stack, fp, mem, status>>

\* Sets function_pointer before it pushes the old one.
BadEnter ==
  /\ At({"ENTER"}) /\ Room
  /\ stack' = [stack EXCEPT ![sp + 1] = StackP(fp)]
  /\ fp' = sp
  /\ sp' = sp + 1 + Instr.arg
  /\ ip' = Instr.next
  /\ UNCHANGED <<prog, mem, out, status>>

(* The saved frame pointer is pushed with the check; the locals are added  *)
(* to stack_pointer without one.                                           *)
Enter ==
  /\ At({"ENTER"}) /\ Room
  /\ stack' = [stack EXCEPT ![sp + 1] = StackP(fp)]
  /\ fp' = sp + 1
  /\ sp' = sp + 1 + Instr.arg
  /\ ip' = Instr.next
  /\ UNCHANGED <<prog, mem, out, status>>

\* FP[-1] and FP[0] hold what CALL and ENTER put there.
FrameOK ==
  /\ fp - 1 \in Slots /\ stack[fp - 1].tag = "instr"
  /\ fp \in Slots /\ stack[fp].tag = "stack"

\* Leaves the arguments to the caller.
BadRetVoid ==
  /\ At({"RET_VOID"}) /\ FrameOK
  /\ ip' = stack[fp - 1].val
  /\ sp' = fp - 2
  /\ fp' = stack[fp].val
  /\ UNCHANGED <<prog, stack, mem, out, status>>

RetVoid ==
  /\ At({"RET_VOID"}) /\ FrameOK
  /\ ip' = stack[fp - 1].val
  /\ sp' = fp - Instr.arg - 2
  /\ fp' = stack[fp].val
  /\ UNCHANGED <<prog, stack, mem, out, status>>

Ret ==
  /\ At({"RET"}) /\ Has(1) /\ FrameOK
  /\ fp - Instr.arg - 1 \in Slots
  /\ ip' = stack[fp - 1].val
  /\ sp' = fp - Instr.arg - 1
  /\ stack' = [stack EXCEPT ![fp - Instr.arg - 1] = Top(0)]
  /\ fp' = stack[fp].val
  /\ UNCHANGED <<prog, mem, out, status>>

\* Does not move instruction_pointer.
BadJump ==
  /\ At({"JMP"})
  /\ UNCHANGED <<prog, ip, stack, sp, fp, mem, out, status>>

Jump ==
  /\ At({"JMP"})
  /\ ip' = Instr.arg
  /\ UNCHANGED <<prog, stack, sp, fp, mem, out, status>>

JumpIf ==
  /\ At({"JF", "JT"}) /\ Has(1)
  /\ \E v \in AsInt(Top(0)) :
       ip' = IF (v # 0) = (Instr.op = "JT") THEN Instr.arg ELSE Instr.next
  /\ sp' = sp - 1
  /\ UNCHANGED <<prog, stack, fp, mem, out, status>>

FpLoad ==
  /\ At({"FPLOAD"}) /\ Room /\ SlotOK
  /\ Replace(0, stack[Slot])
  /\ UNCHANGED <<prog, fp, mem, out, status>>

FpStore ==
  /\ At({"FPSTORE"}) /\ Has(1) /\ SlotOK
  /\ stack' = [stack EXCEPT ![Slot] = Top(0)]
  /\ sp' = sp - 1
  /\ ip' = Instr.next
  /\ UNCHANGED <<prog, fp, mem, out, status>>

IntArithmetic ==
  /\ At(IntOps) /\ Has(2)
  /\ \E a \in AsInt(Top(1)), b \in AsInt(Top(0)) :
       Replace(2, Int32(IntResult(Instr.op, a, b)))
  /\ UNCHANGED <<prog, fp, mem, out, status>>

(* Only a zero divisor is checked for: MinInt / -1 traps.                  *)
IntDivision ==
  /\ At({"DIV_I"}) /\ Has(2)
  /\ \E a \in AsInt(Top(1)), b \in AsInt(Top(0)) :
       \/ b = 0 /\ Stop("error")
       \/ b # 0 /\ Quotient(a, b) \notin Ints /\ Stop("undefined")
       \/ /\ b # 0 /\ Quotient(a, b) \in Ints
          /\ Replace(2, Int32(Quotient(a, b)))
          /\ UNCHANGED <<prog, fp, mem, out, status>>

DoubleArithmetic ==
  /\ At(DblOps) /\ Has(2)
  /\ \E a \in AsDouble(Top(1)), b \in AsDouble(Top(0)) :
       \E c \in DblResult(Instr.op, a, b) : Replace(2, c)
  /\ UNCHANGED <<prog, fp, mem, out, status>>

ConvIntToDouble ==
  /\ At({"CONV_I_F"}) /\ Has(1)
  /\ \E i \in AsInt(Top(0)) : Replace(1, Double(DoubleOf(i)))
  /\ UNCHANGED <<prog, fp, mem, out, status>>

ConvDoubleToInt ==
  /\ At({"CONV_F_I"}) /\ Has(1)
  /\ \E d \in AsDouble(Top(0)) : \E i \in IntOf(d) : Replace(1, Int32(i))
  /\ UNCHANGED <<prog, fp, mem, out, status>>

PushAddress ==
  /\ \/ At({"ADDR"}) /\ Room /\ Replace(0, GlobalP(Instr.arg))
     \/ At({"FPADDR_I", "FPADDR_F"}) /\ Room /\ SlotOK /\ Replace(0, StackP(Slot))
  /\ UNCHANGED <<prog, fp, mem, out, status>>

Load ==
  /\ At({"LOAD_I", "LOAD_F"}) /\ Has(1) /\ Readable(Top(0))
  /\ \/ /\ Instr.op = "LOAD_I"
        /\ \E i \in AsInt(Contents(Top(0))) : Replace(1, Int32(i))
     \/ /\ Instr.op = "LOAD_F"
        /\ \E d \in AsDouble(Contents(Top(0))) : Replace(1, Double(d))
  /\ UNCHANGED <<prog, fp, mem, out, status>>

(* The value is written through the address and pushed back in its place.  *)
Store ==
  /\ At({"STORE_I", "STORE_F"}) /\ Has(2) /\ Readable(Top(1))
  /\ \E c \in IF Instr.op = "STORE_I" THEN {Int32(i) : i \in AsInt(Top(0))}
                                      ELSE {Double(d) : d \in AsDouble(Top(0))} :
       \/ /\ Top(1).tag = "stack"
          /\ stack' = [stack EXCEPT ![Top(1).val] = c, ![sp - 1] = c]
          /\ mem' = mem
       \/ /\ Top(1).tag = "global"
          /\ mem' = [mem EXCEPT ![Top(1).val] = c]
          /\ stack' = [stack EXCEPT ![sp - 1] = c]
  /\ sp' = sp - 1
  /\ ip' = Instr.next
  /\ UNCHANGED <<prog, fp, out, status>>

Drop ==
  /\ At({"DROP"}) /\ Has(1)
  /\ sp' = sp - 1
  /\ ip' = Instr.next
  /\ UNCHANGED <<prog, stack, fp, mem, out, status>>

Nop ==
  /\ At({"NOP"})
  /\ ip' = Instr.next
  /\ UNCHANGED <<prog, stack, sp, fp, mem, out, status>>

(* A wild frame slot, frame or address is dereferenced.                    *)
BadAccess ==
  /\ \/ At(FrameOps) /\ ~ SlotOK
     \/ At({"FPSTORE"}) /\ Has(1) /\ ~ SlotOK
     \/ At({"RET_VOID"}) /\ ~ FrameOK
     \/ At({"RET"}) /\ Has(1) /\ ~ (FrameOK /\ fp - Instr.arg - 1 \in Slots)
     \/ At({"LOAD_I", "LOAD_F"}) /\ Has(1) /\ ~ Readable(Top(0))
     \/ At({"STORE_I", "STORE_F"}) /\ Has(2) /\ ~ Readable(Top(1))
  /\ Stop("undefined")

(* Running off the end of a function, or calling a NULL one.               *)
NullInstruction ==
  /\ status = "running" /\ ip = NULL
  /\ Stop("undefined")

-----------------------------------------------------------------------------
(* vm_create, then run(entry).  The array is on the C stack and is not     *)
(* cleared; neither is the memory of the globals.                          *)
Started(p) ==
  /\ prog = p
  /\ ip = p.entry
  /\ stack = [i \in Slots |-> Raw]
  /\ sp = -1
  /\ fp = NoFrame
  /\ mem = [g \in DOMAIN p.globals |-> Raw]
  /\ out = <<>>
  /\ status = "running"

Init == \E p \in Programs : Started(p)

Next ==
  \/ FullStack \/ EmptyStack \/ OffTheStack \/ BadAccess \/ NullInstruction
  \/ Halt \/ PushInt \/ PushDouble \/ Call \/ CallExt \/ Enter \/ RetVoid \/ Ret
  \/ Jump \/ JumpIf \/ FpLoad \/ FpStore
  \/ IntArithmetic \/ IntDivision \/ DoubleArithmetic
  \/ ConvIntToDouble \/ ConvDoubleToInt
  \/ PushAddress \/ Load \/ Store \/ Drop \/ Nop

Spec == Init /\ [][Next]_vars

(* run() is a loop in one thread: it takes its next step as long as it has *)
(* one.                                                                    *)
FairSpec == Spec /\ WF_vars(Next)

-----------------------------------------------------------------------------
(* Every variable has its type: instructions and jump targets are nodes of *)
(* the program, and a cell tagged as a return address holds one.           *)
TypeOK ==
  /\ WellLinked(prog)
  /\ ip \in Nodes \cup {NULL}
  /\ stack \in [Slots -> CellsOf(prog)]
  /\ sp \in Int
  /\ fp \in Int
  /\ mem \in [DOMAIN prog.globals -> CellsOf(prog)]
  /\ out \in Seq(CellsOf(prog))
  /\ status \in {"running", "halted", "error", "undefined"}

(* A program without locals never takes the stack pointer behind the end   *)
(* of the array, up to the first thing it does that is undefined: it goes  *)
(* up one cell at a time, and then the comparison for equality in          *)
(* push_value and its like is enough (vm.c, OP_ENTER and the push          *)
(* helpers).                                                               *)
WithoutLocals == \A i \in Nodes : prog.code[i].op = "ENTER" => prog.code[i].arg = 0
ChecksSuffice == WithoutLocals => sp < StackSize

(* With locals the array is left by an ENTER and by nothing else: when the *)
(* stack pointer is behind the end, the frame pointer is still inside and  *)
(* the locals between the two are those of one ENTER (vm.c, OP_ENTER).     *)
(* This is how the array is left, not how far the program then goes: the   *)
(* checks stop nothing any more (PushBeyondIsError), the next push writes  *)
(* outside, and there the modelled run ends.                               *)
LeftByLocals ==
  sp >= StackSize =>
    /\ fp \in Slots
    /\ \E i \in Nodes : prog.code[i].op = "ENTER" /\ sp = fp + prog.code[i].arg

(* test_vm.c, "push beyond VM_STACK_SIZE -> error": a push that finds no   *)
(* cell left ends the run with an error message.                           *)
PushBeyondIsError ==
  [][At(PushOps) /\ sp + 1 >= StackSize => status' = "error"]_vars
=============================================================================
