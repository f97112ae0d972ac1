----------------------------- MODULE CallFrames -----------------------------
(***************************************************************************)
(* The frames held in the flat stack of VirtualMachine, as the chain of    *)
(* saved frame pointers delimits them (the layout of tests/vm/stack.md),   *)
(* the calling convention that compiled code keeps to, and the refinement  *)
(* of CallStack by the machine for every program that keeps to it.         *)
(*                                                                         *)
(* Here a program also describes its nodes:                                *)
(*   frame[i]  the function that node i belongs to: whether it is one (the *)
(*             code main() runs is not), its parameters, locals, results   *)
(*   depth[i]  how many operands that function has when i is next          *)
(*   addrs[i]  which of them, counted from 1 upwards, are addresses        *)
(***************************************************************************)
EXTENDS VirtualMachine

Cell(i) == IF i \in Slots THEN stack[i] ELSE Raw
Cells(from, to) == [i \in 1 .. to - from + 1 |-> Cell(from + i - 1)]

(* The frame pointers from the outermost function to the one fp points to. *)
Chain[f \in {NoFrame} \cup Slots] ==
  IF f = NoFrame THEN <<>>
  ELSE IF stack[f].tag = "stack" /\ stack[f].val \in NoFrame .. f - 2
       THEN Append(Chain[stack[f].val], f)
       ELSE <<f>>

Params(node) == IF node \in Nodes THEN prog.frame[node].params ELSE 0

\* Between CALL and ENTER the callee runs, but in its caller's frame: the node
\* to go on at is then on top of the stack.
Entering == ip \in Nodes /\ Instr.op = "ENTER"
Resume == IF Entering THEN Cell(sp).val ELSE ip

(* Frame 0 is the code main() runs, which has no frame pointer.            *)
Frames ==
  LET fps == Chain[fp]
      n   == Len(fps)
      at[k \in 0 .. n]   == IF k = n THEN Resume ELSE Cell(fps[k + 1] - 1).val
      args[k \in 0 .. n] == IF k = 0 THEN 0 ELSE Params(at[k])
      last[k \in 0 .. n] == IF k = n THEN sp ELSE fps[k + 1] - 2 - args[k + 1]
      first(k)           == IF k = 0 THEN 0 ELSE fps[k] + 1
  IN  [j \in 1 .. n + 1 |->
         LET k == j - 1 IN
         [ret   |-> IF k = 0 THEN 0 ELSE Cell(fps[k] - 1).val,
          args  |-> IF k = 0 THEN <<>> ELSE Cells(fps[k] - 1 - args[k], fps[k] - 2),
          cells |-> Cells(first(k), last[k])]]

-----------------------------------------------------------------------------
(* The calling convention, a check of the program's text alone.            *)

AddressOps == {"ADDR", "FPADDR_I", "FPADDR_F"}
ConvertOps == {"CONV_I_F", "CONV_F_I"}
LoadOps    == {"LOAD_I", "LOAD_F"}
StoreOps   == {"STORE_I", "STORE_F"}
SlotOps    == {"FPLOAD", "FPSTORE", "FPADDR_I", "FPADDR_F"}
ValueOps   == {"PUSH_I", "PUSH_F", "FPLOAD", "DIV_I"} \cup AddressOps \cup ConvertOps
                \cup LoadOps \cup StoreOps \cup IntOps \cup DblOps

(* How many operands an instruction takes from its function and leaves to  *)
(* it; a CALL is counted with all that the callee does.                    *)
Takes(p, i) == IF p.code[i].op = "CALL" THEN p.frame[p.code[i].arg].params
                                        ELSE Arity(p.code[i].op)
Gives(p, i) == IF p.code[i].op = "CALL" THEN p.frame[p.code[i].arg].results
               ELSE IF p.code[i].op \in ValueOps THEN 1 ELSE 0

(* The nodes of the same function that may be next.                        *)
Successors(p, i) ==
  CASE p.code[i].op \in {"HALT", "RET", "RET_VOID"} -> {}
    [] p.code[i].op = "JMP" -> {p.code[i].arg}
    [] p.code[i].op \in {"JF", "JT"} -> {p.code[i].arg, p.code[i].next}
    [] OTHER -> {p.code[i].next}

Described(p) ==
  /\ p.frame \in [DOMAIN p.code ->
                    [function : BOOLEAN, params : Nat, locals : Nat, results : {0, 1}]]
  /\ p.depth \in [DOMAIN p.code -> Nat]
  /\ p.addrs \in [DOMAIN p.code -> SUBSET Nat]
  /\ \A i \in DOMAIN p.code :
       /\ p.addrs[i] \subseteq 1 .. p.depth[i]
       /\ ~ p.frame[i].function => p.frame[i].params = 0 /\ p.frame[i].locals = 0

(* What an instruction may rely on: a call finds its arguments, a function *)
(* reserves its locals and takes off its parameters, a slot is that of a   *)
(* parameter or a local, and what is loaded from or stored to is known to  *)
(* be an address.                                                          *)
Allowed(p, i) ==
  LET c == p.code[i] f == p.frame[i] d == p.depth[i] IN
  /\ c.op = "CALL" => c.arg \in DOMAIN p.code /\ p.code[c.arg].op = "ENTER"
  /\ Takes(p, i) <= d
  /\ c.op = "ENTER" => f.function /\ d = 0 /\ c.arg = f.locals
  /\ c.op \in {"RET", "RET_VOID"} =>
       f.function /\ c.arg = f.params /\ f.results = Arity(c.op)
  /\ c.op = "HALT" => ~ f.function /\ d = 0
  /\ c.op \in SlotOps => c.arg \in 1 .. f.locals \cup -1 - f.params .. -2
  /\ c.op \in LoadOps => d \in p.addrs[i]
  /\ c.op \in StoreOps => d - 1 \in p.addrs[i]

Flows(p, i, j) ==
  LET left == p.depth[i] - Takes(p, i) IN
  /\ j \in DOMAIN p.code /\ p.code[j].op # "ENTER"
  /\ p.frame[j] = p.frame[i]
  /\ p.depth[j] = left + Gives(p, i)
  /\ p.addrs[j] \subseteq (p.addrs[i] \cap 1 .. left)
                            \cup (IF p.code[i].op \in AddressOps THEN {left + 1} ELSE {})

Conventional(p) ==
  /\ Described(p)
  /\ p.code[p.entry].op # "ENTER" /\ p.depth[p.entry] = 0 /\ ~ p.frame[p.entry].function
  /\ \A i \in DOMAIN p.code :
       Allowed(p, i) /\ \A j \in Successors(p, i) : Flows(p, i, j)

-----------------------------------------------------------------------------
Abstract == INSTANCE CallStack WITH frames <- Frames, over <- status # "running"

(* Every step of the machine on code that keeps to the convention is a     *)
(* step of the running function in its own frame, a call or a return: no   *)
(* instruction disturbs the frame of a caller, and every return resumes    *)
(* the caller where and as it was left (CALL, ENTER, RET, RET_VOID and the *)
(* frame-pointer relative instructions of vm.c).                           *)
ImplementsCallStack ==
  /\ Conventional(prog) => Abstract!Init
  /\ [][Conventional(prog) => [Abstract!Next]_(Abstract!vars)]_vars

(* When main has returned, nothing is left on the stack and no frame is    *)
(* current: every argument, local, result and operand was taken off again  *)
(* ("stiva goala", tests/vm/stack.md:358).                                 *)
NothingLeft == Conventional(prog) /\ status = "halted" => sp = -1 /\ fp = NoFrame

\* A division by zero, and one whose result is no int.
ByZero == Instr.op = "DIV_I" /\ 0 \in AsInt(Top(0))
Traps ==
  /\ Instr.op = "DIV_I"
  /\ \E a \in AsInt(Top(1)), b \in AsInt(Top(0)) : b # 0 /\ Quotient(a, b) \notin Ints

\* The address of a global that is narrower than what is accessed.
Narrow(c) == c.tag = "global" /\ ~ Readable(c)

(* What can still go wrong on code that keeps to the convention, of all    *)
(* that the machine checks or fails to check: an error means a full stack  *)
(* or a division by zero, and what is undefined is behind the end of the   *)
(* array, where only an ENTER can have gone, a division of MinInt by -1 or *)
(* an access to a narrower global.  No pop finds the stack empty, no frame *)
(* or slot is wild, no return address is lost and no instruction is NULL   *)
(* (push_value, pop_value and the unchecked accesses of run, vm.c).        *)
FaultsForeseen ==
  Conventional(prog) =>
    /\ status = "error" => (Instr.op \in PushOps /\ sp + 1 = StackSize) \/ ByZero
    /\ status = "undefined" =>
         \/ sp >= StackSize
         \/ Traps
         \/ Instr.op \in LoadOps /\ Narrow(Top(0))
         \/ Instr.op \in StoreOps /\ Narrow(Top(1))
=============================================================================
