------------------------------ MODULE Toolchain ------------------------------
(***************************************************************************)
(* The whole of src/main.c: a source is compiled, and if it is accepted    *)
(* and has a main function the stack machine runs it.                      *)
(***************************************************************************)
EXTENDS Bytecode

CONSTANTS StackSize, MinInt, MaxInt, AnyDouble   \* those of VirtualMachine

VARIABLES
  machine,  \* the machine's status; "off" before it runs, "none" if there is no main
  prog, ip, stack, sp, fp, mem, out

VM == INSTANCE CallFrames WITH Programs <- {}, status <- machine

registers == <<prog, ip, stack, sp, fp, mem, out>>
allVars == <<vars, machine, registers>>

HasMain == \E s \in domains[1] : s.name = "main" /\ s.kind = "fn"
Main == fns[(CHOOSE s \in domains[1] : s.name = "main").no]

(* entry_code, CALL main and HALT, and the functions it reaches.           *)
Loaded ==
  LET n == Len(code) IN
  [code |-> code \o << [op |-> "CALL", arg |-> Main.first, next |-> n + 2],
                       [op |-> "HALT", arg |-> Unset, next |-> NULL] >>,
   entry |-> n + 1,
   globals |-> [g \in DOMAIN globals |-> TypeSize(structs, globals[g])]]

ToolchainInit ==
  /\ Init
  /\ machine = "off"
  /\ prog = <<>> /\ ip = NULL /\ stack = <<>> /\ sp = -1 /\ fp = -1 /\ mem = <<>> /\ out = <<>>

Compile == Next /\ UNCHANGED <<machine, registers>>

(* vm_create and run: VM!Started, of the program just compiled.            *)
Load ==
  /\ status = "done" /\ machine = "off"
  /\ IF HasMain
     THEN /\ prog' = Loaded
          /\ ip' = Loaded.entry
          /\ stack' = [i \in VM!Slots |-> VM!Raw]
          /\ sp' = -1 /\ fp' = VM!NoFrame
          /\ mem' = [g \in DOMAIN globals |-> VM!Raw]
          /\ out' = <<>>
          /\ machine' = "running"
     ELSE machine' = "none" /\ UNCHANGED registers
  /\ UNCHANGED vars

Execute == machine = "running" /\ VM!Next /\ UNCHANGED vars

ToolchainNext == Compile \/ Load \/ Execute

ToolchainSpec == ToolchainInit /\ [][ToolchainNext]_allVars

-----------------------------------------------------------------------------
(* The function, and the place in its listing, of the instruction about to *)
(* be executed.                                                            *)
Running == machine = "running" /\ ip \in DOMAIN code
FunctionAt == CHOOSE f \in Compiled : ip \in Range(Listing(f))
PlaceAt == CHOOSE k \in DOMAIN Listing(FunctionAt) : Listing(FunctionAt)[k] = ip

TagsOf(kind) ==
  CASE kind \in {"int", "double"} -> {kind}
    [] kind \in {"&int", "&double", "&other"} -> {"stack", "global"}
    [] OTHER -> {}

(* The operands of the running function lie right above its locals, as     *)
(* many and of the kinds that the compiler had in mind for this point:     *)
(* the stack discipline of parser.c's code is that of vm.c's instructions, *)
(* over calls, returns and jumps.                                          *)
OperandsAsCompiled ==
  Running /\ code[ip].op # "ENTER" =>
    LET shape == Shapes(FunctionAt)[PlaceAt]
    IN  /\ sp = fp + Len(fns[FunctionAt].locals) + Len(shape)
        /\ \A k \in DOMAIN shape : stack[sp - Len(shape) + k].tag \in TagsOf(shape[k])

(* What a source must keep to, beyond being accepted, for its code to be   *)
(* sound: every function is defined before it is called and ends with a    *)
(* return, main takes and gives nothing, and no char is involved.          *)
(* Operators and statements without an instruction, and the value of an    *)
(* assignment, are left to the runs about them: no source of the passing   *)
(* run has them.                                                           *)
InFragment ==
  /\ \A i \in DOMAIN code : code[i].op = "CALL" => code[i].arg # NULL
  /\ \A f \in Compiled : code[Last(Listing(f))].op \in {"RET", "RET_VOID"}
  /\ Main.params = <<>> /\ Main.type.base = "void"
  /\ \A t \in Range(globals) \cup UNION {Range(fns[f].params) \cup Range(fns[f].locals) : f \in Compiled} :
       t.base # "char"

(* The program as the calling convention describes it, by what the         *)
(* compiler knew: each node belongs to a function with its parameters and  *)
(* locals and finds the operands that the verifier says.                   *)
DescribedProgram ==
  LET of(i) == CHOOSE f \in Compiled : i \in Range(Listing(f))
      nodes == UNION {Range(Listing(f)) : f \in Compiled}
      shapes == [f \in Compiled |-> Shapes(f)]
      shape == [i \in nodes |-> shapes[of(i)][CHOOSE k \in DOMAIN Listing(of(i)) : Listing(of(i))[k] = i]]
      frame(f) == [function |-> TRUE, params |-> Len(fns[f].params), locals |-> Len(fns[f].locals),
                   results |-> Len(ResultOf(f))]
      entry == [function |-> FALSE, params |-> 0, locals |-> 0, results |-> 0]
      all == nodes \cup {prog.entry, prog.entry + 1}
      addresses(s) == {k \in DOMAIN s : s[k] \in {"&int", "&double", "&other"}}
  IN  [code |-> Restrict(prog.code, all), entry |-> prog.entry, globals |-> prog.globals,
       frame |-> [i \in all |-> IF i \in nodes THEN frame(of(i)) ELSE entry],
       depth |-> [i \in all |-> IF i \in nodes THEN Len(shape[i]) ELSE 0],
       addrs |-> [i \in all |-> IF i \in nodes THEN addresses(shape[i]) ELSE {}]]

(* The code of an accepted source of the fragment keeps to the calling     *)
(* convention: the slots, counts and operands that each emission site of   *)
(* parser.c chose agree over all functions and calls, so that what         *)
(* CallFrames says of conventional programs holds of it.                   *)
ConventionKept ==
  machine = "running" /\ ip = prog.entry /\ InFragment => VM!Conventional(DescribedProgram)

(* Running it does something undefined only where the machine checks too   *)
(* little: behind the end of the array, after a function's locals have     *)
(* passed it, or in a division without a result; and it is stopped with an *)
(* error only for want of stack or for a division by zero.  Nothing that   *)
(* the compiler chose is at fault: no wild address, no NULL instruction,   *)
(* no empty stack.                                                         *)
Sound ==
  machine \in {"undefined", "error"} /\ InFragment =>
    /\ ip # NULL
    /\ machine = "undefined" => sp >= StackSize \/ VM!Traps
    /\ machine = "error" => (code[ip].op \in VM!PushOps /\ sp + 1 = StackSize) \/ VM!ByZero

(* "Globals get no init codegen (var_mem is zero-initialised)",            *)
(* parser.c:207: what a program prints of a global it has not assigned to  *)
(* is zero.                                                                *)
UnsetGlobalsAreZero == machine = "halted" => \A i \in DOMAIN out : out[i].val = 0
=============================================================================
