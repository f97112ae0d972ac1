------------------------------ MODULE Programs ------------------------------
(***************************************************************************)
(* Linked programs for the stack machine: the two vm.c generates for its   *)
(* own tests, the code main.c puts around main(), and AtomC functions as   *)
(* parser.c compiles them.                                                 *)
(*                                                                         *)
(* A program also says how it may end ("ends", a set of statuses) and what *)
(* it may print ("answers").                                               *)
(***************************************************************************)
EXTENDS CallFrames, SequencesExt

I(op, arg) == [op |-> op, arg |-> arg]

(* The nodes of a list built by add_instruction, the first being node n:   *)
(* every node's next is the one added after it, the last one's is NULL.    *)
List(n, instrs) ==
  [i \in 1 .. Len(instrs) |->
     [op   |-> instrs[i].op,
      arg  |-> instrs[i].arg,
      next |-> IF i = Len(instrs) THEN NULL ELSE n + i]]

(* The description of a list of nodes in which functions follow each other, *)
(* the k-th with params[k] parameters: an operand is there from the         *)
(* instruction that leaves it to the one that takes it, and where a jump or *)
(* return ends the straight line no operand is left.                        *)
Describe(p, params) ==
  LET starts == SelectSeq([i \in DOMAIN p.code |-> i], LAMBDA i : p.code[i].op = "ENTER")
      from(k) == IF k = 0 THEN 1 ELSE starts[k]
      to(k) == IF k = Len(starts) THEN Len(p.code) ELSE starts[k + 1] - 1
      frame(k) ==
        IF k = 0 THEN [function |-> FALSE, params |-> 0, locals |-> 0, results |-> 0]
        ELSE [function |-> TRUE, params |-> params[k], locals |-> p.code[starts[k]].arg,
              results |-> IF \E i \in from(k) .. to(k) : p.code[i].op = "RET" THEN 1 ELSE 0]
      frames == FoldLeft(LAMBDA s, k : s \o [i \in 1 .. to(k) - from(k) + 1 |-> frame(k)],
                         <<>>, [k \in 1 .. Len(starts) + 1 |-> k - 1])
      q == [code |-> p.code, frame |-> frames]
      Straight(i) == /\ i > 0 /\ p.code[i].op \notin {"JMP", "HALT", "RET", "RET_VOID"}
                     /\ p.code[i].op = "CALL" => p.code[i].arg # NULL
      after(s) ==
        LET i == Len(s)
            left == s[i].depth - Takes(q, i)
        IN  IF ~ Straight(i) THEN [depth |-> 0, addrs |-> {}]
            ELSE [depth |-> left + Gives(q, i),
                  addrs |-> (s[i].addrs \cap 1 .. left)
                              \cup (IF p.code[i].op \in AddressOps THEN {left + 1} ELSE {})]
      operands == FoldLeft(LAMBDA s, c : Append(s, after(s)), <<>>, p.code)
  IN [code |-> p.code, entry |-> p.entry, globals |-> p.globals, frame |-> frames,
      depth |-> [i \in DOMAIN p.code |-> operands[i].depth],
      addrs |-> [i \in DOMAIN p.code |-> operands[i].addrs],
      ends |-> p.ends, answers |-> p.answers]

-----------------------------------------------------------------------------
(* gen_test_program_int, for f(n) instead of f(2): print 0 .. n-1.         *)
GenTestProgramInt(n) ==
  Describe([code |-> List(1, <<
     I("PUSH_I", n), I("CALL", 4), I("HALT", 0),
     I("ENTER", 1), I("PUSH_I", 0), I("FPSTORE", 1),
     I("FPLOAD", 1), I("FPLOAD", -2), I("LESS_I", 0), I("JF", 18),
     I("FPLOAD", 1), I("CALL_EXT", PutInt),
     I("FPLOAD", 1), I("PUSH_I", 1), I("ADD_I", 0), I("FPSTORE", 1),
     I("JMP", 7), I("RET_VOID", 1)>>),
   entry   |-> 1,
   globals |-> <<>>,
   ends    |-> {"halted"},
   answers |-> {[i \in 1 .. n |-> Int32(i - 1)]}],
  <<1>>)

(* gen_test_program_double, for h halves instead of 2.0.                   *)
GenTestProgramDouble(h) ==
  Describe([code |-> List(1, <<
     I("PUSH_F", h), I("CALL", 4), I("HALT", 0),
     I("ENTER", 1), I("PUSH_F", 0), I("FPSTORE", 1),
     I("FPLOAD", 1), I("FPLOAD", -2), I("LESS_F", 0), I("JF", 18),
     I("FPLOAD", 1), I("CALL_EXT", PutDouble),
     I("FPLOAD", 1), I("PUSH_F", 1), I("ADD_F", 0), I("FPSTORE", 1),
     I("JMP", 7), I("RET_VOID", 1)>>),
   entry   |-> 1,
   globals |-> <<>>,
   ends    |-> {"halted"},
   answers |-> {[i \in 1 .. h |-> Double(i - 1)]}],
  <<1>>)

-----------------------------------------------------------------------------
(* entry_code of main(): call main's first instruction and halt.           *)
EntryCode(main) == List(1, <<I("CALL", main), I("HALT", 0)>>)

(* A compiled unit: lists of instructions from node 3 on, the last of them *)
(* the function main.                                                      *)
Compiled(functions, params, globals, ends, answers) ==
  LET first(code) == Len(code) + 1
      append(code, f) == code \o List(first(code), f)
      start[k \in 1 .. Len(functions) + 1] ==
        IF k = 1 THEN 3 ELSE start[k - 1] + Len(functions[k - 1])
      unit == FoldLeft(append, EntryCode(start[Len(functions)]), functions)
  IN  Describe([code |-> unit, entry |-> 1, globals |-> globals, ends |-> ends, answers |-> answers],
               params)

Factorial[n \in Nat] == IF n < 2 THEN 1 ELSE n * Factorial[n - 1]

(* tests/code_generator/test_code_generator_code_example.c: the factorial  *)
(* of k recursively, then of l in a loop, after printing 4.5 as an int.    *)
FactorialProgram(k, l) ==
  Compiled(
    << \* int fact(int n) { if (n < 3) return n; return n * fact(n - 1); }
       << I("ENTER", 0), I("FPADDR_I", -2), I("LOAD_I", 0), I("PUSH_I", 3),
          I("LESS_I", 0), I("JF", 12),
          I("FPADDR_I", -2), I("LOAD_I", 0), I("RET", 1), I("NOP", 0),
          I("FPADDR_I", -2), I("LOAD_I", 0), I("FPADDR_I", -2), I("LOAD_I", 0),
          I("PUSH_I", 1), I("SUB_I", 0), I("CALL", 3), I("MUL_I", 0), I("RET", 1)>>,
       \* void main() { put_int(4.5); put_int(fact(k)); int r; r = 1; int i; i = 2;
       \*   while (i < l + 1) { r = r * i; i = i + 1; } put_int(r); }
       << I("ENTER", 2), I("PUSH_F", 9), I("CONV_F_I", 0), I("CALL_EXT", PutInt),
          I("PUSH_I", k), I("CALL", 3), I("CALL_EXT", PutInt),
          I("FPADDR_I", 1), I("PUSH_I", 1), I("STORE_I", 0), I("DROP", 0),
          I("FPADDR_I", 2), I("PUSH_I", 2), I("STORE_I", 0), I("DROP", 0),
          I("FPADDR_I", 2), I("LOAD_I", 0), I("PUSH_I", l + 1), I("LESS_I", 0), I("JF", 58),
          I("FPADDR_I", 1), I("FPADDR_I", 1), I("LOAD_I", 0), I("FPADDR_I", 2), I("LOAD_I", 0),
          I("MUL_I", 0), I("STORE_I", 0), I("DROP", 0),
          I("FPADDR_I", 2), I("FPADDR_I", 2), I("LOAD_I", 0), I("PUSH_I", 1), I("ADD_I", 0),
          I("STORE_I", 0), I("DROP", 0),
          I("JMP", 37), I("NOP", 0), I("FPADDR_I", 1), I("LOAD_I", 0), I("CALL_EXT", PutInt),
          I("RET_VOID", 0)>> >>,
    <<1, 0>>, <<>>, {"halted"},
    {<<Int32(4), Int32(Wrap(IF k < 3 THEN k ELSE Factorial[k])), Int32(Wrap(Factorial[l]))>>})

-----------------------------------------------------------------------------
(* A run ends as its program should, having printed what the source of the *)
(* program says: conditions, loops, recursion, conversions and arithmetic  *)
(* of vm.c add up to the meaning of the compiled text.                     *)
Outcome ==
  status # "running" =>
    /\ status \in prog.ends
    /\ status = "halted" => out \in prog.answers

(* Programs that should end do end: run() leaves its loop.                 *)
Terminates == <>(status # "running")

=============================================================================
