-------------------------- MODULE MCVirtualMachine --------------------------
(***************************************************************************)
(* VirtualMachine on concrete programs, and what those programs should do. *)
(***************************************************************************)
EXTENDS Programs

\* Doubles read from cells that hold none: a few values are as good as all.
MCMinInt == -32
MCMaxInt == 31

MCAnyDouble == {-1, 0, 3}

(* double g; int h; void main() { h = 7; h = h / d; g = h; g = g * 0.5 - 0.5;   *)
(*   put_double(g / e); }    (d in ints, e in halves)                       *)
GlobalsProgram(d, e) ==
  Compiled(
    << << I("ENTER", 0),
          I("ADDR", 2), I("PUSH_I", 7), I("STORE_I", 0), I("DROP", 0),
          I("ADDR", 2), I("ADDR", 2), I("LOAD_I", 0), I("PUSH_I", d), I("DIV_I", 0),
          I("STORE_I", 0), I("DROP", 0),
          I("ADDR", 1), I("ADDR", 2), I("LOAD_I", 0), I("CONV_I_F", 0),
          I("STORE_F", 0), I("DROP", 0),
          I("ADDR", 1), I("ADDR", 1), I("LOAD_F", 0), I("PUSH_F", 1), I("MUL_F", 0),
          I("PUSH_F", 1), I("SUB_F", 0), I("STORE_F", 0), I("DROP", 0),
          I("ADDR", 1), I("LOAD_F", 0), I("PUSH_F", e), I("DIV_F", 0),
          I("CALL_EXT", PutDouble), I("RET_VOID", 0)>> >>,
    <<0>>, <<8, 4>>,
    IF d = 0 THEN {"error"} ELSE {"halted"},
    IF d = 0 THEN {} ELSE {<<Double((2 * ((7 \div d) - 1)) \div e)>>})

(* double half(double x, int n) { double y; y = x; while (0 < n) { y = y / 2.0; *)
(*   n = n - 1; } return y; }   void main() { put_double(half(x, n)); }     *)
HalvingProgram(x, n) ==
  Compiled(
    << << I("ENTER", 1), I("FPADDR_F", 1), I("FPADDR_F", -3), I("LOAD_F", 0),
          I("STORE_F", 0), I("DROP", 0),
          I("PUSH_I", 0), I("FPADDR_I", -2), I("LOAD_I", 0), I("LESS_I", 0), I("JF", 29),
          I("FPADDR_F", 1), I("FPADDR_F", 1), I("LOAD_F", 0), I("PUSH_F", 4), I("DIV_F", 0),
          I("STORE_F", 0), I("DROP", 0),
          I("FPADDR_I", -2), I("FPADDR_I", -2), I("LOAD_I", 0), I("PUSH_I", 1), I("SUB_I", 0),
          I("STORE_I", 0), I("DROP", 0), I("JMP", 9),
          I("NOP", 0), I("FPADDR_F", 1), I("LOAD_F", 0), I("RET", 2)>>,
       << I("ENTER", 0), I("PUSH_F", 2 * x), I("PUSH_I", n), I("CALL", 3),
          I("CALL_EXT", PutDouble), I("RET_VOID", 0)>> >>,
    <<2, 0>>, <<>>, {"halted"}, {<<Double((2 * x) \div (2 ^ n))>>})

(* void f(int n) { int a; ... int z; while (n) { f(n - 1); n = 0; } }          *)
(* void main() { f(depth); }            with "locals" variables a .. z         *)
DeepProgram(depth, locals) ==
  Compiled(
    << << I("ENTER", locals), I("FPADDR_I", -2), I("LOAD_I", 0), I("JF", 17),
          I("FPADDR_I", -2), I("LOAD_I", 0), I("PUSH_I", 1), I("SUB_I", 0), I("CALL", 3),
          I("FPADDR_I", -2), I("PUSH_I", 0), I("STORE_I", 0), I("DROP", 0), I("JMP", 4),
          I("NOP", 0), I("RET_VOID", 1)>>,
       << I("ENTER", 0), I("PUSH_I", depth), I("CALL", 3), I("RET_VOID", 0)>> >>,
    <<1, 0>>, <<>>,
    {"halted", "error"} \cup (IF locals = 0 THEN {} ELSE {"undefined"}), {<<>>})

(* void main() { int u; if (u) put_int(1); else put_int(2); }, u unset     *)
UnsetProgram ==
  Compiled(
    << << I("ENTER", 1), I("FPADDR_I", 1), I("LOAD_I", 0), I("JF", 10),
          I("PUSH_I", 1), I("CALL_EXT", PutInt), I("JMP", 13),
          I("NOP", 0), I("PUSH_I", 2), I("CALL_EXT", PutInt), I("NOP", 0),
          I("RET_VOID", 0)>> >>,
    <<0>>, <<>>, {"halted"}, {<<Int32(1)>>, <<Int32(2)>>})

CompiledPrograms ==
  {GenTestProgramInt(n) : n \in 0 .. 4}
    \cup {GenTestProgramDouble(h) : h \in 0 .. 4}
    \cup {FactorialProgram(k, l) : k \in 1 .. 5, l \in 0 .. 5}
    \cup {GlobalsProgram(d, e) : d \in 0 .. 3, e \in {1, 2}}
    \cup {HalvingProgram(x, n) : x \in {4, 8}, n \in 0 .. 2}

-----------------------------------------------------------------------------
(* Programs that go wrong at run time, as parser.c compiles them.          *)
Main(instrs, ends, answers) ==
  Compiled(<<<<I("ENTER", 0)>> \o instrs \o <<I("RET_VOID", 0)>>>>, <<0>>, <<8, 4, 1>>, ends, answers)

FaultyPrograms == {
    UnsetProgram,
    \* void f(); void main() { f(); } : the prototype has no code yet
    Main(<<I("CALL", NULL)>>, {"undefined"}, {}),
    \* int f() { } void main() { f(); } : f runs off its end
    Compiled(<< <<I("ENTER", 0)>>, <<I("ENTER", 0), I("CALL", 3), I("DROP", 0), I("RET_VOID", 0)>> >>,
             <<0, 0>>, <<>>, {"undefined"}, {}),
    \* void main(int a) { } : nobody pushed the argument
    Compiled(<< <<I("ENTER", 0), I("RET_VOID", 1)>> >>, <<1>>, <<>>, {"halted"}, {<<>>}),
    \* int main(int a) { return a; } and { return 1; }
    Compiled(<< <<I("ENTER", 0), I("FPADDR_I", -2), I("LOAD_I", 0), I("RET", 1)>> >>,
             <<1>>, <<>>, {"undefined"}, {}),
    Compiled(<< <<I("ENTER", 0), I("PUSH_I", 1), I("RET", 1)>> >>, <<1>>, <<>>, {"undefined"}, {}),
    \* hand-made lists, as test_vm.c has them: a call with too few arguments
    Compiled(<< <<I("ENTER", 0), I("RET_VOID", 2)>>,
                <<I("ENTER", 0), I("CALL", 3), I("DROP", 0), I("DROP", 0), I("RET_VOID", 0)>> >>,
             <<2, 0>>, <<>>, {"error"}, {}),
    Compiled(<< <<I("ENTER", 0), I("RET_VOID", 3)>>,
                <<I("ENTER", 0), I("CALL", 3), I("DROP", 0), I("RET_VOID", 0)>> >>,
             <<3, 0>>, <<>>, {"undefined"}, {}),
    \* void main() { "s"; "s"; "s"; } : a DROP for a value nobody pushed
    Main(<<I("DROP", 0), I("DROP", 0), I("DROP", 0)>>, {"error"}, {}),
    \* void main() { "s"; 5; } : the 5 takes the place of the saved frame pointer
    Main(<<I("DROP", 0), I("PUSH_I", 5), I("DROP", 0)>>, {"undefined"}, {}),
    \* void main() { put_int((0 - 31 - 1) / d); }
    Main(<<I("PUSH_I", 0), I("PUSH_I", 31), I("SUB_I", 0), I("PUSH_I", 1), I("SUB_I", 0),
           I("PUSH_I", 0), I("PUSH_I", 1), I("SUB_I", 0), I("DIV_I", 0), I("CALL_EXT", PutInt)>>,
         {"undefined"}, {}),
    Main(<<I("PUSH_I", 7), I("PUSH_I", 0), I("DIV_I", 0), I("CALL_EXT", PutInt)>>, {"error"}, {}),
    Main(<<I("PUSH_I", 31), I("PUSH_I", 1), I("ADD_I", 0), I("CALL_EXT", PutInt)>>,
         {"halted"}, {<<Int32(-32)>>}),
    Main(<<I("PUSH_I", 0), I("PUSH_I", 7), I("SUB_I", 0), I("PUSH_I", 2), I("DIV_I", 0),
           I("CALL_EXT", PutInt)>>, {"halted"}, {<<Int32(-3)>>}),
    \* char c; ... c = 1; put_int(c); : four bytes through a one-byte variable
    Main(<<I("ADDR", 3), I("LOAD_I", 0), I("CALL_EXT", PutInt)>>, {"undefined"}, {}),
    Main(<<I("ADDR", 3), I("PUSH_I", 1), I("STORE_I", 0), I("DROP", 0)>>, {"undefined"}, {}),
    \* the hand-made lists of test_vm.c for JT and the frame slots
    Main(<<I("PUSH_I", 1), I("JT", 7), I("NOP", 0), I("NOP", 0), I("PUSH_I", 9),
           I("CALL_EXT", PutInt)>>, {"halted"}, {<<Int32(9)>>}),
    [Main(<<I("FPLOAD", 1)>>, {"undefined"}, {}) EXCEPT !.entry = 4],
    [Main(<<I("FPSTORE", 9)>>, {"error"}, {}) EXCEPT !.entry = 4],
    Main(<<I("PUSH_I", 1), I("FPSTORE", 30)>>, {"undefined"}, {})}

(* Recursion that fills the array, with locals enough in one function to   *)
(* pass its end: with none the machine stops with an error in time.        *)
LocalsPrograms == {DeepProgram(depth, n) : depth \in 0 .. 5, n \in 2 .. 12}
DeepPrograms == {DeepProgram(depth, 0) : depth \in 0 .. 7}

\* (a constant's value in a configuration is evaluated once under a second name)
MCPrograms == CompiledPrograms \cup FaultyPrograms \cup LocalsPrograms \cup DeepPrograms
MCLocals == LocalsPrograms

ASSUME ConventionKept == \A p \in CompiledPrograms \cup LocalsPrograms \cup DeepPrograms : Conventional(p)

=============================================================================
