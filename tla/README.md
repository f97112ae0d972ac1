# AtomC: specification and verification

TLA+ models of the AtomC compiler, its stack machine and the argtable3 library
that reads its command line, with the TLC configurations that check them and
TLAPS proofs about the machine, the compiler, the lexer, `arg_parse`, `main` and
commands. Paths below
are relative to the repository: `vm.c:118` means line 118 of `src/vm/vm.c`, and
`arg_*.c`, `argtable3.c` are in `subprojects/argtable-v3.3.1/src`.

## 1. The system

`main.c` reads the command line, opens the outputs it names, reads one file,
tokenizes it, parses it, and, if asked to, runs it:

    argv --arg_parse--> options --load_file--> source --tokenize--> tokens
         --parse--> symbol table + instruction lists --run--> output

Everything runs in one thread, and every error ends the process (`err`,
`token_stream_error`). There is no concurrency and nothing persists. What makes
the code hard is that **one pass does everything**: while the recursive
functions of the parser are suspended in each other, the symbol table, the
frame layout, the code emitted so far, the jumps still to be patched and the
operands that this code will have on the stack must all agree, and no structure
in the program states that agreement. The stack machine then trusts it: cells
are untagged unions, and addresses, frame offsets and operand counts are not
checked.

| Component | State | Operations | Correct when |
|---|---|---|---|
| stack machine, `vm/vm.c` | cells, `stack_pointer`, `function_pointer`, `instruction_pointer`, memory of globals | 32 opcodes, push and pop helpers with their checks, `put_int`, `put_double` | a function disturbs only its own frame; returns restore the caller; the checks bound the stack; programs mean what their source says |
| instruction lists, `vm/instruction.c`, `vm/code_generator.c` | linked lists under construction | append, insert after a node, conversion if needed, load if an l-value | the inserted conversion hits its operand; no part of a list is lost |
| parser, `frontend/parser.c` | place in the token list, activations of the recursive functions, `owner`, the `ReturnValue` of the last expression | one function per production, each with type checks, symbol table updates and code emission | scopes nest; slots are not shared; the code of every function is well formed; every source is decided |
| symbol tables, `analyzer/domain*.c`, `symbol.c` | chain of domains, lists of locals, parameters and members | push, drop, add, find, duplicate | lookups see the innermost declaration; a domain per open block |
| types, `analyzer/type*.c` | none | sizes, alignment, conversions, result types | layout and size agree; what is accepted is convertible |
| lexer, `frontend/lexer.c`, `stream.c` | pointer into the text, line counter, token list | `tokenize` and one function per kind of token | longest match; lines; values; every text is decided |
| driver, `main.c` | none of its own | parse the arguments, open outputs, load, compile, find `main`, build the entry code, run | the exit status tells the truth; a mistake in the arguments touches no file; what the compiler accepts, the machine can run |
| option tables, `argtable3.c`, `arg_lit.c`, `arg_int.c`, `arg_file.c`, ... | entries with counts and values, the errors in `arg_end` | `arg_parse` in four phases; reset, scan, check, error for each kind | it reads a line as the conventions of getopt say |
| getopt, `arg_getopt_long.c` | `optind`, `place`, `nonopt_start`, `nonopt_end`, the permuted `argv` | one option a call | options first, each list in its order; every call gets further |
| patterns, `arg_rex.c` | a tree of nodes | compile, match without backtracking | a match that it reports exists |
| dates, `arg_date.c` | the broken-down time it overwrites | `arg_strptime` | reading undoes writing |
| help texts, `argtable3.c` | fixed buffers | names, usage, glossary, errors | buffers kept; columns kept; the usage line is true |
| commands, `arg_cmd.c` | name table, module name, result string | register, unregister, iterate, dispatch | a dictionary and a string |
| hash table, `arg_hashtable.c` | chains, `primeindex`, an iterator with its parent | insert with expansion, search, remove, change, iterate and remove | nothing is lost or found twice |
| dynamic string, `arg_dstr.c` | small buffer, append buffer, foreign string with its free function | set, cat, catc, catf, reset | text right, each block freed once |
| `frontend/token.c`, `utils/`, `arg_utils.c` | | printing, allocation, sorting names for output | not modelled, but for `err` and `load_file` |

The parser calls the analyzer and the code generator directly and shares with
them the symbol table and the list of the function it is in
(`current_function_code`); the machine gets the finished lists by pointer from
the function symbols, and the addresses of globals inside the instructions.
`main` hands its table to `arg_parse`, which calls getopt and, through the
function pointers of each entry, the scanners of `arg_*.c`; the compiler has
nothing else from argtable3, whose commands, patterns and dates are modelled as
the library offers them.

Hard behaviours, besides the one pass: getopt moves the arguments it has passed
behind the options that come later while it goes on reading, and sets `optind`
back to do so; a matcher that never goes back has to decide repetitions by a look
at the next node; an iterator removes what it stands on in a table that may
expand under it; a string changes the buffer it lives in, and who must free it.

## 2. The modules

| Module | What it is |
|---|---|
| `VirtualMachine` | `run()` of `vm.c`: one action per opcode or group of opcodes alike, and one for each way a push, pop or access goes wrong |
| `CallStack` | abstract: a stack of frames that do not touch each other |
| `CallFrames` | the calling convention as a check of a program's text; the refinement mapping from the machine's flat array to `CallStack` |
| `Programs`, `MCVirtualMachine` | linked programs with what they should print; instance for TLC |
| `VirtualMachineProofs` | theorems about the machine, and that it implements `CallStack` |
| `Types` | `type.c`, `type_analyzer.c` as operators |
| `CodeGenerator` | `instruction.c`, `code_generator.c` as operators on the sequence of all instructions allocated |
| `Compiler` | `parser.c` with the symbol tables: a machine that reads tokens |
| `Bytecode` | what the compiler's output and tables must satisfy: a bytecode verifier |
| `CodeGeneratorProofs` | what the code generator preserves; numbers and sequences |
| `CompilerProofs`, `ScopeProofs` | theorems about the compiler: its types; its scopes and slots |
| `Sources`, `MCCompiler` | names, literals, source templates and vocabularies for TLC |
| `Toolchain`, `MCToolchain` | composition: compile, then run what was compiled |
| `Lexer` | `lexer.c`: one action per round of `tokenize` and kind of lexeme |
| `Lexemes`, `MCLexer` | the lexemes as a language, and the longest-match reading of a text by it |
| `LexerProofs` | theorems about the lexer |
| `Dates`, `ArgTable` | entries of an argument table: constructors, scanners, option lists |
| `GetOpt` | `getopt_long`: the permuted vector and its four indices |
| `ArgParse` | `arg_parse` over `GetOpt`: reset, tagged, untagged, check |
| `Driver` | `main.c` over `ArgParse`: help, errors, outputs, source, exit status |
| `DriverProofs` | theorems about `ArgParse`, `Driver` and `Reports` |
| `Trex`, `Patterns` | the patterns of `arg_rex.c`, and what they ought to match |
| `Help` | buffers, usage line, glossary, error messages |
| `Reports` | what the application is left with and told: file names, errors, buffers, columns; properties that are proved about |
| `Arguments`, `MCArguments` | what a command line means, read once from left to right; properties; instance |
| `HashTable`, `DynamicString` | `arg_hashtable.c` with its iterator; `arg_dstr.c` |
| `Commands`, `MCCommands` | `arg_cmd.c` over the two |
| `Directory` | abstract: a dictionary and a text |
| `HashTableProofs` | theorems about the table and its iterator, and the dictionary in a table |
| `CommandsProofs` | theorems about the result string, and that `Commands` implements `Directory` |

### The machine

`stack`, `sp`, `fp`, `ip` are the fields and locals of the code; pointers into
the array are indices, `sp = -1` is `stack - 1`. A cell remembers which member
of the union was written last (`tag`). Reading another member gives *any* value
of that member's type, so a program whose behaviour depends on such a read has
several behaviours in the model. Doubles are counts of halves. `out` is what
the extern functions print; the trace that `run` prints is left out. The array
of cells is not initialised by `vm_create`; neither is the memory of globals
(`malloc`): all cells start `Raw`.

A program describes its nodes: the function a node belongs to (`frame`: its
parameters, locals and results), the operands that function has when the node is
next (`depth`) and which of them are addresses (`addrs`). The machine does not
look at these. `Conventional` is a check of the text alone, in the way a bytecode
verifier checks: each node is allowed what its description says (a call finds its
arguments, ENTER reserves the locals, a return takes off the parameters, an offset
from the frame pointer is that of a parameter or local, loads and stores get
addresses), and each node that may follow is described as what is left.
`ImplementsCallStack`, `NothingLeft` and `FaultsForeseen` speak of the programs that pass; the rest,
such as code that runs off the end of a function or drops what nobody pushed, has
no frames to keep. `ConventionKept` checks that all programs compiled without such
a fault do pass, so these properties are about all of those.

`status` is `"error"` after `err()` and `"undefined"` where C defines nothing:
a write outside the array, a wild frame slot, an access wider than the variable,
a NULL instruction, the least int divided by -1. The run ends there: the model
does not say what the process would go on to do.

### The compiler

The C call stack of the recursive parser is the variable `todo`: the innermost
activation first, each a record of what it still has to do and the C locals it
keeps for that (`if_jf`, `before_while_cond`, `last_left`, `rDst`, the symbol
being called, ...). An action is the code between two consumed tokens or between
two calls of the recursion, so each is a piece of a production with all its
checks, table updates and emitted instructions. The seven levels of binary
operators do the same thing at different precedence: `Operator` is the part of
their loops before the right operand, `Binary` the part after it, and `Level`
tells them apart. The code's backtracking resets nothing but the token iterator;
the model looks at the next token instead.

Tokens are *chosen as they are read*. A template is a program with holes; a hole
takes any tokens of a vocabulary, at most `MaxFree` in all. One run therefore
compiles every program within that bound, correct or not, and `Fail` is
`token_stream_error`. Symbols point to functions, structs and globals by number.
`code` is every instruction in the order of allocation, `next` and jump targets
are numbers in it, and an argument that nobody has written yet is `Unset`, as
`malloc` leaves it. The order of two checks that both end in an error is not
kept, since the messages are not modelled.

`Toolchain` shares the compiler's `code` with the machine: `Load` is `main.c`'s
entry code and `vm_create`, `Execute` a step of `VirtualMachine` under
`INSTANCE`.

### The lexer

`at` is `source_code`, an index into `text`; what stands behind the last
character is the terminator `NUL`. An action is one round of the loop of
`tokenize` with the `consume_*` function it calls, so it skips a blank or comment
or appends one token, whose `from` and `to` are its place in the text (not in
the code; they are what the properties speak about). Strings are measured and
then copied in the code, and the two passes are kept apart in the model. `err()`
is `status = "error"`. `isalpha`, `isdigit`, the range of `long` and of `int` and
the numbers `strtod` finds too large are constants.

### The command line

`argv`, `optind`, `place`, `nonopt_start`, `nonopt_end` are the statics of getopt,
with `argv[0]` left out so that indices agree. One call of `getopt_long` and the
case of `arg_parse_tagged` that takes its result are one action (`LongOption`,
`ShortOption`, `SkipOperand`, ...); so is a round of the loop over the untagged
entries, which remembers a tentative error until it knows whether another entry
takes the argument. `permute_args` is kept with its cycles of a gcd. Entries
carry a kind instead of four function pointers, and `Scanned`, `ResetEntry` and
`Checked` are what those do. `phase` is the place in `arg_parse` and after it in
`main`; `disk` says what the files hold (`"program"`, `"library"` without `main`,
`"faulty"`), so that what the compiler decides is an input here and a result in
`Toolchain`.

Texts are sequences of characters. INT_MAX, LONG_MAX and the factors of KB, MB
and GB are constants, so that small texts overflow; digits stay decimal, binary,
octal and hexadecimal.

A pattern is compiled into chains of nodes as `trex_newnode` links them; a
pointer to a node is the rest of its chain. `beyond` is what the memory behind a
text is read as, which the matcher may look at. `Patterns` denotes an
expression by the pairs of places it matches between, and writes it down for
`Trex` to read.

### Commands

In `HashTable` a key stands for its entry, so that pointers to entries are keys
and a pointer to an entry that is gone is `Freed`. `seen` and `present` record the
walk of an iterator (they are history, not code). In `DynamicString`, `live`
counts the blocks the string answers for. `Commands` registers while `"open"`,
dispatches while `"serving"`: the two halves are unrelated states, and an
application that mixes them shows nothing else.

## 3. What is checked

All runs are exhaustive within their bounds.

| Run | Question | Bounds, and why they are enough |
|---|---|---|
| `vm_programs` | Do compiled programs end (`Terminates`), print what the source says or fail as the checks let them (`Outcome`), leave nothing behind (`NothingLeft`), behave as a stack of frames (`ImplementsCallStack`), in which one way does the stack pointer get past the checks of the pushes (`LeftByLocals`), and what is all that can go wrong on compiled code (`FaultsForeseen`)? | the programs `vm.c` generates for its tests, the factorials of `tests/code_generator`, globals, doubles; recursion of depth 0 to 7 with 0 to 12 locals, so that it stops below, at and beyond the end of 24 cells at every residue; one program for each unchecked fault; ints of 6 bits, so that factorials overflow |
| `compile_sources` | Is the emitted code well formed (`CodeVerified`), does it leave on the stack exactly what the suspended activations count on (`OperandsAwaited`), do slots stay apart (`SlotsAgree`), scopes nest on every path (`DomainsNested`), offsets agree with sizes (`MembersLaidOut`), and is every source decided (`ParseEnds`)? | four free tokens in each of five contexts that convert: two operators, a nested call, a cast or parentheses on either side; five free tokens of statements: shadowing in a nested block, variables in two and three open domains of one function and after a block that had some, `if` with `else` and loops, returns in either; five of declarations: two members, arrays, a nested struct, prototypes and their definitions |
| `run_compiled` | Is the stack, at each instruction the machine executes, what the verifier of the compiler says (`OperandsAsCompiled`)? Do sources of the fragment below keep to the calling convention (`ConventionKept`), and is all that goes wrong in them behind the end of the array or in a division (`Sound`)? | a template with a loop, a call with conversions and locals in nested blocks, one with a branch and recursion without locals, and one with recursion and two locals, each with four free tokens; ints of 3 bits and 16 cells: recursion comes to an end, fills the array, or steps over its end with the locals of an `ENTER`; 0 is divided by, and so is the least int by -1, where an unset variable is read |
| `lex` | Are tokens the longest lexemes (`LongestMatch`), on the line of the file they end on (`LinesCounted`), integers right modulo the width of int (`IntegersCongruent`), and is every text decided (`Decided`)? | all texts of up to five characters over an alphabet for each group of lexemes that compete for characters, longer ones for keywords and escapes; LONG_MAX 199 and int of 7 bits, so that three digits saturate and two wrap |
| `options` | Does `arg_parse` store and register what a reading from left to right gives (`OutcomeRight`, in both directions), with the vector rearranged as it promises (`Arranged`), the errors in their list (`ErrorsBounded`) and told of the right argument (`ErrorsReported`)? Do numbers, dates and file names (`TextsRead`) and patterns (`PatternsSound`, `PatternsComplete`) mean what they should? Are buffers (`BufferKept`) and columns (`TextWrapped`) kept, and is the usage line true (`UsageAccepted`)? Does `main` act on the outcome (`FilesKept`, `StatusTells`)? Does every step get further (`Advances`)? | lines of three words out of 19 for the compiler's own table and out of 12 for a table with clusters, optional texts and two untagged entries; lines of five and nine words in every order for the permutations, which needs blocks of different lengths; two errors at most, so that the list overflows; number texts of four characters with int of 8 bits, each digit, and for no suffix, KB, MB and GB (as 4, 16 and 64) the greatest and least number that fits and the next; file names of five; buffers of 6 to 14 characters in place of 200 and columns of 1 to 4, so that names and words are longer, as long and shorter; about 1,100 patterns of two parts, of alternatives and of a group with what follows it, on all texts of three characters; 16 date formats on 24 dates, over two dates that were there before |
| `commands` | Does the table stay consistent (`Consistent`), the iterator on an entry (`IteratorAttached`), a walk meet every entry once (`WalkComplete`), the string in order (`StringInOrder`), and is all of it a dictionary and a text (`ImplementsDirectory`)? | three names, two of the same hash and one that meets them in some tables, primes 1, 2, 3: two expansions, the last prime, chains of three; buffers of 2, 5 and 7 characters and results of up to three: every way from one buffer to another |

`OperandsAwaited` is the invariant of the one-pass design: the abstract stack
obtained by running the *emitted* instructions over types equals the operands
obtained from the parser's *activations* (left operands whose operator is
pending, destinations of assignments, arguments of unfinished calls). The
templates of the passing compiler runs keep to the sublanguage the code
generator supports; the constructs it does not are what the next table is about.

The command-line properties compare two readings that share nothing but the
scanners: `Arguments.Read` goes once from left to right and moves no word, while
getopt permutes and re-reads. `Patterns` decides matches by sets of pairs of
places, so a pattern that the matcher refuses although a match exists is not a
violation where a choice is open (it never goes back, and nothing says it
should); `Complete` covers patterns where the next node alone decides.

The fragment of `ConventionKept` and `Sound` (`InFragment`) is: every function is
defined before it is called and ends in a return, `main` takes and gives nothing,
no `char` is declared, and (by the templates) operators without an instruction do
not occur and the value of an assignment is not used. What the convention is
worth is proved of the machine (`CallsKept`); that the compiler keeps to it is
checked by these runs. `Sound` does not promise that a source of the fragment
runs well: a recursive function with locals can step over the end of the array,
and then everything is open. It says that nothing else is at fault.

Six runs are expected to be violated: each checks what a comment, a
documentation comment or a test of the repository says, and finds that the code
does something else.

| Run | Said | Done |
|---|---|---|
| `vm_full_stack` | `test_vm.c:233`, a push beyond the stack is an error | `ENTER` steps over the bound (`vm.c:118`) that pushes test with `==`; the next push writes outside |
| `compile_assigned_value` | `parser.c:628`, STORE leaves the value for chained assignments | it is of the destination's type; the parser goes on with the source's (`parser.c:645`): `put_double(x = 1)` converts twice |
| `compile_operators` | `parser.c:578`, values are dropped so that the stack stays balanced | `"s";` drops a cell nobody pushed, `a > 1;` leaves one (so do `==`, `&&`, `%`, indexing and their like) |
| `compile_forward_call` | `parser.c:342`, CALL jumps to the callee's ENTER | a call compiled after a prototype and before the definition keeps NULL |
| `options_dash` | `argtable3.h:1230`, `arg_parse` processes the arguments, after which fields can be read | for a word like `-x-` getopt returns an error without moving on (`arg_getopt_long.c:531`), and is asked again for ever |
| `run_unset_global` | `parser.c:207`, globals are zero-initialised | `malloc` without clearing (`parser.c:200`, `utils.c:28`) |

Two more places look wrong and contradict no text, or only an example: there is
no conversion between char and double although the type checks accept the pair
(so the templates that verify code have no chars), and a century is stored
without the base year 1900 (`arg_date.c:408`, `:524`): 2001 written as `%C%y`
becomes `tm_year` 2001, not 101. `YearRead` says so, and `DatesRead` asks for
nothing else there.

### Fairness

Every specification with a liveness property states weak fairness of `Next`
(of the whole next-state relation; in `VirtualMachine` and `Compiler` it is
called `FairSpec`): each program part is a loop or a call in the only thread, so
as long as a step is possible one is taken. Nothing stronger is assumed.
`Terminates` is claimed of the listed programs, not of all: a program may loop.
`ParseEnds` of the compiler and `Decided` are claimed of every source and text.
`Advances` is stronger than liveness where it holds: a measure goes down with
every step. `Commands` has no liveness: nothing obliges an application to call.

### Deadlock

`CHECK_DEADLOCK FALSE` where a run stops for good: the program has ended, the
source or text is decided, a failed assertion has ended the process. The
driver's runs check for deadlock: a finished process stutters in an action of its
own, so nothing before the exit may be stuck.

### Mutants

A definition named `Bad...` is a neighbouring definition with a plausible
mistake in it. No specification uses it; putting it in the place of the right
one makes the property it was written for fail.

## 4. What is proved

### The machine

`VirtualMachineProofs`, for every program, stack size, width of int and choice
of `AnyDouble`, from the assumptions named in `VirtualMachine`: a stack has at
least one cell, the least int is negative and the largest positive, and
programs are well linked (`next` and jump targets are nodes or NULL, counts are
naturals, addresses and externs exist).

* `TypeCorrect`: `Spec => []TypeOK`. `TypeOK` is inductive as it stands,
  because it says of a cell tagged as a return address that it holds a node of
  the program or NULL. Lemmas give the type of what pops read, of arithmetic
  results (wrapping stays in the ints, truncating division too) and of `Replace`,
  the common end of computing instructions; then there is one step per action.
* `LeftOnlyByLocals`: `Spec => []LeftByLocals`, and `NeverLeftWithoutLocals`:
  `Spec => []ChecksSuffice`, which follows from it. The pushes compare `sp` with
  the last place for equality, so they keep it inside only while it comes to
  that place. It fails to when an `ENTER` adds locals; then, and at no other
  time, `sp` is outside, and a program without locals never passes the end, both
  up to the first thing it does that is undefined. This is how the array is
  left: the next push outside is a write outside, which ends the run as
  `undefined` (as `vm_full_stack` shows). In the program `sp` goes on rising
  from there, unchecked; no bound on that is claimed. The induction needs
  `TypeOK`: a return takes `sp` from `fp`, and so that `fp` itself is inside the
  array whenever a return can use it comes from `FrameOK`, the condition under
  which the step is defined at all.
* `CallsKept`: `Spec => ImplementsCallStack`, and `StackLeftEmpty`:
  `Spec => []NothingLeft`, for every program; what they say of it presumes
  `Conventional`, which reads only the program. Recursion has no bound, and the
  stack may run full at any instruction. The inductive invariant is
  `TypeOK /\ Framed /\ NothingLeft`. `Framed` says that there are an `n` and
  places `v[1] .. v[n]` in the array at which the frames begin (`Layout`): each
  saved frame pointer leads to the frame below (`Linked`), each saved return
  address is a node of the function below, and between two places
  there are exactly the arguments, locals and operands that the descriptions of
  these nodes tell of, with addresses where they tell of addresses (`Frame`).
  Without the links a return could not be shown to find its caller; without the
  operands' number the arguments of a call could reach into a local; without the
  addresses a store could write over a saved pointer.
  `FramesLaidOut` shows that under a layout the mapping `Frames` (which follows
  the chain by a recursive function, whose existence `ChainExists` and
  `ChainUnfolds` establish) is the list of these frames. `CallsBelow` and
  `AbstractBelow` say what stays when nothing below a place is written. Then
  each kind of instruction keeps a layout (`LayoutProceeds`, `LayoutCall`,
  `LayoutEnter`, `LayoutReturn`) and is a step of `CallStack` (`IsCompute`,
  `IsPrint`, `IsEnter`, `IsReturn`, `IsStop`); CALL is a step of the caller, which
  pushes the return address, and the callee begins with ENTER.
* `FaultsKnown`: `Spec => []FaultsForeseen`. On conventional code `run()` stops
  with an error only for a full stack or a zero divisor, and is undefined only
  behind the end of the array, for a division whose result is no int, and for an
  access to a global narrower than what is accessed. So none of the things the
  machine does not check goes wrong before the array has been left: under a layout
  a pop finds an operand of the running function (`PopsFind`), a slot lies in the
  array or the top is beyond its end already (`SlotLies`), a return finds the two
  cells that CALL and ENTER left and room for its result (`ReturnFinds`), and what
  is loaded from or stored to is a cell or a global (`AddressFound`). This is why
  `Layout` says of an address that its cell is in the array, too.

### The compiler

`CodeGeneratorProofs`, `CompilerProofs` and `ScopeProofs`, for every set of
templates and fillers, so for every source, right or wrong. Assumed, all named in
`Compiler`: a template begins with a token of its own and ends with `END`
(`TemplateAssumption`, as the token list ends with `END`), a hole takes a finite
number of tokens, literals have an arithmetic type and an integer value, the two
extern functions have names, and an unset dimension is an int.

* `Invariant`: `Spec => []IInv`, and `Typing`: `Spec => []TypeOK`. `TypeOK` is far
  from inductive: that `endWhile` may write to the jump it remembers depends on
  what happened in activations now gone. `IInv` says it of every suspended
  activation (`ItemOK`): what each holds in its C locals, and that the instruction
  it remembers is in the code and of the right kind. `Placed` says which
  activation can be where on the stack (declarations of the global level and
  statements of a function never mix), `OwnerFits` ties `owner` to the outermost
  production, `Nested` counts the domains, and `TableOK` and `CodeOK` keep every
  reference inside its table. The lemmas about `CodeGenerator` (`AddInstruction`,
  `InsertInstruction`, conversion and load) say that a list stays linked and that
  what an activation relies on (`Reached`) survives. One lemma per action.
* `Nesting`: `Spec => []DomainsNested`. With the count in `IInv`, `SInv` adds what
  the open domains hold: names distinct within each, and everything above the
  global one owned by the definition in progress.
* `Slots`: `Spec => []SlotsAgree`. The third part of `SInv` (`Apart`) is that two
  symbols of one kind in the open domains have different places, `InFrame` that
  each place exists and has the symbol's type. The attempt showed that
  `SlotsAgree` was too strong as first stated: the members of a struct may share
  an offset, because a member may have size 0 (`int a[0];`). The bound on the
  templates had kept TLC from it; that part is now claimed of functions only.
* `Layout`: `Spec => []MembersLaidOut`. The parser places a member as soon as it is
  declared, from the size of the one before it; `type_size` walks the finished
  struct. `LaidOut` is the parser's rule, of every struct that does not hold
  itself, and `KeptInPlace` says that a struct stays laid out while others are
  begun and filled, because nothing that came later enters its measures
  (`SameAlignments`, `SameSizes`). `InPlaceEnds` then identifies the parser's
  places with the ends that `Sizes` adds up, and `EndsGrow` gives the order.
  Alignments, sizes and ends are recursive functions: `Recursion` and `Everywhere`
  are the existence of such a function and induction over its places, in a form
  without an operator as a parameter.

### The lexer

`LexerProofs`, for every set of texts, whichever characters `isalpha` and
`isdigit` accept, however wide int and long are. Assumed: texts are sequences of
characters (`TextsAreSequences`), neither the terminator nor a line break is a
letter or a digit, digits have values (`CharactersAssumption`), there are ints
(`IntAssumption`).

The actions are first brought into one form (`Shape`): a round skips a piece that
lies ahead, with its line breaks counted (`Skips`), makes a token of it (`Adds`),
closes the list or fails. The invariant `LInv` is then shown of the four shapes.

* `PointerInside`: `Spec => []TypeOK`. The pointer never passes the terminator,
  however a comment, literal or number is cut off, and tokens lie one behind the
  other. `AfterStays` says that a loop over a class without the terminator stops in
  the text or at its end; every `consume_*` is such loops with one-character tests
  between them.
* `RoundsAdvance`: `Spec => [][Forward]_vars`. Each round moves the pointer on or
  ends the run, the safety part of `Decided`; with the first theorem the distance
  to the end is a measure.
* `LinesRight`: `Spec => []LinesCounted`. `Counting` adds that the line counter
  agrees with the pointer. The breaks of a text are those of its parts
  (`BreaksAdd`); a carriage return and the line feed behind it are one, even where
  a piece ends between them, because a break belongs to the place that completes
  it.
* `IntegersRight`: `Spec => []IntegersCongruent`. `Numerals` says that the value of
  an INT token is that of its digits, cast; `CastCongruent` is about the cast.
  `Decimal` is a recursive function: that it exists and has natural values is
  shown by a first counterexample instead of an induction theorem (`FirstPlace`
  needs no operator as a parameter).
* `LongestLexemes`: `Spec => []LongestMatch`, the lexer against the language of
  `Lexemes`. While the text is read, `Halfway` holds: the places of the tokens so
  far, followed by the reading of the text from the pointer on, are the reading of
  the whole text; what is left gets through exactly when the whole does; each
  token fits its type. `MatchInv` adds this to `LInv`. The readings are recursive
  functions from the end of the text back, which `Recursion` shows to exist
  (`TokensUnfold`, `GoodUnfold`). Each lexeme is restated as a condition on the
  characters between two places (`NumberIs`, ..., `BlankIs`), among them that a
  quote is not escaped by an odd run of backslashes exactly when what lies before
  it is characters and escapes (`BodyIs`). The first character tells the kind
  (`Only`), so that one lemma for each action shows its piece to be the longest
  lexeme there, or that there is none or it is refused. Needed besides: letters
  and digits have nothing in common with each other or with the characters that
  the lexer looks for itself, nor is `e` a digit (`ClassesAssumption`); the
  terminator does not lie inside a text (`TerminatorAssumption`).

### `arg_parse` and `main`

`DriverProofs`, for every table, argument vector, disk and limit. Assumed:
tables end in an `arg_end` entry with room for an error (`InputsAssumption`);
for the last five theorems also that the entries in front of it were made by the
constructors, `arg_rem` without names, with counts that are not negative
(`EntriesAssumption`), and that letters, names, glossaries and arguments are
sequences of characters (`WordsAssumption`; that a character is not one of the
codes `EMISSARG` and `ELONGOPT` is a matter of the model, where an unknown
letter is the code of its own error).

* `ErrorListBounded`: `Spec => []ErrorsBounded`. Inductive with `Bounded`: the
  errors are a sequence no longer than the limit, and the limit is positive (the
  last place must exist to be overwritten). `RegisteredFits` is the lemma about
  `arg_register_error`; all phases go through it.
* `NoFileTouched`: `Spec => []FilesKept`, and `StatusTellsTruth`:
  `Spec => []StatusTells`. One invariant, `DInv`: before `arg_parse` has returned
  nothing of the driver's has changed (`Untouched`), and afterwards `Driving`
  says for each stage which outputs have been emptied, what was loaded and which
  exits are possible. The outputs are opened in order, so the induction has to
  say that the first `opened` of them are empty and the others as they were.
* `EveryErrorReported`: `Spec => []ErrorsReported`. The invariant, `RInv` with
  `Bounded`, follows `getopt_long` through the vector. Each place of `argv` holds
  one of the given words (`VectorOK`): this is about `permute_args`, whose
  cycles must stay between the ends of the blocks (`PositionsInside`,
  `ExchangedKeeps`), which in turn must be neighbours (`PlacesOK`: skipped
  arguments end in front of `optind`, or at an option that stands there). While a
  cluster is read, what was read of it is letters that take no text
  (`PlaceOK`); so a word that ends in a dash behind such letters is `Endless`
  (`MalformedWord`), and otherwise the argument in front of `optind` is the one
  the error is about when it is registered. `LongOutcome` and `ShortOutcome`
  are brought to a few forms first (`LongForm`, `ShortForm`), from which
  `OutcomeFits` and `ShortFits` read off what the callers need. For the
  messages: a scanner's refusal is one of those its kind's error function
  foresees (`ScanRefuses`), also when it was tentative for a while.
* `FileNamesSplit`: `Spec => []NamesSplit`, from the same invariant: whatever a
  file entry holds was made by `arg_file_scanfn` of some text (`FileOK`), and of
  every text the parts are right (`BaseNameSplit`, `ExtensionSplit`).
* `GlossariesWrapped`: `Spec => []TextWrapped`. The table never changes, so this
  is a fact about `arg_print_formatted_ds`, and `ColumnKept` states it for every
  text, left margin and positive width, where the property tries a few margins
  and widths. The loop's invariant, `LinesKept`, says of the lines so far what the property
  says of all, and of the last one and of the place where the rest begins what it
  says of two neighbours, `Continues` and `BreakOK`; it is vacuous only before the
  first line. `LineEndPlace` is about the search for a blank: the end lies behind
  the beginning, within the column unless a newline begins the line, and in a
  word only if that word fills the column. `RoundAdds` concludes what one round
  prints, `RoundKeeps` that it keeps the invariant, and `RoundStep` that each
  round takes something from the text, so that the rounds the model allows
  suffice.
* `BuffersNeverOverrun`: `Spec => []BufferKept`, for names of any length. The
  pieces of a syntax never begin with a name nor have one behind another
  (`PieceLists`; `OptionLists` and `OptionvLists` show it of what is printed), so
  that whenever `strncat` is called, `arg_cat` has just left `dest` at the NUL
  (`AtNul`), with room for the NUL behind it. `FilledKeeps` is the
  induction: the text and whatever was written stay inside the buffer
  (`WithinBuffer`), and a small buffer and a large one, filled with the same
  pieces, hold the same text up to two cells from the end of the small one
  (`Agree`). Both are proved for every size, and so for 200 as well; the
  indentation of a glossary, which `dest` is not at, needs a size of six
  (`IndentedFits`).
* `ValuesInLimits`: `Spec => [](ValuesFit /\ CountsAllowed)`. No scan function
  stores more values than its constructor made room for, a stored integer is an
  `int` (`ScaledFits`: the limits tested before the multiplication by a suffix
  are those of the product), and a parse that leaves no error has each entry as
  often as the table allows. `CInv` adds what `arg_parse_check` knows half-way
  (`ChecksOK`); it needs that an error stays registered even in a full list
  (`RegisteredStays`). `CountsAllowed` is the part of `NoErrorsMeansRight`, which
  the run checks, that does not depend on the reading of the command line.

The recursive functions of `GetOpt`, `ArgTable` and `Help` exist because each of their
values is given by the one before (`Iteration`), and keep what each step keeps
(`Kept`).

### The hash table

`HashTableProofs`, for every set of keys and values, every hash function and list
of lengths. Assumed: the lengths grow, and each but the last makes room for one
more entry at least (`TableAssumption`, `RoomAssumption`: the code's list is 53,
97, 193, ... of which every load limit exceeds the one before).

* `TableInvariant`: `Spec => []HInv`, the inductive invariant, from which the next
  three follow. `TInv` is about the table: every entry is in the chain of its
  hash and no chain has a key twice, the count is the number of keys, and it is
  within the load limit while there is a larger length. `WInv` is about the
  iterator: both pointers lead to entries, and a key that was there since the
  iterator was created has been seen once if the iterator has passed its place
  and not at all before. What "passed" means involves the order within the
  chain, which is why removal through the iterator, insertion in front of a chain
  and change of a value each have lemmas about it.
* `TableConsistent`: `Spec => []Consistent`; `IteratorKept`:
  `Spec => []IteratorAttached`; `WalksComplete`: `Spec => []WalkComplete`.

An expansion walks all chains and puts each entry in front of its new chain. As a
fold this could not be reasoned about, so `Rehashed` now says where each entry
ends up by counting those that come after it in the walk; TLC found the two
definitions equal on all small tables.

### Commands

`CommandsProofs`, for every set of names and calls, every hash function and every
size of the buffers (`SmallSpace < FirstSpace`). Assumed: texts are sequences of
`Chars`, none of which is the terminator (`CharsAssumption`), and a call is one of
the operations on the string (`CallsAssumption`).

* `StringKept`: `Spec => []StringInOrder`. `StringInOrder` is not inductive: that
  nothing but zeros lies behind the text has to hold of a buffer whose length of
  text is measured only now and then, since `append_used` is not kept up to date.
  The invariant `Sound` says that a string has one of three shapes: in the small
  buffer; handed in, with one block if it is to be freed; or in an append buffer
  with a text of `n` characters, zeros behind them, and `append_used` at most `n`.
  `SetupReady` (what `setup_append_buf` leaves is a buffer with the text and
  room for what comes) and `CopiedSound` carry the argument; the small-buffer
  shape shows that a spare append buffer never exists beside another text.
* `RegistryImplementsDirectory`: `Spec => ImplementsDirectory`. The mapping takes
  the table to the function from its keys to their values (`DirectoryOf` of
  `EntriesOf`) and the string to its text up to the terminator (`CStr`). Both
  invariants are needed: without the sorted chains a search could miss an entry,
  without the zeros a text would read on. One lemma per action shows it to be
  the step of `Directory` of the same name, or a stutter for walks and for a name
  that is not there. On the string's side each operation is shown to make of a
  text what its name says (`Copied`, `Cat` and `Catc` append; `Set` replaces); for
  `Catf`, `FormatFits` shows that the loop which enlarges the buffer ends with one
  large enough, so that nothing of the output is cut off.

### Only model-checked

Of the compiler: that its code verifies (`CodeVerified`, `OperandsAwaited`).
What programs print and that the machine is never undefined on compiled code
(`Programs`, `Toolchain`); that compiled code is `Conventional` is checked for
the programs of `MCVirtualMachine`, and for the compiler's own output by
`CodeVerified`, which asks much the same of it. What a command line, number,
date or pattern means, and which lines are accepted (`Arguments`); and the
temporal properties (liveness under fairness is out of the prover's reach). The recursion in `Types`,
`Bytecode`, `CallFrames`, `Lexemes`, `GetOpt`, `ArgTable` and `Help` is written as
recursive functions, so that these modules stay open to proofs; that such a
function exists has to be shown for each, as `LexerProofs` does for `Decimal`
and for the readings of a text, because the library's induction theorems take
an operator that the provers at hand do not instantiate. `Trex`, `Patterns` and
`Arguments` use recursive operators and are for TLC only.

## 5. What is not modelled

* Printing of tokens, symbols and the trace; the wording of messages; memory
  management of the compiler: symbols freed by `drop_domain` are gone from the
  model too, and the instructions of functions are never freed by the code.
* `is_constant` of `ReturnValue`: it matters only where an l-value has it set,
  which is an array, and an array is refused as not scalar anyway.
* What happens after undefined behaviour, in the machine or in the parser
  (a `struct X` whose X is no struct, the size of a struct that contains itself).
* `delete_instructions_after` has no caller; `delete_instruction` frees the two
  instructions of the entry code at exit.
* Rounding and range of doubles beyond halves; overflow of `int` in sizes.
* Bytes above 127 in sources (`isalpha` of a negative `char`), and line counts
  inside literals with carriage returns, which the code does not count.
* argtable3: an `argc` of 0; `arg_nullcheck`, `arg_free`, `arg_freetable`; the
  `W;` option and the wrappers `getopt`, `getopt_long_only` (no caller); searching
  and captured groups of patterns (no caller), empty patterns and a lone
  backslash at the end; `arg_print_syntaxv` and `arg_print_glossary`, which are
  `arg_print_syntax` with other names and a format of the caller; the merge sort
  and the panic handlers of `arg_utils.c`.
* The usage line does not say that a flag may be needed twice or that an optional
  text must not stand apart from its letter; `UsageAccepted` leaves out such
  tables.

## 6. Plan

1. (done) The machine, its abstract call stack, programs; its first theorems.
2. (done) Types, code generator, compiler, bytecode verifier, composition.
3. (done) The lexer against a grammar; its theorems.
4. (done) The command line: getopt, argument tables, patterns, dates, help,
   `main`; theorems about errors, files and exit status.
5. (done) Commands: hash table, dynamic string, the dictionary they implement.
6. (done) Proofs about the compiler: `TypeOK`, `DomainsNested`, `SlotsAgree`,
   `MembersLaidOut`.
7. (done) Proofs about commands: `StringInOrder`, the table and its iterator,
   `ImplementsDirectory`.
8. (done) Proofs about the machine: frames chain downwards, returns restore the
   caller: `ImplementsCallStack`, `NothingLeft` and `FaultsForeseen`. Next:
   `CodeVerified` and `OperandsAwaited` of the compiler, and that code they
   hold of is `Conventional`, which would join the two halves.
9. (done) Proofs about the lexer: lines, integers, longest lexemes.
10. A reference meaning of sources in `Toolchain`: what a compiled program prints
    against a direct evaluation of its tokens, for ifs, loops and calls.

## 7. Running

    tlc -config vm_programs.cfg MCVirtualMachine.tla
    tlc -config compile_sources.cfg MCCompiler.tla
    tlc -config run_compiled.cfg MCToolchain.tla
    tlc -config lex.cfg MCLexer.tla
    tlc -config options.cfg MCArguments.tla
    tlc -config commands.cfg MCCommands.tla
    tlapm VirtualMachineProofs.tla
    tlapm LexerProofs.tla
    tlapm DriverProofs.tla
    tlapm CodeGeneratorProofs.tla
    tlapm CompilerProofs.tla
    tlapm ScopeProofs.tla
    tlapm HashTableProofs.tla
    tlapm CommandsProofs.tla

`vm_*` configurations belong to `MCVirtualMachine`, `compile_*` to `MCCompiler`,
`run_*` to `MCToolchain`, `options*` to `MCArguments`. `PROJECT.json` lists the
runs, the hazards each property answers, the mutants, and the source lines of
every definition.
