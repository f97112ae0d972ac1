-------------------------------- MODULE Driver --------------------------------
(***************************************************************************)
(* main.c: the compiler's command line, from its arguments to its exit     *)
(* status, and what becomes of the files it names.  The compilation itself *)
(* is the subject of Compiler and VirtualMachine: here it succeeds or      *)
(* fails, which the contents of the source decide in part.                 *)
(*                                                                         *)
(* Other tables than the compiler's are parsed and not driven.             *)
(***************************************************************************)
EXTENDS ArgParse

CONSTANTS
  Inputs,        \* the tables and arguments, and POSIXLY_CORRECT
  MaxErrors,     \* what main passes to arg_end
  Disk,          \* what is in the files at first: name |-> contents
  Locked         \* the files that cannot be opened for writing

ASSUME DriverAssumption == MaxErrors \in Nat \ {0}
ASSUME InputsAssumption == \A input \in Inputs :
  LET ends == {i \in DOMAIN input.table : input.table[i].kind = "end"} IN
  /\ ends # {} /\ ends \subseteq Nat
  /\ \A i \in ends : input.table[i].max \in Nat \ {0}

VARIABLES
  disk,          \* name |-> "program", "library" (no main), "faulty" or "empty"
  loaded,        \* the contents that were read, or "nothing"
  opened,        \* how many of the three outputs were seen to
  ran,           \* the program ran to its end
  exit           \* the exit status, or -1
drivevars == <<disk, loaded, opened, ran, exit>>
vars == <<parsevars, drivevars>>

MainTable ==
  <<LitN(<<>>, <<<<"h", "e">>>>, 0, 1),
    FileN(<<"t">>, <<<<"t", "o">>>>, 0, 1),
    FileN(<<"d">>, <<<<"d", "o">>>>, 0, 1),
    FileN(<<"v">>, <<<<"v", "m">>>>, 0, 1),
    FileN(<<>>, <<>>, 1, 1),
    End(MaxErrors)>>
HELP == 1
OUTPUTS == 2..4
VM == 4
SOURCE == 5

\* Whatever an earlier parse left in the table and in getopt's statics.
Init ==
  /\ \E input \in Inputs :
       /\ table = input.table /\ given = input.argv /\ argv = input.argv
       /\ posixly_correct = input.posixly_correct
  /\ optind = 1 /\ place \in {<<>>, <<"t">>} /\ nonopt_start \in {-1, 2} /\ nonopt_end = -1
  /\ values = [i \in Indices(table) |-> IF table[i].max > 0 THEN <<NoText>> ELSE <<>>]
  /\ errors = <<Error("EMISSARG", TERMINATOR, Program)>>
  /\ phase = "reset" /\ tabindex = 1 /\ tentative = NoError
  /\ disk = Disk /\ loaded = "nothing" /\ opened = 0 /\ ran = FALSE /\ exit = -1
-----------------------------------------------------------------------------
Parsed == phase = "parsed" /\ table = MainTable /\ exit = -1
Helped == values[HELP] # <<>>
\* Mistake: the number of errors is not looked at.
BadUnderstood == Parsed /\ ~Helped
Understood == Parsed /\ ~Helped /\ errors = <<>>
Present(name) == name \in DOMAIN disk
NameIn(i) == values[i][1].filename

Exit(status) == exit' = status
\* err() ends the program with status 1.
Fails == Exit(1) /\ UNCHANGED <<parsevars, disk, loaded, opened, ran>>

\* Help is printed whatever else is wrong.
PrintHelp == Parsed /\ Helped /\ Exit(0) /\ UNCHANGED <<parsevars, disk, loaded, opened, ran>>

PrintErrors == Parsed /\ ~Helped /\ errors # <<>> /\ Fails

\* fopen for writing: the file is made if need be, and is empty.
Emptying(name) == [n \in DOMAIN disk \cup {name} |-> IF n = name THEN "empty" ELSE disk[n]]

\* The outputs are opened, and emptied, in the order tokens, domain, vm.
OpenOutput ==
  LET i == opened + 2 IN
  /\ Understood /\ i \in OUTPUTS
  /\ IF values[i] = <<>> THEN opened' = opened + 1 /\ UNCHANGED <<parsevars, disk, loaded, ran, exit>>
     ELSE IF NameIn(i) \in Locked THEN Fails
     ELSE /\ disk' = Emptying(NameIn(i)) /\ opened' = opened + 1
          /\ UNCHANGED <<parsevars, loaded, ran, exit>>

Opened == opened = Cardinality(OUTPUTS)

\* load_file
LoadSource ==
  /\ Understood /\ Opened /\ loaded = "nothing"
  /\ IF ~Present(NameIn(SOURCE)) THEN Fails
     ELSE loaded' = disk[NameIn(SOURCE)] /\ UNCHANGED <<parsevars, disk, opened, ran, exit>>

Loaded == Understood /\ Opened /\ loaded # "nothing" /\ ~ran
Compiled == Loaded /\ loaded # "faulty"
CompileError == Loaded /\ loaded = "faulty" /\ Fails

\* Only a program with a main runs; the machine may stop with an error.
\* Mistake: it is not checked that there is a main.
BadRunProgram == Compiled /\ values[VM] # <<>> /\ ran' = TRUE /\ UNCHANGED <<parsevars, disk, loaded, opened, exit>>
RunProgram ==
  /\ Compiled /\ values[VM] # <<>>
  /\ \/ Fails
     \/ loaded = "program" /\ ran' = TRUE /\ UNCHANGED <<parsevars, disk, loaded, opened, exit>>
Finish ==
  /\ \/ Compiled /\ values[VM] = <<>>
     \/ Understood /\ ran
  /\ Exit(0) /\ UNCHANGED <<parsevars, disk, loaded, opened, ran>>

Drive == PrintHelp \/ PrintErrors \/ OpenOutput \/ LoadSource \/ CompileError \/ RunProgram \/ Finish

\* An embedding application with another table is done when it is parsed.
Done == (exit # -1 \/ (phase = "parsed" /\ table # MainTable)) /\ UNCHANGED vars

Next == (Parse /\ UNCHANGED drivevars) \/ Drive \/ Done

\* A sequential program goes on as long as it can.
Spec == Init /\ [][Next]_vars /\ WF_vars(Next)
-----------------------------------------------------------------------------
\* Nothing is touched before the arguments are understood: a call for help and
\* a call with any mistake leave every file as it was (main.c, where arg_parse
\* and both checks come before the first fopen).
FilesKept == phase = "parsed" /\ table = MainTable /\ (Helped \/ errors # <<>>) => disk = Disk

\* The status tells what was done: 0 only after help, or when each output that
\* was asked for was opened, the named source was read as it was at the start,
\* unless it is itself one of the outputs, and the program, if it was to run,
\* ran to its end (main.c).
StatusTells ==
  exit = 0 /\ ~Helped =>
    /\ \A i \in OUTPUTS : values[i] # <<>> => disk[NameIn(i)] = "empty"
    /\ (\A i \in OUTPUTS : values[i] # <<>> => NameIn(i) # NameIn(SOURCE)) => loaded = Disk[NameIn(SOURCE)]
    /\ values[VM] # <<>> => ran /\ Disk[NameIn(SOURCE)] = "program"
=============================================================================
