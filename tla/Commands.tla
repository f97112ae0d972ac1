------------------------------ MODULE Commands ------------------------------
(***************************************************************************)
(* The command registry of argtable3, arg_cmd.c: names and their commands  *)
(* in a hash table, and a dynamic string that each dispatched command      *)
(* leaves its result in.                                                   *)
(*                                                                         *)
(* A call is a record [do, text, free_proc, fmt]: the operation on the     *)
(* result that a command's function performs for its arguments, with which *)
(* text, for a set how the text is to be freed, and for a catf how long    *)
(* the format is.  Two commands differ in the character they append.       *)
(***************************************************************************)
EXTENDS HashTable, DynamicString

CONSTANTS
  Calls,           \* what a command can be asked to do
  ModuleNames,     \* the names arg_set_module_name is called with
  MaxText,         \* the longest result text the runs look at
  MaxServed        \* the longest table an application begins to serve with

ASSUME CallsAssumption ==
  /\ \A a \in Calls :
       /\ a.do \in {"set", "own", "cat", "catc", "catf", "help", "reset"}
       /\ a.text \in Seq(Chars) \/ (a.do = "set" /\ a.text = Null)
       /\ a.free_proc \in FreeProcs /\ a.fmt \in Nat
  /\ Values \subseteq Chars /\ ModuleNames \subseteq Seq(Chars)
  /\ {"<", ">", "v"} \subseteq Chars

VARIABLES
  ds,              \* the result of dispatched commands
  module_name,     \* s_module_name
  status           \* "open", "serving", "closed" (uninit) or "aborted"

others == <<ds, module_name, status>>
vars == <<hashvars, history, others>>

Unnamed == <<"<", ">">>            \* module_name() when none was set
Greeting(name) == name \o <<"v">>

Performed(c, a) ==
  CASE a.do = "set" -> Set(ds, a.text, a.free_proc)
    [] a.do = "own" -> Set(ds, CStr(ds), "volatile")
    [] a.do = "cat" -> Cat(ds, a.text)
    [] a.do = "catc" -> Catc(ds, c)
    [] a.do = "catf" -> Catf(ds, a.fmt, a.text)
    [] a.do = "help" -> Catf(ds, 4, Greeting(module_name))
    [] a.do = "reset" -> Reset(ds)

Init ==
  /\ HashInit
  /\ ds = Created /\ module_name = Unnamed /\ status = "open"

\* An application registers its commands, then it serves requests.
Open == status = "open"
Serving == status = "serving"

\* Mistake: a registered name is not looked for.
BadRegister(n, c) ==
  /\ Open /\ InsertInto(table, entrycount, n, c)
  /\ UNCHANGED <<itr, history, others>>

Register(n, c) == Open /\ Replace(n, c) /\ UNCHANGED others
Unregister(n) == Open /\ RemoveKey(n) /\ UNCHANGED others
ChangeCommand(n, c) == Open /\ Change(n, c) /\ UNCHANGED others
Walk == Open /\ (ItrCreate \/ ItrDestroy \/ ItrAdvance \/ ItrRemove) /\ UNCHANGED others
WalkTo(n) == Open /\ ItrSearch(n) /\ UNCHANGED others

Serve ==
  /\ Open /\ ~itr.on /\ TableLength <= MaxServed
  /\ status' = "serving"
  /\ UNCHANGED <<hashvars, history, ds, module_name>>

Dispatch(n, a) ==
  /\ Serving
  /\ \E c \in Values : Search(n) = c /\ ds' = Performed(c, a)
  /\ Len(CStr(ds')) <= MaxText
  /\ UNCHANGED <<hashvars, history, module_name, status>>

\* assert(cmd_info != NULL)
DispatchUnknown(n) ==
  /\ Serving /\ Search(n) = NULL
  /\ status' = "aborted"
  /\ UNCHANGED <<hashvars, history, ds, module_name>>

\* The caller destroys its result and creates another.
AnotherResult == ds' = [Created EXCEPT !.live = Reset(ds).live]
NewResult == Serving /\ AnotherResult /\ UNCHANGED <<hashvars, history, module_name, status>>

SetModuleName(name) ==
  /\ Serving
  /\ module_name' = IF name = <<>> THEN Unnamed ELSE name
  /\ UNCHANGED <<hashvars, history, ds, status>>

\* The table is destroyed with its entries, and a new one created when the
\* registry is used again; the application's result does not outlive it.
CmdUninit ==
  /\ Open \/ Serving
  /\ ~itr.on
  /\ status' = "closed" /\ AnotherResult
  /\ UNCHANGED <<hashvars, history, module_name>>
CmdInit ==
  /\ status = "closed"
  /\ table' = EmptyTable(Primes[1]) /\ primeindex' = 1 /\ entrycount' = 0
  /\ itr' = NoIterator /\ seen' = <<>> /\ present' = {}
  /\ status' = "open" /\ UNCHANGED <<ds, module_name>>

Next ==
  \/ \E n \in Keys :
       \/ \E c \in Values : Register(n, c) \/ ChangeCommand(n, c)
       \/ Unregister(n) \/ WalkTo(n) \/ DispatchUnknown(n)
       \/ \E a \in Calls : Dispatch(n, a)
  \/ Walk \/ Serve \/ NewResult \/ CmdUninit \/ CmdInit
  \/ \E name \in ModuleNames : SetModuleName(name)

Spec == Init /\ [][Next]_vars
-----------------------------------------------------------------------------
\* The string's memory is in order after any sequence of calls: it answers
\* for exactly the blocks it can still reach, its text is never in freed
\* memory, an append buffer is always the data (so that the copy into a spare
\* one in setup_append_buf never happens), it ends in a terminator, and all
\* behind the text is zero, which the copying in arg_dstr_cat relies on.
StringInOrder ==
  /\ ds.live = (IF ds.append = <<>> THEN 0 ELSE 1) + (IF ds.free_proc = "static" THEN 0 ELSE 1)
  /\ ~Dangling(ds)
  /\ ds.free_proc # "static" => ds.data = "given"
  /\ ds.append # <<>> =>
       /\ ds.data = "append" /\ Len(CStr(ds)) < Len(ds.append)
       /\ \A i \in DOMAIN ds.append : i > Len(CStr(ds)) => ds.append[i] = NUL

\* What a command means for the text.
Meaning(c, a, text, name) ==
  CASE a.do = "own" -> text
    [] a.do = "catc" -> Append(text, c)
    [] a.do \in {"cat", "catf"} -> text \o a.text
    [] a.do = "help" -> text \o Greeting(name)
    [] a.do = "reset" \/ a.text = Null -> <<>>
    [] OTHER -> a.text

Promise == INSTANCE Directory WITH
  dir <- IF Open \/ Serving THEN [k \in {k \in Keys : Search(k) # NULL} |-> Search(k)] ELSE <<>>,
  text <- CStr(ds), name <- module_name, open <- (Open \/ Serving), After <- Meaning

\* Whatever is registered, replaced, removed (by name or through an iterator)
\* and dispatched, the registry answers like a dictionary and the result reads
\* like a string: no expansion loses or duplicates a command, no growing,
\* freeing or cutting off of a buffer changes what was written.
ImplementsDirectory == Promise!Spec
=============================================================================
