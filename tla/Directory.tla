------------------------------ MODULE Directory ------------------------------
(***************************************************************************)
(* What the commands of argtable3 promise: a name has the command that was *)
(* registered for it last, and a dispatched command changes the result     *)
(* text exactly as it says.                                                *)
(***************************************************************************)
CONSTANTS
  Keys,           \* the names of commands
  Values,         \* the commands
  Calls,          \* what a command can be asked to do (its argv)
  After(_, _, _, _)  \* the text a command leaves for a call: given the
                  \* text it finds and the module's name

VARIABLES
  dir,         \* the registered names, with their commands
  text,        \* the result text
  name,        \* of the module
  open         \* commands may be registered

vars == <<dir, text, name, open>>

Init == dir = <<>> /\ text = <<>> /\ open = TRUE

Register(n, c) ==
  /\ open /\ dir' = [m \in DOMAIN dir \cup {n} |-> IF m = n THEN c ELSE dir[m]]
  /\ UNCHANGED <<text, name, open>>
Unregister(n) == open /\ dir' = [m \in DOMAIN dir \ {n} |-> dir[m]] /\ UNCHANGED <<text, name, open>>
Dispatch ==
  /\ \E m \in DOMAIN dir, a \in Calls : text' = After(dir[m], a, text, name)
  /\ UNCHANGED <<dir, name, open>>
NewText == text' = <<>> /\ UNCHANGED <<dir, name, open>>
Rename == UNCHANGED <<dir, text, open>>
Close == open /\ ~open' /\ dir' = <<>> /\ text' \in {text, <<>>} /\ UNCHANGED name
Open == ~open /\ open' /\ UNCHANGED <<dir, text, name>>

Next ==
  \/ \E n \in Keys : (\E c \in Values : Register(n, c)) \/ Unregister(n)
  \/ Dispatch \/ NewText \/ Rename \/ Close \/ Open

Spec == Init /\ [][Next]_vars
=============================================================================
