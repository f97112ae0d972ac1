------------------------------ MODULE MCCommands ------------------------------
(***************************************************************************)
(* Commands with lengths scaled down: two expansions until the last prime, *)
(* keys of which two have the same hash and others meet in some tables.    *)
(***************************************************************************)
EXTENDS Commands

MCChars == {"a", "b", "c", "d", "m", "v", "<", ">"}
MCKeys == {"help", "list", "quit"}
MCHash == [k \in MCKeys |-> CASE k = "help" -> 0 [] k = "list" -> 0 [] OTHER -> 3]
MCPrimes == <<1, 2, 3>>
MCModuleNames == {<<"m">>}

Does(op, text) == [do |-> op, text |-> text, free_proc |-> "static", fmt |-> 1]
Sets(text, free_proc) == [do |-> "set", text |-> text, free_proc |-> free_proc, fmt |-> 1]
MCValues == {"c", "d"}
MCCalls ==
  {Does("own", <<>>), Does("reset", <<>>), Does("cat", <<>>), Does("cat", <<"a", "b">>), Does("catc", <<>>),
   Does("catf", <<"a", "b">>), Does("help", <<>>), Sets(Null, "static"), Sets(<<"a">>, "volatile")}
  \cup {Sets(<<"a", "a", "b">>, f) : f \in FreeProcs}
=============================================================================
