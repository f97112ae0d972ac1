------------------------------- MODULE ArgParse -------------------------------
(***************************************************************************)
(* arg_parse of argtable3, argtable3.c: a table is reset, the arguments    *)
(* that are options go to the entries they name, the others to the         *)
(* untagged entries in order, and the counts are checked.  What is wrong   *)
(* is registered in the table's terminator.                                *)
(*                                                                         *)
(* One getopt call and what arg_parse_tagged does with its result are one  *)
(* action; so is one round of the loop in arg_parse_untagged.              *)
(***************************************************************************)
EXTENDS GetOpt

VARIABLES
  given,       \* the arguments as they were given (never changes)
  values,      \* values[i]: what entry i has accepted
  errors,      \* [code, parent, text] each; parent is an entry or TERMINATOR
  phase,       \* "reset", "tagged", "untagged", "check", "parsed", then the driver's
  tabindex,    \* the untagged entry that is tried
  tentative    \* the error of the last entry that was tried, or none

results == <<values, errors>>
untagged == <<tabindex, tentative>>
fixed == <<table, posixly_correct, given>>
parsevars == <<fixed, scanner, results, untagged, phase>>

Error(code, parent, text) == [code |-> code, parent |-> parent, text |-> text]
NoError == Error("", 0, NoText)
ErrorLimit == table[EndIndex(table)].max
Program == <<"program">>       \* argv[0]
Argument(i) == IF i = 0 THEN Program ELSE argv[i]

Register(error) == errors' = Registered(errors, ErrorLimit, error)

\* An occurrence of entry i is scanned.
Scanned(i, text, list) ==
  \E scan \in {Scan(table[i], values[i], text)} :
    IF scan.error = "" THEN values' = [values EXCEPT ![i] = Append(@, scan.value)] /\ errors' = list
    ELSE errors' = Registered(list, ErrorLimit, Error(scan.error, i, text)) /\ UNCHANGED values

\* arg_reset, and arg_parse_tagged up to its loop.
Reset ==
  /\ phase = "reset" /\ phase' = "tagged"
  /\ values' = [i \in Indices(table) |-> <<>>] /\ errors' = <<>>
  /\ optind' = 0
  /\ UNCHANGED <<fixed, argv, place, nonopt_start, nonopt_end, untagged>>

Tagged == phase = "tagged"
Walk == Tagged /\ (Restart \/ SkipOperand) /\ UNCHANGED <<fixed, results, untagged, phase>>

EndTagged ==
  /\ Tagged /\ (EndOfArguments \/ StopAtOperand \/ EndOfOptions)
  /\ phase' = "untagged" /\ tabindex' = 1 /\ tentative' = NoError
  /\ UNCHANGED <<fixed, results>>

\* An error names the argument before optind, except for unknown letters.
Refused(outcome) ==
  /\ Register(Error(outcome.error, TERMINATOR,
       IF outcome.error \in {"ELONGOPT", "EMISSARG"} THEN Argument(outcome.next - 1) ELSE NoText))
  /\ UNCHANGED values

\* An empty text is an error, and is scanned all the same.
LongOption ==
  /\ Tagged /\ AtOption /\ Word[1] = "-" /\ Len(Word) > 1
  /\ \E outcome \in {LongOutcome(Tail(Word))} :
       LET empty == outcome.text = <<>> /\ table[outcome.val].value # "no"
           missing == Error("EMISSARG", TERMINATOR, Argument(outcome.next - 1))
       IN /\ Returns(outcome.next, <<>>)
          /\ IF outcome.error # "" THEN Refused(outcome)
             ELSE Scanned(outcome.val, outcome.text, IF empty THEN Registered(errors, ErrorLimit, missing) ELSE errors)
  /\ UNCHANGED <<fixed, untagged, phase>>

\* A dash at the end of letters: nothing of the vector is consumed, and the
\* next call begins the same argument again.
Malformed ==
  /\ Tagged /\ AtOption /\ Word = <<"-">>
  /\ Returns(optind, <<>>)
  /\ Refused(Problem("EMISSARG", optind))
  /\ UNCHANGED <<fixed, untagged, phase>>

ShortOption ==
  /\ Tagged /\ AtOption /\ Word[1] # "-"
  /\ \E outcome \in {ShortOutcome(Word[1], Tail(Word))} :
       /\ Returns(outcome.next, Rest(Word[1], Tail(Word)))
       /\ IF outcome.error # "" THEN Refused(outcome) ELSE Scanned(outcome.val, outcome.text, errors)
  /\ UNCHANGED <<fixed, untagged, phase>>
-----------------------------------------------------------------------------
\* arg_parse_untagged
Trying == phase = "untagged" /\ tabindex < EndIndex(table)

\* The checks are made only if all went well so far.
UntaggedDone ==
  /\ phase = "untagged" /\ Exhausted /\ tentative = NoError
  /\ phase' = IF errors = <<>> THEN "check" ELSE "parsed"
  /\ tabindex' = 1
  /\ UNCHANGED <<fixed, scanner, results, tentative>>

SkipEntry ==
  /\ Trying /\ ~Exhausted
  /\ ~Untagged(table[tabindex]) \/ table[tabindex].kind = "rem"
  /\ tabindex' = tabindex + 1
  /\ UNCHANGED <<fixed, scanner, results, tentative, phase>>

\* The entry keeps its turn as long as it accepts.
TryEntry ==
  /\ Trying /\ ~Exhausted /\ Untagged(table[tabindex]) /\ table[tabindex].kind # "rem"
  /\ \E scan \in {Scan(table[tabindex], values[tabindex], argv[optind])} :
       IF scan.error = ""
       THEN /\ values' = [values EXCEPT ![tabindex] = Append(@, scan.value)]
            /\ optind' = optind + 1 /\ tentative' = NoError /\ tabindex' = tabindex
       ELSE /\ tentative' = Error(scan.error, tabindex, argv[optind]) /\ tabindex' = tabindex + 1
            /\ UNCHANGED <<values, optind>>
  /\ UNCHANGED <<fixed, argv, place, nonopt_start, nonopt_end, errors, phase>>

\* No entry is left: the last refusal becomes an error, and so does every
\* argument after it.
NoEntryLeft == phase = "untagged" /\ tabindex = EndIndex(table)

Reinstate ==
  /\ NoEntryLeft /\ tentative # NoError
  /\ Register(tentative) /\ tentative' = NoError
  /\ optind' = optind + 1
  /\ UNCHANGED <<fixed, argv, place, nonopt_start, nonopt_end, values, tabindex, phase>>

NotConsumed ==
  /\ NoEntryLeft /\ tentative = NoError /\ ~Exhausted
  /\ Register(Error("ENOMATCH", TERMINATOR, argv[optind]))
  /\ optind' = optind + 1
  /\ UNCHANGED <<fixed, argv, place, nonopt_start, nonopt_end, values, untagged, phase>>
-----------------------------------------------------------------------------
\* arg_parse_check, one entry after the other.
Check ==
  /\ phase = "check" /\ tabindex < EndIndex(table)
  /\ tabindex' = tabindex + 1
  /\ IF Lacks(table[tabindex], values[tabindex]) THEN Register(Error("MINCOUNT", tabindex, NoText)) ELSE UNCHANGED errors
  /\ UNCHANGED <<fixed, scanner, values, tentative, phase>>

Checked ==
  /\ phase = "check" /\ tabindex = EndIndex(table)
  /\ phase' = "parsed"
  /\ UNCHANGED <<fixed, scanner, results, untagged>>

Parse ==
  \/ Reset \/ Walk \/ EndTagged \/ LongOption \/ Malformed \/ ShortOption
  \/ UntaggedDone \/ SkipEntry \/ TryEntry \/ Reinstate \/ NotConsumed \/ Check \/ Checked
-----------------------------------------------------------------------------
\* No sequence of mistakes overflows the list that arg_end made room for
\* (arg_register_error).
ErrorsBounded == Len(errors) <= ErrorLimit
=============================================================================
