-------------------------------- MODULE GetOpt --------------------------------
(***************************************************************************)
(* getopt_long of argtable3, arg_getopt_long.c: it walks over the argument *)
(* vector, returns one option a call, and moves the arguments that are not *)
(* options behind those that are.                                          *)
(*                                                                         *)
(* argv holds the arguments without the program's name, so that argv[i] is *)
(* the code's nargv[i] and Len(argv) its nargc - 1.  place is the rest of  *)
(* the argument that is being read.  The statics place, nonopt_start and   *)
(* nonopt_end keep their values from one parse to the next.                *)
(***************************************************************************)
EXTENDS ArgTable

VARIABLES
  table,            \* the argument table (never changes)
  posixly_correct,  \* is POSIXLY_CORRECT in the environment?  (never changes)
  argv, optind, place, nonopt_start, nonopt_end

scanner == <<argv, optind, place, nonopt_start, nonopt_end>>

Rescan == place = <<>>
Exhausted == optind > Len(argv)
IsOption(word) == Len(word) > 1 /\ word[1] = "-"
DashDash == <<"-", "-">>

\* permute_args exchanges two neighbouring blocks, from start to end and from
\* end to to, along gcd(...) cycles: a position is moved over the length of the
\* other block again and again, and swapping each with where the cycle began
\* moves what is at one position of the cycle to the next.
\* of[y][x] is the greatest common divisor of x and y.
gcd(a, b) ==
  LET of[y \in 0..b] == [x \in Nat |-> IF y = 0 THEN x ELSE of[x % y][y]]
  IN of[b][a]

Positions(cstart, start, end, to) ==
  LET cyclelen == (to - start) \div gcd(end - start, to - end)
      pos[j \in 0..cyclelen] ==
        IF j = 0 THEN cstart
        ELSE LET before == pos[j - 1] IN IF before >= end THEN before - (end - start) ELSE before + (to - end)
  IN [j \in 1..(cyclelen + 1) |-> pos[j - 1]]
Cycle(v, cstart, start, end, to) ==
  LET pos == Positions(cstart, start, end, to)
      moved(p) == CHOOSE j \in 2..Len(pos) : pos[j] = p
  IN [p \in DOMAIN v |-> IF p \in {pos[j] : j \in 2..Len(pos)} THEN v[pos[moved(p) - 1]] ELSE v[p]]

\* Mistake: only one cycle is followed.
BadExchanged(start, end, to) == Cycle(argv, end, start, end, to)

Exchanged(start, end, to) ==
  LET ncycle == gcd(end - start, to - end)
      after[i \in 0..ncycle] == IF i = 0 THEN argv ELSE Cycle(after[i - 1], end + i - 1, start, end, to)
  IN after[ncycle]

Skipped == nonopt_start # -1
Pending == nonopt_end # -1     \* options were read behind skipped arguments

\* The last permutation, before getopt returns -1.
Settle(next) ==
  /\ argv' = IF Pending THEN Exchanged(nonopt_start, nonopt_end, next) ELSE argv
  /\ nonopt_start' = -1 /\ nonopt_end' = -1
  /\ place' = <<>>

\* The first call after optind was set to 0.
Restart ==
  /\ optind = 0
  /\ optind' = 1 /\ place' = <<>> /\ nonopt_start' = -1 /\ nonopt_end' = -1
  /\ UNCHANGED argv

EndOfArguments ==
  /\ optind # 0 /\ Rescan /\ Exhausted
  /\ Settle(optind)
  /\ optind' = CASE Pending -> optind - (nonopt_end - nonopt_start)
                 [] ~Pending /\ Skipped -> nonopt_start
                 [] OTHER -> optind

AtOperand == optind # 0 /\ Rescan /\ ~Exhausted /\ ~IsOption(argv[optind])

\* Without permutation the first argument that is no option ends the options.
StopAtOperand == AtOperand /\ posixly_correct /\ UNCHANGED scanner

\* Mistake: the argument is looked at again.
BadSkipOperand ==
  /\ AtOperand /\ ~posixly_correct
  /\ nonopt_start' = IF Skipped THEN nonopt_start ELSE optind
  /\ nonopt_end' = optind
  /\ UNCHANGED <<argv, place, optind>>

SkipOperand ==
  /\ AtOperand /\ ~posixly_correct
  /\ argv' = IF Skipped /\ Pending THEN Exchanged(nonopt_start, nonopt_end, optind) ELSE argv
  /\ nonopt_start' = CASE ~Skipped -> optind
                       [] Skipped /\ Pending -> optind - (nonopt_end - nonopt_start)
                       [] OTHER -> nonopt_start
  /\ nonopt_end' = -1
  /\ optind' = optind + 1
  /\ UNCHANGED place

\* With no permutation nothing was skipped before --.
EndOfOptions ==
  LET end == IF Skipped /\ ~Pending THEN optind ELSE nonopt_end IN
  /\ optind # 0 /\ Rescan /\ ~Exhausted /\ argv[optind] = DashDash
  /\ argv' = IF end # -1 THEN Exchanged(nonopt_start, end, optind + 1) ELSE argv
  /\ optind' = IF end # -1 THEN optind + 1 - (end - nonopt_start) ELSE optind + 1
  /\ nonopt_start' = -1 /\ nonopt_end' = -1
  /\ place' = <<>>

\* What is left to read of the present argument, which begins an option.
AtOption == optind # 0 /\ (Rescan => ~Exhausted /\ IsOption(argv[optind]) /\ argv[optind] # DashDash)
Word == IF Rescan THEN Tail(argv[optind]) ELSE place

\* The skipped arguments end where an option is found.
MarkEnd == nonopt_end' = IF Rescan /\ Skipped /\ ~Pending THEN optind ELSE nonopt_end

\* A call that returns an option or an error leaves the vector alone.
Returns(next, rest) ==
  /\ optind' = next /\ place' = rest
  /\ MarkEnd /\ UNCHANGED <<argv, nonopt_start>>
-----------------------------------------------------------------------------
\* parse_long_options for the word after the two dashes.
NameOf(word) == SubSeq(word, 1, Min({i \in DOMAIN word : word[i] = "="} \cup {Len(word) + 1}) - 1)
HasEqual(word) == Len(NameOf(word)) < Len(word)
TextOf(word) == From(word, Len(NameOf(word)) + 2)

Partial(name, options) == {i \in DOMAIN options : IsPrefix(name, options[i].name)}
Exact(name, options) == {i \in DOMAIN options : options[i].name = name}

\* Two matches are a mistake only when they mean different options.
\* Mistake: the first of several matches is taken.
BadAmbiguous(name, options) == FALSE
Ambiguous(name, options) ==
  /\ Exact(name, options) = {}
  /\ \E i, j \in Partial(name, options) :
       options[i].has_arg # options[j].has_arg \/ options[i].val # options[j].val

\* The index of the matching option: the first exact match, or the first of
\* the partial ones; 0 if there is none.
Match(name, options) ==
  IF Exact(name, options) # {} THEN Min(Exact(name, options)) ELSE Min(Partial(name, options) \cup {Len(options) + 1})

\* What the call returns: an entry with its text, or an error, and optind.
Found(val, text, next) == [error |-> "", val |-> val, text |-> text, next |-> next]
Problem(error, next) == [error |-> error, val |-> 0, text |-> NoText, next |-> next]

LongOutcome(word) ==
  LET options == LongOptions(table)
      name == NameOf(word)
      match == Match(name, options)
      option == options[match]
      next == optind + 1
  IN CASE Ambiguous(name, options) \/ match > Len(options) -> Problem("ELONGOPT", next)
       [] OTHER ->
            CASE option.has_arg = "no" /\ HasEqual(word) -> Problem("ELONGOPT", next)
              [] option.has_arg # "no" /\ HasEqual(word) -> Found(option.val, TextOf(word), next)
              [] option.has_arg = "required" /\ ~HasEqual(word) ->
                   IF next > Len(argv) THEN Problem("EMISSARG", next)
                   ELSE Found(option.val, argv[next], next + 1)
              [] OTHER -> Found(option.val, NoText, next)

\* A letter, followed by the rest of its argument.
ShortOutcome(c, rest) ==
  LET e == FindShortOption(table, c)
      value == table[e].value
      after == IF rest = <<>> THEN optind + 1 ELSE optind
  IN CASE ~KnownLetter(table, c) -> Problem(c, after)
       [] KnownLetter(table, c) /\ value = "no" -> Found(e, NoText, after)
       [] KnownLetter(table, c) /\ value # "no" /\ rest # <<>> -> Found(e, rest, optind + 1)
       [] KnownLetter(table, c) /\ value = "optional" /\ rest = <<>> -> Found(e, NoText, optind + 1)
       [] OTHER -> IF optind + 1 > Len(argv) THEN Problem("EMISSARG", optind + 1)
                   ELSE Found(e, argv[optind + 1], optind + 2)

\* The rest of a cluster that is read by later calls.
Rest(c, rest) == IF KnownLetter(table, c) /\ table[FindShortOption(table, c)].value # "no" THEN <<>> ELSE rest
=============================================================================
