----------------------------- MODULE DriverProofs -----------------------------
(***************************************************************************)
(* Theorems about Driver and Reports for every table, every command line,  *)
(* every disk and every limit on the number of errors.                     *)
(***************************************************************************)
EXTENDS Reports, FiniteSetTheorems, SequenceTheorems, WellFoundedInduction, TLAPS

-----------------------------------------------------------------------------
(* The list of errors.                                                     *)

LEMMA LeastPlace ==
  ASSUME NEW S, S \subseteq Nat, S # {}
  PROVE  Min(S) \in S
<1>1. PICK x \in S : \A y \in S : ~ (<<y, x>> \in OpToRel(<, Nat))
  BY NatLessThanWellFounded, WFMin
<1>2. ASSUME NEW y \in S PROVE x <= y
  <2>1. ~ (y < x)
    BY <1>1 DEF OpToRel
  <2>2. QED BY <2>1
<1>3. QED BY <1>2 DEF Min

(* A list that is a sequence and not longer than the limit.                *)
Fitting(list, limit) == (\E T : list \in Seq(T)) /\ Len(list) <= limit

(* Whatever is registered, the list keeps to the limit: arg_register_error *)
(* counts up only below it.                                                *)
LEMMA RegisteredFits ==
  ASSUME NEW limit \in Nat \ {0}, NEW list, Fitting(list, limit), NEW error
  PROVE  Fitting(Registered(list, limit, error), limit)
<1> DEFINE full == [code |-> "ELIMIT", parent |-> TERMINATOR, text |-> NoText]
<1>1. PICK T : list \in Seq(T)
  BY DEF Fitting
<1>2. list \in Seq(T \cup {error, full})
  BY <1>1, SeqMonotonic
<1>3. Len(list) \in Nat /\ Len(list) <= limit
  BY <1>1, LenProperties DEF Fitting
<1>4. CASE Len(list) < limit
  <2>1. /\ Append(list, error) \in Seq(T \cup {error, full})
        /\ Len(Append(list, error)) = Len(list) + 1
    <3> HIDE DEF full
    <3> QED BY <1>2, AppendProperties
  <2>2. Registered(list, limit, error) = Append(list, error)
    BY <1>4 DEF Registered
  <2>3. QED BY <1>3, <1>4, <2>1, <2>2 DEF Fitting
<1>5. CASE ~(Len(list) < limit)
  <2>1. limit \in 1..Len(list)
    BY <1>3, <1>5
  <2>2. /\ [list EXCEPT ![limit] = full] \in Seq(T \cup {error, full})
        /\ Len([list EXCEPT ![limit] = full]) = Len(list)
    <3> HIDE DEF full
    <3>1. full \in T \cup {error, full}
      OBVIOUS
    <3>2. QED BY <1>2, <2>1, <3>1, ExceptSeq
  <2>3. Registered(list, limit, error) = [list EXCEPT ![limit] = full]
    BY <1>5 DEF Registered
  <2>4. QED BY <1>3, <2>2, <2>3 DEF Fitting
<1>6. QED BY <1>4, <1>5

LEMMA EmptyFits ==
  ASSUME NEW limit \in Nat
  PROVE  Fitting(<<>>, limit)
<1>1. <<>> \in Seq({}) /\ Len(<<>>) = 0
  OBVIOUS
<1>2. QED BY <1>1 DEF Fitting
-----------------------------------------------------------------------------
(* The invariant behind ErrorsBounded: the table ends, has room for an     *)
(* error, and the errors are a sequence that fits.                         *)
Bounded == ErrorLimit \in Nat \ {0} /\ Fitting(errors, ErrorLimit)

LEMMA InitBounded == Init => Bounded
<1> SUFFICES ASSUME Init PROVE Bounded
  OBVIOUS
<1>1. PICK input \in Inputs : table = input.table
  BY DEF Init
<1> DEFINE ends == {i \in DOMAIN table : table[i].kind = "end"}
<1>2. ends # {} /\ ends \subseteq Nat /\ \A i \in ends : table[i].max \in Nat \ {0}
  BY <1>1, InputsAssumption
<1>3. Min(ends) \in ends
  <2> HIDE DEF ends
  <2> QED BY <1>2, LeastPlace
<1>4. ErrorLimit \in Nat \ {0}
  BY <1>2, <1>3 DEF ErrorLimit, EndIndex
<1>5. Fitting(<<>>, ErrorLimit)
  BY <1>4, EmptyFits
<1> DEFINE first == Error("EMISSARG", TERMINATOR, Program)
<1>6. errors = <<first>>
  BY DEF Init
<1> HIDE DEF first
<1>7. errors \in Seq({first}) /\ Len(errors) = 1
  BY <1>6
<1>8. QED BY <1>4, <1>7 DEF Bounded, Fitting

(* A step that changes the errors only by registering one, or not at all.  *)
LEMMA RegisterStep ==
  ASSUME Bounded, NEW error, Register(error), table' = table
  PROVE  Bounded'
  BY RegisteredFits DEF Bounded, Register, ErrorLimit

LEMMA ErrorsStay ==
  ASSUME Bounded, errors' = errors, table' = table
  PROVE  Bounded'
  BY DEF Bounded, ErrorLimit

LEMMA ScannedStep ==
  ASSUME Bounded, NEW i, NEW t, NEW list, Fitting(list, ErrorLimit), Scanned(i, t, list), table' = table
  PROVE  Bounded'
<1>1. ErrorLimit' = ErrorLimit /\ ErrorLimit \in Nat \ {0}
  BY DEF ErrorLimit, Bounded
<1>2. CASE errors' = list
  BY <1>1, <1>2 DEF Bounded
<1>3. CASE errors' # list
  <2>1. PICK e : errors' = Registered(list, ErrorLimit, e)
    BY <1>3 DEF Scanned
  <2>2. QED BY <1>1, <2>1, RegisteredFits DEF Bounded
<1>4. QED BY <1>2, <1>3

LEMMA RefusedStep ==
  ASSUME Bounded, NEW outcome, Refused(outcome), table' = table
  PROVE  Bounded'
  BY RegisterStep DEF Refused

LEMMA LongOptionStep == Bounded /\ LongOption => Bounded'
<1> SUFFICES ASSUME Bounded, LongOption PROVE Bounded'
  OBVIOUS
<1>1. table' = table
  BY DEF LongOption, fixed
<1> DEFINE outcome == LongOutcome(Tail(Word))
           empty == outcome.text = <<>> /\ table[outcome.val].value # "no"
           missing == Error("EMISSARG", TERMINATOR, Argument(outcome.next - 1))
           list == IF empty THEN Registered(errors, ErrorLimit, missing) ELSE errors
<1>2. Refused(outcome) \/ Scanned(outcome.val, outcome.text, list)
  BY DEF LongOption
<1>3. Fitting(list, ErrorLimit)
  <2> HIDE DEF empty, missing
  <2> QED BY RegisteredFits DEF Bounded
<1> HIDE DEF outcome, list
<1>4. QED BY <1>1, <1>2, <1>3, RefusedStep, ScannedStep

LEMMA ShortOptionStep == Bounded /\ ShortOption => Bounded'
<1> SUFFICES ASSUME Bounded, ShortOption PROVE Bounded'
  OBVIOUS
<1>1. table' = table
  BY DEF ShortOption, fixed
<1> DEFINE outcome == ShortOutcome(Word[1], Tail(Word))
<1>2. Refused(outcome) \/ Scanned(outcome.val, outcome.text, errors)
  BY DEF ShortOption
<1> HIDE DEF outcome
<1>3. QED BY <1>1, <1>2, RefusedStep, ScannedStep DEF Bounded

LEMMA ParseStep == Bounded /\ Parse => Bounded'
<1> SUFFICES ASSUME Bounded, Parse PROVE Bounded'
  OBVIOUS
<1>1. CASE Reset
  <2>1. table' = table /\ errors' = <<>>
    BY <1>1 DEF Reset, fixed
  <2>2. QED BY <2>1, EmptyFits DEF Bounded, ErrorLimit
<1>2. CASE Walk BY <1>2, ErrorsStay DEF Walk, fixed, results
<1>3. CASE EndTagged BY <1>3, ErrorsStay DEF EndTagged, fixed, results
<1>4. CASE LongOption BY <1>4, LongOptionStep
<1>5. CASE Malformed BY <1>5, RefusedStep DEF Malformed, fixed
<1>6. CASE ShortOption BY <1>6, ShortOptionStep
<1>7. CASE UntaggedDone BY <1>7, ErrorsStay DEF UntaggedDone, fixed, results
<1>8. CASE SkipEntry BY <1>8, ErrorsStay DEF SkipEntry, fixed, results
<1>9. CASE TryEntry BY <1>9, ErrorsStay DEF TryEntry, fixed
<1>10. CASE Reinstate BY <1>10, RegisterStep DEF Reinstate, fixed
<1>11. CASE NotConsumed BY <1>11, RegisterStep DEF NotConsumed, fixed
<1>12. CASE Check
  <2>1. table' = table /\ (errors' = errors \/ \E e : Register(e))
    BY <1>12 DEF Check, fixed
  <2>2. QED BY <2>1, ErrorsStay, RegisterStep
<1>13. CASE Checked BY <1>13, ErrorsStay DEF Checked, fixed, results
<1>14. QED BY <1>1, <1>2, <1>3, <1>4, <1>5, <1>6, <1>7, <1>8, <1>9, <1>10, <1>11, <1>12, <1>13 DEF Parse

(* main.c leaves the parser's state alone.                                 *)
LEMMA DriveKeepsParse == Drive => UNCHANGED parsevars
  BY DEF Drive, PrintHelp, PrintErrors, Fails, OpenOutput, LoadSource, CompileError, RunProgram, Finish

LEMMA NextBounded == Bounded /\ [Next]_vars => Bounded'
<1> SUFFICES ASSUME Bounded, [Next]_vars PROVE Bounded'
  OBVIOUS
<1>1. CASE Parse BY <1>1, ParseStep
<1>2. CASE UNCHANGED parsevars
  BY <1>2, ErrorsStay DEF parsevars, fixed, results
<1>3. QED BY <1>1, <1>2, DriveKeepsParse DEF Next, Done, vars

(* For every table that ends, every argument vector and every limit: no    *)
(* sequence of mistakes writes behind the list that arg_end made room for  *)
(* (arg_register_error and all that call it).                              *)
THEOREM ErrorListBounded == Spec => []ErrorsBounded
<1>1. Init => Bounded
  BY InitBounded
<1>2. Bounded /\ [Next]_vars => Bounded'
  BY NextBounded
<1>3. Bounded => ErrorsBounded
  BY DEF Bounded, Fitting, ErrorsBounded
<1>4. QED BY <1>1, <1>2, <1>3, PTL DEF Spec
-----------------------------------------------------------------------------
(* The invariant behind FilesKept and StatusTells.  Before the compiler's  *)
(* own table is parsed nothing was done; after that, the outputs that main *)
(* has come to are empty and all other files are as they were.             *)
Untouched == opened = 0 /\ loaded = "nothing" /\ ran = FALSE /\ exit = -1 /\ disk = Disk

Emptied == {NameIn(i) : i \in {j \in OUTPUTS : j < opened + 2 /\ values[j] # <<>>}}
OutputsEmptied == \A n \in Emptied : n \in DOMAIN disk /\ disk[n] = "empty"
OthersKept == \A n \in (DOMAIN disk \cup DOMAIN Disk) \ Emptied :
  n \in DOMAIN disk /\ n \in DOMAIN Disk /\ disk[n] = Disk[n]
SourceRead == loaded # "nothing" =>
  opened = 3 /\ NameIn(SOURCE) \in DOMAIN disk /\ loaded = disk[NameIn(SOURCE)]
RanProgram == ran => loaded = "program"
Succeeded == exit = 0 /\ ~Helped => loaded # "nothing" /\ (values[VM] # <<>> => ran)
NothingWrong == Helped \/ errors # <<>> => disk = Disk

Driving ==
  /\ opened \in 0..3
  /\ OutputsEmptied /\ OthersKept /\ SourceRead /\ RanProgram /\ Succeeded /\ NothingWrong

AtMain == phase = "parsed" /\ table = MainTable
DInv == (AtMain => Driving) /\ (~AtMain => Untouched)

LEMMA UntouchedDriving == Untouched => Driving
<1> SUFFICES ASSUME Untouched PROVE Driving
  OBVIOUS
<1>1. opened = 0 /\ Emptied = {}
  BY DEF Untouched, Emptied, OUTPUTS
<1>2. QED
  BY <1>1 DEF Untouched, Driving, OutputsEmptied, OthersKept, SourceRead, RanProgram, Succeeded, NothingWrong

LEMMA InitDInv == Init => DInv
  BY UntouchedDriving DEF Init, DInv, Untouched

(* Parsing is over when the phase is "parsed".                             *)
LEMMA ParseGoesOn == Parse => phase # "parsed"
  BY DEF Parse, Reset, Walk, EndTagged, LongOption, Malformed, ShortOption, Tagged, UntaggedDone,
         SkipEntry, TryEntry, Trying, Reinstate, NotConsumed, NoEntryLeft, Check, Checked

LEMMA ThreeOutputs == Cardinality(OUTPUTS) = 3
<1>1. \A a, b \in Int : a <= b => Cardinality(a..b) = b - a + 1
  BY FS_Interval
<1>2. 2 \in Int /\ 4 \in Int /\ 2 <= 4 /\ 4 - 2 + 1 = 3
  OBVIOUS
<1>3. Cardinality(2..4) = 4 - 2 + 1
  BY <1>1, <1>2, Zenon
<1>4. QED BY <1>2, <1>3 DEF OUTPUTS

(* What follows from main being at work.                                   *)
LEMMA ParsedStay ==
  ASSUME UNCHANGED parsevars
  PROVE  /\ AtMain' = AtMain /\ Helped' = Helped
         /\ values' = values /\ errors' = errors /\ table' = table
  BY DEF parsevars, fixed, results, AtMain, Helped, MainTable, HELP

(* A step that leaves the files, the outputs and the source alone.         *)
LEMMA QuietStep ==
  ASSUME Driving, UNCHANGED <<parsevars, disk, loaded, opened>>, RanProgram', Succeeded'
  PROVE  Driving'
<1>1. values' = values /\ errors' = errors /\ Helped' = Helped
  BY ParsedStay
<1>2. Emptied' = Emptied
  BY <1>1 DEF Emptied, NameIn
<1>3. OutputsEmptied' /\ OthersKept' /\ SourceRead' /\ NothingWrong'
  BY <1>1, <1>2 DEF Driving, OutputsEmptied, OthersKept, SourceRead, NothingWrong, NameIn
<1>4. QED BY <1>3 DEF Driving

LEMMA FailsStep == Driving /\ Fails => Driving'
<1> SUFFICES ASSUME Driving, Fails PROVE Driving'
  OBVIOUS
<1>1. RanProgram' /\ Succeeded'
  BY DEF Fails, Exit, Driving, RanProgram, Succeeded
<1>2. QED BY <1>1, QuietStep DEF Fails

LEMMA PrintHelpStep == Driving /\ PrintHelp => Driving'
<1> SUFFICES ASSUME Driving, PrintHelp PROVE Driving'
  OBVIOUS
<1>1. Helped'
  BY ParsedStay DEF PrintHelp
<1>2. RanProgram' /\ Succeeded'
  BY <1>1 DEF PrintHelp, Driving, RanProgram, Succeeded
<1>3. QED BY <1>2, QuietStep DEF PrintHelp

LEMMA OpenOutputStep == Driving /\ OpenOutput => Driving'
<1> SUFFICES ASSUME Driving, OpenOutput PROVE Driving'
  OBVIOUS
<1> DEFINE i == opened + 2
<1>1. i \in OUTPUTS /\ opened \in 0..2 /\ i \in 2..4
  BY DEF OpenOutput, OUTPUTS, Driving
<1>2. loaded = "nothing" /\ ~ran
  BY <1>1 DEF Driving, SourceRead, RanProgram
<1>3. exit = -1 /\ ~Helped /\ errors = <<>>
  BY DEF OpenOutput, Understood, Parsed
<1>4. CASE values[i] = <<>> /\ opened' = opened + 1 /\ UNCHANGED <<parsevars, disk, loaded, ran, exit>>
  <2>1. values' = values /\ Helped' = Helped
    BY <1>4, ParsedStay
  <2>2. \A j \in OUTPUTS : values[j] # <<>> => (j < opened + 2 <=> j < opened' + 2)
    BY <1>1, <1>4 DEF OUTPUTS
  <2>3. Emptied' = Emptied
    BY <2>1, <2>2 DEF Emptied, NameIn
  <2>4. opened' \in 0..3
    BY <1>1, <1>4
  <2>5. OutputsEmptied' /\ OthersKept' /\ SourceRead' /\ RanProgram' /\ Succeeded'
    BY <1>2, <1>3, <1>4, <2>3 DEF Driving, OutputsEmptied, OthersKept, SourceRead, RanProgram, Succeeded
  <2>6. NothingWrong'
    BY <1>3, <1>4, <2>1, ParsedStay DEF NothingWrong
  <2>7. QED BY <2>4, <2>5, <2>6 DEF Driving
<1>5. CASE Fails
  BY <1>5, FailsStep
<1>6. CASE /\ values[i] # <<>>
           /\ disk' = Emptying(NameIn(i)) /\ opened' = opened + 1
           /\ UNCHANGED <<parsevars, loaded, ran, exit>>
  <2>1. values' = values /\ Helped' = Helped /\ errors' = errors
    BY <1>6, ParsedStay
  <2>2. \A j \in OUTPUTS : j < opened' + 2 <=> (j < opened + 2 \/ j = i)
    BY <1>1, <1>6 DEF OUTPUTS
  <2>3. Emptied' = Emptied \cup {NameIn(i)}
    <3> HIDE DEF i
    <3> QED BY <1>1, <1>6, <2>1, <2>2 DEF Emptied, NameIn
  <2> DEFINE name == NameIn(i)
  <2>4. /\ DOMAIN disk' = DOMAIN disk \cup {name}
        /\ disk'[name] = "empty"
        /\ \A n \in DOMAIN disk : n # name => disk'[n] = disk[n]
    <3> HIDE DEF name
    <3>1. disk' = Emptying(name)
      BY <1>6 DEF name
    <3>2. QED BY <3>1 DEF Emptying
  <2> HIDE DEF name, i
  <2>5. OutputsEmptied'
    BY <2>3, <2>4 DEF Driving, OutputsEmptied, name
  <2>6. OthersKept'
    BY <2>3, <2>4 DEF Driving, OthersKept, name
  <2>7. opened' \in 0..3
    BY <1>1, <1>6
  <2>8. SourceRead' /\ RanProgram' /\ Succeeded'
    BY <1>2, <1>3, <1>6 DEF SourceRead, RanProgram, Succeeded
  <2>9. NothingWrong'
    BY <1>3, <2>1 DEF NothingWrong
  <2>10. QED BY <2>5, <2>6, <2>7, <2>8, <2>9 DEF Driving
<1>7. QED BY <1>4, <1>5, <1>6 DEF OpenOutput

LEMMA LoadSourceStep == Driving /\ LoadSource => Driving'
<1> SUFFICES ASSUME Driving, LoadSource PROVE Driving'
  OBVIOUS
<1>1. CASE Fails
  BY <1>1, FailsStep
<1>2. CASE /\ Present(NameIn(SOURCE)) /\ loaded' = disk[NameIn(SOURCE)]
           /\ UNCHANGED <<parsevars, disk, opened, ran, exit>>
  <2>1. values' = values /\ errors' = errors /\ Helped' = Helped
    BY <1>2, ParsedStay
  <2>2. Emptied' = Emptied
    BY <1>2, <2>1 DEF Emptied, NameIn
  <2>3. opened = 3
    BY ThreeOutputs DEF LoadSource, Opened
  <2>4. OutputsEmptied' /\ OthersKept' /\ NothingWrong' /\ opened' \in 0..3
    BY <1>2, <2>1, <2>2 DEF Driving, OutputsEmptied, OthersKept, NothingWrong
  <2>5. SourceRead'
    BY <1>2, <2>1, <2>3 DEF SourceRead, Present, NameIn
  <2>6. RanProgram' /\ Succeeded'
    BY <1>2 DEF LoadSource, Understood, Parsed, Driving, RanProgram, Succeeded
  <2>7. QED BY <2>4, <2>5, <2>6 DEF Driving
<1>3. QED BY <1>1, <1>2 DEF LoadSource

LEMMA RunProgramStep == Driving /\ RunProgram => Driving'
<1> SUFFICES ASSUME Driving, RunProgram PROVE Driving'
  OBVIOUS
<1>1. CASE Fails
  BY <1>1, FailsStep
<1>2. CASE loaded = "program" /\ ran' = TRUE /\ UNCHANGED <<parsevars, disk, loaded, opened, exit>>
  <2>1. exit' = -1
    BY <1>2 DEF RunProgram, Compiled, Loaded, Understood, Parsed
  <2>2. RanProgram' /\ Succeeded'
    BY <1>2, <2>1 DEF RanProgram, Succeeded
  <2>3. QED BY <1>2, <2>2, QuietStep
<1>3. QED BY <1>1, <1>2 DEF RunProgram

LEMMA FinishStep == Driving /\ Finish => Driving'
<1> SUFFICES ASSUME Driving, Finish PROVE Driving'
  OBVIOUS
<1>1. UNCHANGED <<parsevars, disk, loaded, opened, ran>> /\ values' = values
  BY ParsedStay DEF Finish
<1>2. loaded # "nothing" /\ (values[VM] # <<>> => ran)
  BY DEF Finish, Compiled, Loaded, Driving, RanProgram
<1>3. RanProgram' /\ Succeeded'
  BY <1>1, <1>2 DEF Driving, RanProgram, Succeeded
<1>4. QED BY <1>1, <1>3, QuietStep

LEMMA DriveStep == DInv /\ Drive => DInv'
<1> SUFFICES ASSUME DInv, Drive PROVE DInv'
  OBVIOUS
<1>1. AtMain
  BY DEF AtMain, Drive, PrintHelp, PrintErrors, OpenOutput, LoadSource, CompileError, RunProgram, Finish,
         Loaded, Compiled, Understood, Parsed
<1>2. Driving
  BY <1>1 DEF DInv
<1>3. AtMain'
  BY <1>1, DriveKeepsParse, ParsedStay
<1>4. Driving'
  <2>1. CASE PrintHelp BY <1>2, <2>1, PrintHelpStep
  <2>2. CASE PrintErrors BY <1>2, <2>2, FailsStep DEF PrintErrors
  <2>3. CASE OpenOutput BY <1>2, <2>3, OpenOutputStep
  <2>4. CASE LoadSource BY <1>2, <2>4, LoadSourceStep
  <2>5. CASE CompileError BY <1>2, <2>5, FailsStep DEF CompileError
  <2>6. CASE RunProgram BY <1>2, <2>6, RunProgramStep
  <2>7. CASE Finish BY <1>2, <2>7, FinishStep
  <2>8. QED BY <2>1, <2>2, <2>3, <2>4, <2>5, <2>6, <2>7 DEF Drive
<1>5. QED BY <1>3, <1>4 DEF DInv

LEMMA NextDInv == DInv /\ [Next]_vars => DInv'
<1> SUFFICES ASSUME DInv, [Next]_vars PROVE DInv'
  OBVIOUS
<1>1. CASE Parse /\ UNCHANGED drivevars
  <2>1. Untouched
    BY <1>1, ParseGoesOn DEF DInv, AtMain
  <2>2. Untouched'
    BY <1>1, <2>1 DEF Untouched, drivevars
  <2>3. (Untouched => Driving)'
    BY UntouchedDriving, PTL
  <2>4. QED BY <2>2, <2>3 DEF DInv
<1>2. CASE Drive BY <1>2, DriveStep
<1>3. CASE UNCHANGED vars
  <2>1. UNCHANGED parsevars /\ UNCHANGED drivevars
    BY <1>3 DEF vars
  <2>2. AtMain' = AtMain /\ (Untouched => Untouched')
    BY <2>1, ParsedStay DEF Untouched, drivevars
  <2>3. Driving => Driving'
    <3> SUFFICES ASSUME Driving PROVE Driving'
      OBVIOUS
    <3>1. RanProgram' /\ Succeeded'
      BY <2>1, ParsedStay DEF Driving, RanProgram, Succeeded, drivevars
    <3>2. QED BY <2>1, <3>1, QuietStep DEF drivevars
  <2>4. QED BY <2>2, <2>3 DEF DInv
<1>4. QED BY <1>1, <1>2, <1>3 DEF Next, Done

(* Whatever the files are and whatever the command line says: before main  *)
(* exits for help or for a mistake it touches no file.                     *)
THEOREM NoFileTouched == Spec => []FilesKept
<1>1. Init => DInv
  BY InitDInv
<1>2. DInv /\ [Next]_vars => DInv'
  BY NextDInv
<1>3. DInv => FilesKept
  BY DEF DInv, AtMain, Driving, NothingWrong, FilesKept
<1>4. QED BY <1>1, <1>2, <1>3, PTL DEF Spec

LEMMA StatusFromInv == DInv => StatusTells
<1> SUFFICES ASSUME DInv, exit = 0, ~Helped
    PROVE /\ \A i \in OUTPUTS : values[i] # <<>> => disk[NameIn(i)] = "empty"
          /\ (\A i \in OUTPUTS : values[i] # <<>> => NameIn(i) # NameIn(SOURCE)) => loaded = Disk[NameIn(SOURCE)]
          /\ values[VM] # <<>> => ran /\ Disk[NameIn(SOURCE)] = "program"
  BY DEF StatusTells
<1>1. Driving
  BY DEF DInv, Untouched
<1>2. opened = 3 /\ loaded # "nothing" /\ (values[VM] # <<>> => ran)
  BY <1>1 DEF Driving, Succeeded, SourceRead
<1>3. Emptied = {NameIn(i) : i \in {j \in OUTPUTS : values[j] # <<>>}}
  BY <1>2 DEF Emptied, OUTPUTS
<1>4. \A i \in OUTPUTS : values[i] # <<>> => disk[NameIn(i)] = "empty"
  BY <1>1, <1>3 DEF Driving, OutputsEmptied
<1>5. NameIn(SOURCE) \in DOMAIN disk /\ loaded = disk[NameIn(SOURCE)]
  BY <1>1, <1>2 DEF Driving, SourceRead
<1>6. NameIn(SOURCE) \notin Emptied => loaded = Disk[NameIn(SOURCE)]
  BY <1>1, <1>5 DEF Driving, OthersKept
<1>7. (\A i \in OUTPUTS : values[i] # <<>> => NameIn(i) # NameIn(SOURCE)) => loaded = Disk[NameIn(SOURCE)]
  BY <1>3, <1>6
<1>8. values[VM] # <<>> => ran /\ Disk[NameIn(SOURCE)] = "program"
  <2>1. SUFFICES ASSUME values[VM] # <<>> PROVE ran /\ Disk[NameIn(SOURCE)] = "program"
    OBVIOUS
  <2>2. ran /\ loaded = "program"
    BY <1>1, <1>2, <2>1 DEF Driving, RanProgram
  <2>3. NameIn(SOURCE) \notin Emptied
    BY <1>1, <1>5, <2>2 DEF Driving, OutputsEmptied
  <2>4. QED BY <1>6, <2>2, <2>3
<1>9. QED BY <1>4, <1>7, <1>8

(* Status 0 is true of every run of the compiler that did not print help:  *)
(* all outputs asked for were opened, the source was read as it was unless *)
(* it is one of them, and with -v the program has a main and ran to its    *)
(* end.                                                                    *)
THEOREM StatusTellsTruth == Spec => []StatusTells
<1>1. Init => DInv
  BY InitDInv
<1>2. DInv /\ [Next]_vars => DInv'
  BY NextDInv
<1>3. DInv => StatusTells
  BY StatusFromInv
<1>4. QED BY <1>1, <1>2, <1>3, PTL DEF Spec
-----------------------------------------------------------------------------
(* Functions that are given step by step: the model's loops.               *)

LEMMA LeastIsLeast ==
  ASSUME NEW S, S \subseteq Nat, S # {}
  PROVE  \A y \in S : Min(S) <= y
<1>1. PICK x \in S : \A y \in S : ~ (<<y, x>> \in OpToRel(<, Nat))
  BY NatLessThanWellFounded, WFMin
<1>2. ASSUME NEW y \in S PROVE x <= y
  <2>1. ~ (y < x)
    BY <1>1 DEF OpToRel
  <2>2. QED BY <2>1
<1>3. QED BY <1>2 DEF Min

\* What holds of a number when it holds of those before it holds of all.
LEMMA Everywhere ==
  ASSUME NEW n \in Nat, NEW S, \A k \in 0..n : 0..(k - 1) \subseteq S => k \in S
  PROVE  0..n \subseteq S
<1> DEFINE Outside == {k \in 0..n : k \notin S}
<1>1. ASSUME Outside # {} PROVE FALSE
  <2> DEFINE m == Min(Outside)
  <2>1. m \in Outside /\ \A k \in Outside : m <= k
    <3> HIDE DEF Outside
    <3>1. Outside \subseteq Nat
      BY DEF Outside
    <3>2. QED BY <1>1, <3>1, LeastPlace, LeastIsLeast
  <2> HIDE DEF m
  <2>2. m \in 0..n /\ m \notin S
    BY <2>1
  <2>3. ASSUME NEW j \in 0..(m - 1) PROVE j \in S
    <3>1. j \in 0..n /\ ~ (m <= j)
      BY <2>2
    <3>2. QED BY <2>1, <3>1
  <2>4. QED BY <2>2, <2>3
<1>2. QED BY <1>1

\* Functions over 0..n whose values are given step by step exist.
Steps(n, V, v0, step) == n \in Nat /\ v0 \in V /\ step \in [V \X (1..n) -> V]
LEMMA Iteration ==
  ASSUME NEW n, NEW V, NEW v0, NEW step, Steps(n, V, v0, step)
  PROVE  \E f \in [0..n -> V] : f[0] = v0 /\ \A k \in 1..n : f[k] = step[<<f[k - 1], k>>]
<1> USE DEF Steps
<1> DEFINE Upto(f, m) == f \in [0..n -> V] /\ \A k \in 0..n : k <= m => f[k] = IF k = 0 THEN v0 ELSE step[<<f[k - 1], k>>]
           With == {m \in 0..n : \E f : Upto(f, m)}
<1>1. ASSUME NEW m \in 0..n, 0..(m - 1) \subseteq With PROVE m \in With
  <2>1. CASE m = 0
    <3>1. Upto([k \in 0..n |-> v0], 0)
      OBVIOUS
    <3>2. QED BY <2>1, <3>1
  <2>2. CASE m # 0
    <3>1. m - 1 \in 0..n /\ m - 1 \in With /\ m \in 1..n
      BY <1>1, <2>2
    <3>2. PICK f : Upto(f, m - 1)
      BY <3>1
    <3> DEFINE new == step[<<f[m - 1], m>>]
               g == [f EXCEPT ![m] = new]
    <3>3. new \in V
      BY <3>1, <3>2
    <3>4. g \in [0..n -> V] /\ g[m] = new /\ \A k \in 0..n : k # m => g[k] = f[k]
      BY <3>2, <3>3
    <3> HIDE DEF g
    <3>5. ASSUME NEW k \in 0..n, k <= m PROVE g[k] = IF k = 0 THEN v0 ELSE step[<<g[k - 1], k>>]
      <4>1. CASE k = m
        <5>1. k # 0 /\ k - 1 \in 0..n /\ k - 1 # m
          BY <3>1, <4>1
        <5>2. g[k - 1] = f[m - 1]
          BY <3>4, <4>1, <5>1
        <5>3. QED BY <3>4, <4>1, <5>1, <5>2
      <4>2. CASE k # m
        <5>1. k <= m - 1
          BY <3>5, <4>2
        <5>2. f[k] = IF k = 0 THEN v0 ELSE step[<<f[k - 1], k>>]
          BY <3>2, <5>1
        <5>3. k # 0 => k - 1 \in 0..n /\ k - 1 # m
          BY <5>1
        <5>4. QED BY <3>4, <4>2, <5>2, <5>3
      <4>3. QED BY <4>1, <4>2
    <3>6. Upto(g, m)
      BY <3>4, <3>5
    <3>7. QED BY <3>6
  <2>3. QED BY <2>1, <2>2
<1>2. 0..n \subseteq With
  <2> HIDE DEF With
  <2>1. QED BY <1>1, Everywhere
<1>3. PICK f : Upto(f, n)
  BY <1>2
<1>4. f[0] = v0
  <2>1. 0 \in 0..n /\ 0 <= n
    OBVIOUS
  <2>2. QED BY <1>3, <2>1
<1>5. ASSUME NEW k \in 1..n PROVE f[k] = step[<<f[k - 1], k>>]
  <2>1. k \in 0..n /\ k <= n /\ k # 0
    OBVIOUS
  <2>2. QED BY <1>3, <2>1
<1>6. QED BY <1>3, <1>4, <1>5

\* What holds at first and is kept by each step holds throughout.
LEMMA Kept ==
  ASSUME NEW n \in Nat, NEW f, NEW S, f[0] \in S, \A k \in 1..n : f[k - 1] \in S => f[k] \in S
  PROVE  \A k \in 0..n : f[k] \in S
<1> DEFINE T == {k \in 0..n : f[k] \in S}
<1>1. ASSUME NEW k \in 0..n, 0..(k - 1) \subseteq T PROVE k \in T
  <2>1. CASE k = 0
    BY <2>1
  <2>2. CASE k # 0
    <3>1. k \in 1..n /\ k - 1 \in 0..(k - 1)
      BY <2>2
    <3>2. QED BY <1>1, <3>1
  <2>3. QED BY <2>1, <2>2
<1> HIDE DEF T
<1>2. 0..n \subseteq T
  BY <1>1, Everywhere
<1>3. QED BY <1>2 DEF T

-----------------------------------------------------------------------------
(* The exchange of two neighbouring blocks of the argument vector          *)
(* (permute_args) stays between their ends: each place of the vector goes  *)
(* on holding one of the given arguments.                                  *)

(* The number of cycles is not larger than the second block.               *)
LEMMA DivisorOfBoth ==
  ASSUME NEW a \in Nat, NEW b \in Nat \ {0}
  PROVE  gcd(a, b) \in 1..b
<1> DEFINE V == [Nat -> Nat]
           Is(g) == g = [y \in 0..b |-> [x \in Nat |-> IF y = 0 THEN x ELSE g[x % y][y]]]
           of == CHOOSE g : Is(g)
<1>1. \E g : Is(g)
  <2> DEFINE Upto(g, m) == g \in [0..b -> V] /\ \A y \in 0..b : y <= m => g[y] = [x \in Nat |-> IF y = 0 THEN x ELSE g[x % y][y]]
             With == {m \in 0..b : \E g : Upto(g, m)}
  <2>1. ASSUME NEW m \in 0..b, 0..(m - 1) \subseteq With PROVE m \in With
    <3>1. CASE m = 0
      <4> DEFINE g == [y \in 0..b |-> [x \in Nat |-> x]]
      <4>1. g \in [0..b -> V] /\ \A y \in 0..b : y <= m => g[y] = [x \in Nat |-> IF y = 0 THEN x ELSE g[x % y][y]]
        BY <3>1
      <4>2. QED BY <4>1
    <3>2. CASE m # 0
      <4>1. m \in Nat \ {0} /\ m - 1 \in 0..b /\ m - 1 \in 0..(m - 1)
        BY <3>2
      <4>0. m - 1 \in With
        <5> HIDE DEF With
        <5>1. QED BY <2>1, <4>1
      <4>2. PICK f : Upto(f, m - 1)
        BY <4>0
      <4> DEFINE new == [x \in Nat |-> f[x % m][m]]
                 g == [f EXCEPT ![m] = new]
      <4>3. new \in V
        <5>1. \A x \in Nat : x % m \in 0..b
          BY <4>1
        <5>2. \A x \in Nat : f[x % m] \in V
          BY <4>2, <5>1
        <5>3. \A x \in Nat : f[x % m][m] \in Nat
          BY <4>1, <5>2
        <5>4. QED BY <5>3
      <4>4. g \in [0..b -> V] /\ g[m] = new /\ \A y \in 0..b : y # m => g[y] = f[y]
        BY <4>2, <4>3
      <4> HIDE DEF g
      <4>5. ASSUME NEW y \in 0..b, y <= m PROVE g[y] = [x \in Nat |-> IF y = 0 THEN x ELSE g[x % y][y]]
        <5>1. \A x \in Nat : y # 0 => x % y \in 0..b /\ x % y # m
          BY <4>5
        <5>2. \A x \in Nat : y # 0 => g[x % y] = f[x % y]
          BY <4>4, <5>1
        <5>3. CASE y = m
          BY <3>2, <4>4, <5>2, <5>3
        <5>4. CASE y # m
          <6>1. y <= m - 1
            BY <4>5, <5>4
          <6>2. f[y] = [x \in Nat |-> IF y = 0 THEN x ELSE f[x % y][y]]
            BY <4>2, <6>1
          <6>3. QED BY <4>4, <5>2, <5>4, <6>2
        <5>5. QED BY <5>3, <5>4
      <4>6. Upto(g, m)
        BY <4>4, <4>5
      <4>7. QED BY <4>6
    <3>3. QED BY <3>1, <3>2
  <2>2. 0..b \subseteq With
    <3> HIDE DEF With
    <3>1. QED BY <2>1, Everywhere
  <2>3. PICK g : Upto(g, b)
    <3>1. b \in With
      <4> HIDE DEF With
      <4>1. QED BY <2>2
    <3>2. QED BY <3>1
  <2>4. Is(g)
    BY <2>3
  <2>5. QED BY <2>4
<1>2. Is(of)
  <2> HIDE DEF Is
  <2>1. QED BY <1>1
<1> HIDE DEF of
<1>3. \A y \in 0..b, x \in Nat : of[y][x] = IF y = 0 THEN x ELSE of[x % y][y]
  BY <1>2
<1> DEFINE S == {y \in 0..b : y # 0 => \A x \in Nat : of[y][x] \in 1..y}
<1>4. ASSUME NEW y \in 0..b, 0..(y - 1) \subseteq S PROVE y \in S
  <2>1. SUFFICES ASSUME y # 0, NEW x \in Nat PROVE of[y][x] \in 1..y
    OBVIOUS
  <2>2. x % y \in 0..(y - 1) /\ x % y \in 0..b
    BY <2>1
  <2>3. of[y][x] = of[x % y][y]
    BY <1>3, <2>1
  <2>4. CASE x % y = 0
    <3>1. of[x % y][y] = y
      BY <1>3, <2>2, <2>4
    <3>2. QED BY <2>1, <2>3, <3>1
  <2>5. CASE x % y # 0
    <3>1. of[x % y][y] \in 1..(x % y)
      BY <1>4, <2>2, <2>5
    <3>2. QED BY <2>2, <2>3, <3>1
  <2>6. QED BY <2>4, <2>5
<1>5. 0..b \subseteq S
  <2> HIDE DEF S
  <2>1. QED BY <1>4, Everywhere
<1>6. of[b][a] \in 1..b
  BY <1>5
<1>7. gcd(a, b) = of[b][a]
  BY Zenon DEF gcd, of
<1>8. QED BY <1>6, <1>7

(* Two neighbouring blocks of the vector, none of them empty.               *)
Blocks(start, end, to) ==
  start \in Nat /\ end \in Nat /\ to \in Nat /\ start < end /\ end < to

\* The cycles stay between the blocks' ends.
LEMMA PositionsInside ==
  ASSUME NEW start, NEW end, NEW to, Blocks(start, end, to), NEW cstart \in start..(to - 1)
  PROVE  /\ Len(Positions(cstart, start, end, to)) \in Nat
         /\ DOMAIN Positions(cstart, start, end, to) = 1..Len(Positions(cstart, start, end, to))
         /\ \A j \in DOMAIN Positions(cstart, start, end, to) : Positions(cstart, start, end, to)[j] \in start..(to - 1)
<1> USE DEF Blocks
<1> DEFINE g == gcd(end - start, to - end)
           n == (to - start) \div g
           V == start..(to - 1)
           after(before) == IF before >= end THEN before - (end - start) ELSE before + (to - end)
           Is(pos) == pos = [j \in 0..n |-> IF j = 0 THEN cstart
                                ELSE LET before == pos[j - 1] IN IF before >= end THEN before - (end - start) ELSE before + (to - end)]
           pos == CHOOSE p : Is(p)
<1>1. g \in 1..(to - end)
  BY DivisorOfBoth
<1> HIDE DEF g
<1>2. n \in Nat
  <2>1. to - start \in Nat /\ g \in Nat \ {0}
    BY <1>1
  <2>2. QED BY <2>1
<1> HIDE DEF n
<1> DEFINE step == [p \in V \X (1..n) |-> after(p[1])]
<1>3. step \in [V \X (1..n) -> V]
  <2>1. \A before \in V : after(before) \in V
    OBVIOUS
  <2> HIDE DEF V, after
  <2>2. QED BY <2>1
<1>4. \E f \in [0..n -> V] : f[0] = cstart /\ \A k \in 1..n : f[k] = step[<<f[k - 1], k>>]
  <2>1. Steps(n, V, cstart, step)
    BY <1>2, <1>3 DEF Steps
  <2> HIDE DEF step, V
  <2>2. QED BY <2>1, Iteration
<1>5. PICK f \in [0..n -> V] : f[0] = cstart /\ \A k \in 1..n : f[k] = step[<<f[k - 1], k>>]
  BY <1>4
<1>6. Is(f)
  <2>1. \A k \in 0..n : k # 0 => k - 1 \in 0..n /\ k \in 1..n
    BY <1>2
  <2>2. \A k \in 0..n : k # 0 => f[k] = after(f[k - 1])
    BY <1>5, <2>1
  <2>3. QED BY <1>5, <2>2
<1>7. Is(pos)
  <2> HIDE DEF Is
  <2>1. QED BY <1>6
<1> HIDE DEF pos
<1>8. pos[0] = cstart /\ \A k \in 1..n : pos[k] = after(pos[k - 1])
  <2>1. 0 \in 0..n /\ \A k \in 1..n : k \in 0..n /\ k # 0
    BY <1>2
  <2>2. QED BY <1>7, <2>1
<1>9. \A k \in 0..n : pos[k] \in V
  <2>1. \A k \in 1..n : pos[k - 1] \in V => pos[k] \in V
    BY <1>8
  <2>0. pos[0] \in V
    BY <1>8
  <2> HIDE DEF V, after
  <2>2. QED BY <1>2, <2>0, <2>1, Kept
<1>10. Positions(cstart, start, end, to) = [j \in 1..(n + 1) |-> pos[j - 1]]
  BY Zenon DEF Positions, pos, n, g
<1>11. QED
  <2> DEFINE ps == [j \in 1..(n + 1) |-> pos[j - 1]]
  <2>1. DOMAIN ps = 1..(n + 1) /\ n + 1 \in Nat
    BY <1>2
  <2>2. \A j \in 1..(n + 1) : j - 1 \in 0..n
    BY <1>2
  <2>3. \A j \in DOMAIN ps : ps[j] \in V
    BY <1>9, <2>1, <2>2
  <2> HIDE DEF ps
  <2>4. Len(ps) = n + 1
    BY <2>1
  <2>5. QED BY <1>10, <2>1, <2>3, <2>4 DEF ps

\* A cycle moves elements of the vector within the blocks.
LEMMA CycleKeeps ==
  ASSUME NEW start, NEW end, NEW to, Blocks(start, end, to), NEW cstart \in start..(to - 1),
         NEW D, NEW S, start..(to - 1) \subseteq D, NEW v \in [D -> S]
  PROVE  Cycle(v, cstart, start, end, to) \in [D -> S]
<1> DEFINE pos == Positions(cstart, start, end, to)
           visited == {pos[j] : j \in 2..Len(pos)}
           moved(p) == CHOOSE j \in 2..Len(pos) : pos[j] = p
           new == [p \in D |-> IF p \in visited THEN v[pos[moved(p) - 1]] ELSE v[p]]
<1>1. Len(pos) \in Nat /\ DOMAIN pos = 1..Len(pos) /\ \A j \in DOMAIN pos : pos[j] \in D
  BY PositionsInside
<1>2. Cycle(v, cstart, start, end, to) = new
  BY Zenon DEF Cycle
<1> HIDE DEF pos
<1>3. ASSUME NEW p \in visited PROVE v[pos[moved(p) - 1]] \in S
  <2>1. moved(p) \in 2..Len(pos)
    BY <1>3
  <2>2. moved(p) - 1 \in DOMAIN pos
    <3> HIDE DEF moved
    <3>1. QED BY <1>1, <2>1
  <2>3. QED BY <1>1, <2>2
<1>4. new \in [D -> S]
  <2> HIDE DEF moved, visited
  <2>1. QED BY <1>3
<1>5. QED BY <1>2, <1>4

LEMMA ExchangedKeeps ==
  ASSUME NEW start, NEW end, NEW to, Blocks(start, end, to),
         NEW D, NEW S, start..(to - 1) \subseteq D, argv \in [D -> S]
  PROVE  Exchanged(start, end, to) \in [D -> S]
<1> DEFINE V == [D -> S]
           ncycle == gcd(end - start, to - end)
           Is(of) == of = [i \in 0..ncycle |-> IF i = 0 THEN argv ELSE Cycle(of[i - 1], end + i - 1, start, end, to)]
           after == CHOOSE of : Is(of)
           step == [p \in V \X (1..ncycle) |-> Cycle(p[1], end + p[2] - 1, start, end, to)]
<1>1. ncycle \in 1..(to - end) /\ ncycle \in Nat
  BY DivisorOfBoth DEF Blocks
<1> HIDE DEF ncycle
<1>2. ASSUME NEW v \in V, NEW i \in 1..ncycle PROVE Cycle(v, end + i - 1, start, end, to) \in V
  <2>1. end + i - 1 \in start..(to - 1)
    BY <1>1 DEF Blocks
  <2>2. QED BY <2>1, CycleKeeps
<1>3. Steps(ncycle, V, argv, step)
  <2> HIDE DEF V
  <2>1. step \in [V \X (1..ncycle) -> V]
    BY <1>2
  <2>2. argv \in V
    BY DEF V
  <2>3. QED BY <1>1, <2>1, <2>2 DEF Steps
<1>4. PICK f \in [0..ncycle -> V] : f[0] = argv /\ \A k \in 1..ncycle : f[k] = step[<<f[k - 1], k>>]
  <2> HIDE DEF step, V
  <2>1. QED BY <1>3, Iteration
<1>5. Is(f)
  <2> HIDE DEF V
  <2>1. \A k \in 0..ncycle : k # 0 => k - 1 \in 0..ncycle /\ k \in 1..ncycle
    BY <1>1
  <2>2. \A k \in 0..ncycle : k # 0 => f[k - 1] \in V
    BY <1>4, <2>1
  <2>3. \A k \in 0..ncycle : k # 0 => f[k] = Cycle(f[k - 1], end + k - 1, start, end, to)
    BY <1>4, <2>1, <2>2
  <2>4. QED BY <1>4, <2>3
<1>6. Is(after)
  <2> HIDE DEF Is
  <2>1. QED BY <1>5
<1> HIDE DEF after
<1>7. \A k \in 1..ncycle : after[k] = Cycle(after[k - 1], end + k - 1, start, end, to)
  <2>1. \A k \in 1..ncycle : k \in 0..ncycle /\ k # 0
    BY <1>1
  <2>2. QED BY <1>6, <2>1
<1>8. after[0] = argv
  BY <1>1, <1>6
<1>9. \A k \in 0..ncycle : after[k] \in V
  <2>1. \A k \in 1..ncycle : after[k - 1] \in V => after[k] \in V
    BY <1>2, <1>7
  <2>2. after[0] \in V
    BY <1>8
  <2> HIDE DEF V
  <2>3. QED BY <1>1, <2>1, <2>2, Kept
<1>10. Exchanged(start, end, to) = after[ncycle]
  BY Zenon DEF Exchanged, after, ncycle
<1>11. QED BY <1>1, <1>9, <1>10

\* Sequences put one behind the other stay in what holds the empty one and
\* whatever two of its members make.
LEMMA FlattenKept ==
  ASSUME NEW n \in Nat, NEW V, <<>> \in V, \A p, q \in V : p \o q \in V, NEW seqs \in [1..n -> V]
  PROVE  FlattenSeq(seqs) \in V
<1>1. Len(seqs) = n
  OBVIOUS
<1>2. CASE n = 0
  <2>1. FlattenSeq(seqs) = seqs
    BY <1>1, <1>2 DEF FlattenSeq
  <2>2. seqs = <<>>
    BY <1>2
  <2>3. QED BY <2>1, <2>2
<1>3. CASE n # 0
  <2> DEFINE Is(of) == of = [i \in 1..Len(seqs) |-> IF i = 1 THEN seqs[i] ELSE of[i - 1] \o seqs[i]]
             flatten == CHOOSE of : Is(of)
             m == n - 1
             step == [p \in V \X (1..m) |-> p[1] \o seqs[p[2] + 1]]
  <2>1. m \in Nat /\ \A k \in 1..m : k + 1 \in 1..n
    BY <1>3
  <2>2. \A v \in V, k \in 1..m : v \o seqs[k + 1] \in V
    BY <2>1
  <2>3. Steps(m, V, seqs[1], step)
    <3>1. seqs[1] \in V
      BY <1>3
    <3>2. step \in [V \X (1..m) -> V]
      BY <2>2
    <3>3. QED BY <2>1, <3>1, <3>2 DEF Steps
  <2>4. PICK f \in [0..m -> V] : f[0] = seqs[1] /\ \A k \in 1..m : f[k] = step[<<f[k - 1], k>>]
    <3> HIDE DEF step, m
    <3>1. QED BY <2>3, Iteration
  <2>5. ASSUME NEW k \in 1..m PROVE f[k] = f[k - 1] \o seqs[k + 1]
    <3>1. f[k - 1] \in V
      BY <2>1, <2>4
    <3>2. QED BY <2>4, <3>1
  <2> DEFINE g == [i \in 1..n |-> f[i - 1]]
  <2>6. Is(g)
    <3>1. ASSUME NEW i \in 1..n PROVE g[i] = IF i = 1 THEN seqs[i] ELSE g[i - 1] \o seqs[i]
      <4>1. CASE i = 1
        BY <2>4, <4>1
      <4>2. CASE i # 1
        <5>1. i - 1 \in 1..m /\ i - 1 \in 1..n
          BY <2>1, <4>2
        <5> HIDE DEF m
        <5>2. f[i - 1] = f[i - 1 - 1] \o seqs[i - 1 + 1]
          BY <2>5, <5>1
        <5>3. QED BY <4>2, <5>1, <5>2
      <4>3. QED BY <4>1, <4>2
    <3>2. g = [i \in 1..n |-> g[i]]
      OBVIOUS
    <3> HIDE DEF g
    <3>3. QED BY <1>1, <3>1, <3>2
  <2>7. Is(flatten)
    <3> HIDE DEF Is
    <3>1. QED BY <2>6
  <2> HIDE DEF flatten
  <2>8. flatten[1] = seqs[1] /\ \A k \in 1..m : flatten[k + 1] = flatten[k] \o seqs[k + 1]
    <3>1. 1 \in 1..n /\ \A k \in 1..m : k + 1 # 1 /\ (k + 1) - 1 = k
      BY <1>3, <2>1
    <3>2. QED BY <1>1, <2>1, <2>7, <3>1
  <2> DEFINE h == [k \in 0..m |-> flatten[k + 1]]
  <2>9. \A k \in 0..m : h[k] \in V
    <3>1. h[0] \in V
      BY <1>3, <2>1, <2>8
    <3>2. ASSUME NEW k \in 1..m, h[k - 1] \in V PROVE h[k] \in V
      <4>1. h[k - 1] = flatten[k] /\ h[k] = flatten[k + 1]
        BY <2>1
      <4>2. QED BY <2>2, <2>8, <3>2, <4>1
    <3> HIDE DEF h
    <3>3. QED BY <2>1, <3>1, <3>2, Kept
  <2>10. flatten[n] = h[m] /\ m \in 0..m
    BY <2>1
  <2>11. FlattenSeq(seqs) = flatten[Len(seqs)]
    <3>1. Len(seqs) # 0
      BY <1>1, <1>3
    <3>2. QED BY <3>1, Zenon DEF FlattenSeq, flatten
  <2>12. QED BY <1>1, <2>9, <2>10, <2>11
<1>4. QED BY <1>2, <1>3

LEMMA FlattenType ==
  ASSUME NEW n \in Nat, NEW S, NEW seqs \in [1..n -> Seq(S)]
  PROVE  FlattenSeq(seqs) \in Seq(S)
<1>1. <<>> \in Seq(S) /\ \A p, q \in Seq(S) : p \o q \in Seq(S)
  BY ConcatProperties
<1>2. QED BY <1>1, FlattenKept

-----------------------------------------------------------------------------
(* The invariant behind ErrorsReported and NamesSplit.  getopt's places    *)
(* are in the vector, and skipped arguments lie in front of where it       *)
(* reads (PlacesOK); what it reads begins with a dash, and the letters     *)
(* that were read take no text (PlaceOK); so the argument in front of      *)
(* optind is the one an error is about when it is registered.              *)

(* What the constructors make of a table, and words as they were given.    *)
TableFit ==
  /\ EndIndex(table) \in Nat
  /\ \A i \in Indices(table) :
       /\ table[i].kind \in Kinds /\ table[i].short \in Texts /\ table[i].long \in Seq(Texts)
       /\ table[i].kind = "rem" => Untagged(table[i])
       /\ table[i].min \in Nat /\ table[i].max \in Nat
       /\ "glossary" \in DOMAIN table[i] => table[i].glossary \in Texts
VectorOK == given \in Seq(Texts) /\ argv \in [1..Len(given) -> Range(given)]

(* Skipped arguments end in front of optind, or at an option at optind.    *)
AtOptionWord(i) == i <= Len(argv) /\ IsOption(argv[i]) /\ argv[i] # DashDash
PlacesOK ==
  /\ optind \in 1..(Len(argv) + 1)
  /\ Skipped => nonopt_start \in 1..(optind - 1)
  /\ Pending => Skipped /\ nonopt_end \in (nonopt_start + 1)..optind
  /\ nonopt_end = optind => AtOptionWord(optind)
(* The first n characters of a word are read: letters that take no text.   *)
Consumed(word, n) ==
  /\ n \in 1..(Len(word) - 1) /\ word[1] = "-"
  /\ \A k \in 2..n : word[k] # "-" /\ (KnownLetter(table, word[k]) => table[FindShortOption(table, word[k])].value = "no")
PlaceOK ==
  place # <<>> =>
    /\ optind \in 1..Len(argv)
    /\ \E n \in 2..Len(argv[optind]) : Consumed(argv[optind], n) /\ place = From(argv[optind], n + 1)
(* Where the walks over the vector and over the table are.                 *)
Walking ==
  /\ phase = "tagged" /\ optind # 0 => PlacesOK /\ PlaceOK
  /\ phase = "untagged" => optind \in Nat \ {0}
  /\ phase \in {"untagged", "check"} => tabindex \in Nat \ {0}

(* An error of an entry has a message of the entry's kind, and one about   *)
(* an option names the option.                                             *)
NoLoop == \A j \in DOMAIN given : ~Endless(given[j])
Foreseen(error) ==
  error.parent = TERMINATOR \/ EntryMessage(table[error.parent].kind, error).what # ""
Codes == {"EMISSARG", "ELONGOPT"}
AsGiven(error) ==
  error.code \in Codes /\ NoLoop => error.text \in Range(given) /\ (error.text = <<>> \/ error.text[1] = "-")
Reported(error) == Foreseen(error) /\ AsGiven(error)
Refusal(error) == Foreseen(error) /\ error.code \notin Codes
ErrorsOK ==
  /\ phase # "reset" => \A k \in DOMAIN errors : Reported(errors[k])
  /\ tentative # NoError => Refusal(tentative)

(* What a file entry holds was split from a text.                          *)
FileOK(v) == v.filename # NoText => \E t \in Texts : v = Named(t, BaseName(t))
ValuesOK ==
  /\ DOMAIN values = Indices(table)
  /\ phase # "reset" =>
       \A i \in Indices(table) :
         /\ \E T : values[i] \in Seq(T)
         /\ table[i].kind = "file" => \A j \in DOMAIN values[i] : FileOK(values[i][j])

RInv == TableFit /\ VectorOK /\ Walking /\ ErrorsOK /\ ValuesOK
-----------------------------------------------------------------------------
AllReported(list) == \A k \in DOMAIN list : Reported(list[k])

LEMMA RegisteredReported ==
  ASSUME NEW limit \in Nat \ {0}, NEW list, Fitting(list, limit), AllReported(list), NEW error, Reported(error)
  PROVE  AllReported(Registered(list, limit, error))
<1> DEFINE full == [code |-> "ELIMIT", parent |-> TERMINATOR, text |-> NoText]
<1>0. Reported(full)
  BY DEF Reported, Foreseen, AsGiven, Codes
<1>1. PICK T : list \in Seq(T)
  BY DEF Fitting
<1>2. Len(list) \in Nat /\ Len(list) <= limit /\ DOMAIN list = 1..Len(list)
  BY <1>1, LenProperties DEF Fitting
<1>3. CASE Len(list) < limit
  <2>1. Registered(list, limit, error) = Append(list, error)
    BY <1>3 DEF Registered
  <2>2. /\ Append(list, error) \in Seq(T \cup {error}) /\ Len(Append(list, error)) = Len(list) + 1
        /\ \A k \in 1..Len(list) : Append(list, error)[k] = list[k]
        /\ Append(list, error)[Len(list) + 1] = error
    <3>1. list \in Seq(T \cup {error})
      BY <1>1, SeqMonotonic
    <3>2. QED BY <3>1, AppendProperties
  <2>3. DOMAIN Append(list, error) = 1..(Len(list) + 1)
    BY <2>2
  <2>4. \A k \in 1..(Len(list) + 1) : k \in 1..Len(list) \/ k = Len(list) + 1
    BY <1>2
  <2>5. QED BY <1>2, <2>1, <2>2, <2>3, <2>4 DEF AllReported
<1>4. CASE ~(Len(list) < limit)
  <2>1. Registered(list, limit, error) = [list EXCEPT ![limit] = full]
    BY <1>4 DEF Registered
  <2>2. limit \in DOMAIN list
    BY <1>2, <1>4
  <2> HIDE DEF full
  <2>3. QED BY <1>0, <2>1, <2>2 DEF AllReported
<1>5. QED BY <1>3, <1>4

LEMMA ScanErrors ==
  /\ \A v : Accepted(v).error = "" /\ Accepted(v).value = v
  /\ \A code : Fault(code).error = code
  BY DEF Accepted, Fault

(* A refusal has a message of its entry's kind.                            *)
LEMMA ScanRefuses ==
  ASSUME NEW e, e.kind \in Kinds \ {"rem"}, NEW list, NEW text, NEW i, NEW said,
         Scan(e, list, text).error # ""
  PROVE  LET code == Scan(e, list, text).error IN
         EntryMessage(e.kind, Error(code, i, said)).what # "" /\ code \notin Codes
<1> DEFINE code == Scan(e, list, text).error
<1>1. CASE Len(list) = e.max
  BY <1>1 DEF Scan, Fault, EntryMessage, Error, Says, Codes
<1>2. CASE Len(list) # e.max
  <2>0. Scan(e, list, text) = ScanText(e, text)
    BY <1>2 DEF Scan
  <2>1. CASE e.kind = "lit" \/ (text = NoText /\ e.kind # "file")
    <3>1. ScanText(e, text) = Accepted(NoText)
      BY <2>1 DEF ScanText
    <3>2. QED BY <2>0, <3>1, ScanErrors
  <2>2. CASE e.kind = "file"
    <3>1. ScanText(e, text) = Accepted(IF text = NoText THEN Named(NoText, <<>>) ELSE Named(text, BaseName(text)))
      BY <2>2 DEF ScanText
    <3>2. QED BY <2>0, <3>1, ScanErrors
  <2>8. CASE e.kind = "str" /\ text # NoText
    <3>1. ScanText(e, text) = Accepted(text)
      BY <2>8 DEF ScanText
    <3>2. QED BY <2>0, <3>1, ScanErrors
  <2>3. CASE e.kind = "int" /\ text # NoText
    <3>1. Scan(e, list, text) = IntScan(text)
      BY <2>0, <2>3 DEF ScanText
    <3>2. IntScan(text).error \in {"", "BADINT", "OVERFLOW"}
      BY Zenon DEF IntScan, IntRead, IntOf, Fault
    <3>3. QED BY <2>3, <3>1, <3>2 DEF EntryMessage, Error, Says, Codes
  <2>4. CASE e.kind = "dbl" /\ text # NoText
    <3>1. ScanText(e, text) = IF text \in Doubles THEN Accepted(text) ELSE Fault("BADDOUBLE")
      BY <2>4 DEF ScanText
    <3>2. ScanText(e, text).error \in {"", "BADDOUBLE"}
      BY <3>1, ScanErrors
    <3>3. QED BY <2>0, <2>4, <3>2 DEF EntryMessage, Error, Says, Codes
  <2>5. CASE e.kind = "rex" /\ text # NoText
    <3>1. ScanText(e, text) = IF Matches(e, text) THEN Accepted(text) ELSE Fault("REGNOMATCH")
      BY <2>5 DEF ScanText
    <3>2. ScanText(e, text).error \in {"", "REGNOMATCH"}
      BY <3>1, ScanErrors
    <3>3. QED BY <2>0, <2>5, <3>2 DEF EntryMessage, Error, Says, Codes
  <2>6. CASE e.kind = "date" /\ text # NoText
    <3>1. Scan(e, list, text) = DateRead(text, Strptime(text, e.format, e.left))
      BY <2>0, <2>6 DEF ScanText
    <3>2. \A read : DateRead(text, read).error \in {"", "BADDATE"}
      BY DEF DateRead, Accepted, Fault
    <3>3. QED BY <2>6, <3>1, <3>2 DEF EntryMessage, Error, Says, Codes
  <2>7. QED BY <2>1, <2>2, <2>3, <2>4, <2>5, <2>6, <2>8 DEF Kinds
<1>3. QED BY <1>1, <1>2

-----------------------------------------------------------------------------
(* What a scan adds to the errors and to the values.                       *)

\* What is said of errors depends on what never changes.
LEMMA ErrorsStillOK ==
  ASSUME UNCHANGED fixed, AllReported(errors'), tentative' # NoError => Refusal(tentative')
  PROVE  ErrorsOK'
<1>1. table' = table /\ given' = given
  BY DEF fixed
<1>2. NoLoop' = NoLoop
  BY <1>1 DEF NoLoop, Endless
<1>3. (\A k \in DOMAIN errors : Reported(errors[k]))'
  BY <1>1, <1>2 DEF AllReported, Reported, Foreseen, AsGiven
<1>4. (tentative # NoError => Refusal(tentative))'
  BY <1>1 DEF Refusal, Foreseen, NoError, Error
<1>5. QED BY <1>3, <1>4 DEF ErrorsOK

LEMMA ScannedReported ==
  ASSUME TableFit, Bounded, NEW i \in Indices(table), ~Untagged(table[i]) \/ table[i].kind # "rem",
         NEW text, NEW list, Fitting(list, ErrorLimit), AllReported(list), Scanned(i, text, list)
  PROVE  AllReported(errors')
<1> DEFINE scan == Scan(table[i], values[i], text)
<1>1. table[i].kind \in Kinds \ {"rem"}
  BY DEF TableFit
<1>2. CASE scan.error = ""
  BY <1>2 DEF Scanned
<1>3. CASE scan.error # ""
  <2>1. errors' = Registered(list, ErrorLimit, Error(scan.error, i, text))
    BY <1>3 DEF Scanned
  <2>2. EntryMessage(table[i].kind, Error(scan.error, i, text)).what # "" /\ scan.error \notin Codes
    BY <1>1, <1>3, ScanRefuses
  <2>3. Reported(Error(scan.error, i, text))
    <3> HIDE DEF scan
    <3>1. Error(scan.error, i, text).parent = i /\ Error(scan.error, i, text).code = scan.error
      BY DEF Error
    <3>2. QED BY <2>2, <3>1 DEF Reported, Foreseen, AsGiven
  <2>4. QED BY <2>1, <2>3, RegisteredReported DEF Bounded
<1>4. QED BY <1>2, <1>3

LEMMA ScannedFile ==
  ASSUME NEW e, e.kind = "file", NEW text \in Texts \cup {NoText}
  PROVE  FileOK(ScanText(e, text).value)
<1> DEFINE named == IF text = NoText THEN Named(NoText, <<>>) ELSE Named(text, BaseName(text))
<1>1. ScanText(e, text) = Accepted(named)
  BY DEF ScanText
<1>2. ScanText(e, text).value = named
  <2> HIDE DEF named
  <2>1. QED BY <1>1, ScanErrors
<1>3. CASE text = NoText
  <2>1. named.filename = NoText
    BY <1>3 DEF Named
  <2>2. QED BY <1>2, <2>1 DEF FileOK
<1>4. CASE text # NoText
  <2>1. text \in Texts /\ named = Named(text, BaseName(text))
    BY <1>4
  <2> HIDE DEF named
  <2>2. QED BY <1>2, <2>1 DEF FileOK
<1>5. QED BY <1>3, <1>4

LEMMA ValuesStillOK ==
  ASSUME UNCHANGED fixed, ValuesOK, UNCHANGED values, phase # "reset"
  PROVE  ValuesOK'
  BY DEF ValuesOK, fixed, EndIndex, Indices, FileOK

LEMMA AppendedValue ==
  ASSUME UNCHANGED fixed, ValuesOK, phase # "reset", NEW i \in Indices(table), NEW v, table[i].kind = "file" => FileOK(v),
         values' = [values EXCEPT ![i] = Append(@, v)]
  PROVE  ValuesOK'
<1>1. table' = table /\ Indices(table)' = Indices(table)
  BY DEF fixed, Indices, EndIndex
<1>2. DOMAIN values' = Indices(table)
  BY DEF ValuesOK
<1>3. ASSUME NEW j \in Indices(table)
      PROVE  /\ \E T : values'[j] \in Seq(T)
             /\ table[j].kind = "file" => \A k \in DOMAIN values'[j] : FileOK(values'[j][k])
  <2>1. CASE j # i
    <3>1. values'[j] = values[j]
      BY <2>1 DEF ValuesOK
    <3>2. QED BY <3>1 DEF ValuesOK
  <2>2. CASE j = i
    <3>1. values'[j] = Append(values[i], v)
      BY <2>2 DEF ValuesOK
    <3>2. PICK T : values[i] \in Seq(T)
      BY DEF ValuesOK
    <3>3. values[i] \in Seq(T \cup {v})
      BY <3>2, SeqMonotonic
    <3>4. /\ Append(values[i], v) \in Seq(T \cup {v}) /\ Len(Append(values[i], v)) = Len(values[i]) + 1
          /\ \A k \in 1..Len(values[i]) : Append(values[i], v)[k] = values[i][k]
          /\ Append(values[i], v)[Len(values[i]) + 1] = v
      BY <3>3, AppendProperties
    <3>5. DOMAIN Append(values[i], v) = 1..(Len(values[i]) + 1) /\ DOMAIN values[i] = 1..Len(values[i]) /\ Len(values[i]) \in Nat
      BY <3>3, <3>4
    <3>6. \A k \in 1..(Len(values[i]) + 1) : k \in 1..Len(values[i]) \/ k = Len(values[i]) + 1
      BY <3>5
    <3>7. ASSUME table[j].kind = "file", NEW k \in DOMAIN values'[j] PROVE FileOK(values'[j][k])
      <4>1. k \in 1..Len(values[i]) \/ k = Len(values[i]) + 1
        BY <3>1, <3>5, <3>6
      <4>2. \A m \in DOMAIN values[i] : FileOK(values[i][m])
        BY <2>2, <3>7 DEF ValuesOK
      <4>3. QED BY <2>2, <3>1, <3>4, <3>5, <3>7, <4>1, <4>2
    <3>8. QED BY <3>1, <3>4, <3>7
  <2>3. QED BY <2>1, <2>2
<1>4. QED BY <1>1, <1>2, <1>3 DEF ValuesOK, FileOK

LEMMA ScannedValues ==
  ASSUME UNCHANGED fixed, ValuesOK, phase # "reset", NEW i \in Indices(table), NEW text \in Texts \cup {NoText},
         NEW list, Scanned(i, text, list)
  PROVE  ValuesOK'
<1> DEFINE scan == Scan(table[i], values[i], text)
<1>1. CASE scan.error = ""
  <2>1. values' = [values EXCEPT ![i] = Append(@, scan.value)]
    BY <1>1 DEF Scanned
  <2>2. scan = ScanText(table[i], text)
    <3>1. Fault("MAXCOUNT").error # ""
      BY ScanErrors
    <3>2. QED BY <1>1, <3>1 DEF Scan
  <2>3. table[i].kind = "file" => FileOK(scan.value)
    BY <2>2, ScannedFile
  <2> HIDE DEF scan
  <2>4. QED BY <2>1, <2>3, AppendedValue
<1>2. CASE scan.error # ""
  <2>1. UNCHANGED values
    BY <1>2 DEF Scanned
  <2>2. QED BY <2>1, ValuesStillOK
<1>3. QED BY <1>1, <1>2

-----------------------------------------------------------------------------
(* The word that getopt reads.                                             *)

LEMMA FromProperties ==
  ASSUME NEW S, NEW w \in Seq(S), NEW i \in 1..(Len(w) + 1)
  PROVE  /\ From(w, i) \in Seq(S) /\ Len(From(w, i)) = Len(w) + 1 - i
         /\ \A k \in 1..(Len(w) + 1 - i) : From(w, i)[k] = w[i + k - 1]
         /\ From(w, i) = <<>> <=> i = Len(w) + 1
<1>1. Len(w) \in Nat
  OBVIOUS
<1>2. From(w, i) = [k \in 1..(Len(w) - i + 1) |-> w[i + k - 1]]
  BY DEF From
<1>3. Len(w) - i + 1 \in Nat /\ Len(w) - i + 1 = Len(w) + 1 - i
  OBVIOUS
<1>4. \A k \in 1..(Len(w) - i + 1) : i + k - 1 \in 1..Len(w)
  OBVIOUS
<1>5. \A k \in 1..(Len(w) - i + 1) : w[i + k - 1] \in S
  BY <1>4
<1>6. From(w, i) \in Seq(S) /\ Len(From(w, i)) = Len(w) + 1 - i
  BY <1>2, <1>3, <1>5
<1>7. \A k \in 1..(Len(w) + 1 - i) : From(w, i)[k] = w[i + k - 1]
  BY <1>2, <1>3
<1>8. From(w, i) = <<>> <=> Len(From(w, i)) = 0
  BY <1>6, EmptySeq
<1>9. QED BY <1>1, <1>6, <1>7, <1>8

LEMMA TailFrom ==
  ASSUME NEW S, NEW w \in Seq(S), NEW i \in 1..Len(w)
  PROVE  From(w, i)[1] = w[i] /\ Tail(From(w, i)) = From(w, i + 1)
<1>1. Len(w) \in Nat /\ Len(w) \in i..Len(w) /\ i \in 1..(Len(w) + 1)
  OBVIOUS
<1>2. Tail(From(w, i)) = From(w, i + 1)
  BY <1>1, HeadTailOfSubSeq DEF From
<1>3. 1 \in 1..(Len(w) + 1 - i) /\ i + 1 - 1 = i
  BY <1>1
<1>4. From(w, i)[1] = w[i]
  BY <1>1, <1>3, FromProperties
<1>5. QED BY <1>2, <1>4

LEMMA WholeWord ==
  ASSUME NEW S, NEW w \in Seq(S), w # <<>>
  PROVE  Tail(w) = From(w, 2)
  BY TailIsSubSeq DEF From

\* The argument that is read when an option is found.
LEMMA ReadingWord ==
  ASSUME VectorOK, PlacesOK, PlaceOK, AtOption
  PROVE  /\ optind \in 1..Len(argv) /\ argv[optind] \in Texts /\ argv[optind] \in Range(given)
         /\ AtOptionWord(optind) /\ argv[optind][1] = "-"
         /\ \E n \in Nat : Consumed(argv[optind], n) /\ Word = From(argv[optind], n + 1)
<1>0. Len(argv) \in Nat /\ DOMAIN argv = 1..Len(argv) /\ Len(argv) = Len(given)
  BY DEF VectorOK
<1>1. optind \in 1..Len(argv)
  <2>1. CASE Rescan
    BY <1>0, <2>1 DEF AtOption, Exhausted, PlacesOK
  <2>2. CASE ~Rescan
    BY <2>2 DEF Rescan, PlaceOK
  <2>3. QED BY <2>1, <2>2
<1> DEFINE w == argv[optind]
<1>2. w \in Texts /\ w \in Range(given)
  <2>1. w \in Range(given)
    BY <1>0, <1>1 DEF VectorOK
  <2>2. \A x \in Range(given) : x \in Texts
    BY DEF VectorOK, Range
  <2>3. QED BY <2>1, <2>2
<1>6. Len(w) \in Nat
  BY <1>2, LenProperties DEF Texts
<1> HIDE DEF w
<1>3. CASE Rescan
  <2>1. IsOption(w) /\ w # DashDash
    BY <1>3 DEF AtOption, w
  <2>2. Len(w) > 1 /\ w[1] = "-" /\ Len(w) \in Nat
    BY <1>6, <2>1 DEF IsOption
  <2>3. Consumed(w, 1)
    BY <2>2 DEF Consumed
  <2>4. Word = From(w, 2)
    <3>1. w # <<>>
      BY <2>2
    <3>2. QED BY <1>2, <1>3, <3>1, WholeWord DEF Word, Texts, w
  <2>5. AtOptionWord(optind)
    BY <1>1, <2>1 DEF AtOptionWord, w
  <2>6. QED BY <1>1, <1>2, <2>2, <2>3, <2>4, <2>5 DEF w
<1>4. CASE ~Rescan
  <2>1. PICK n \in 2..Len(w) : Consumed(w, n) /\ place = From(w, n + 1)
    BY <1>4 DEF Rescan, PlaceOK, w
  <2>2. n \in Nat /\ Len(w) \in Nat /\ n <= Len(w) - 1 /\ w[1] = "-" /\ w[2] # "-"
    BY <1>6, <2>1 DEF Consumed
  <2>3. w # DashDash /\ Len(w) > 1
    BY <2>1, <2>2 DEF DashDash
  <2>4. AtOptionWord(optind)
    BY <1>1, <2>2, <2>3 DEF AtOptionWord, IsOption, w
  <2>5. QED BY <1>1, <1>2, <1>4, <2>1, <2>2, <2>4 DEF Word, w
<1>5. QED BY <1>3, <1>4

-----------------------------------------------------------------------------
(* What getopt makes of a long option.                                     *)

TaggedEntries == {i \in Indices(table) : ~Untagged(table[i])}

LEMMA KnownLetterEntry ==
  ASSUME TableFit, NEW c, KnownLetter(table, c)
  PROVE  FindShortOption(table, c) \in TaggedEntries
<1> DEFINE having == {i \in Indices(table) : c \in Range(table[i].short)}
<1>1. having \cup {EndIndex(table)} \subseteq Nat
  BY DEF TableFit, Indices
<1>2. FindShortOption(table, c) \in having \cup {EndIndex(table)}
  <2> HIDE DEF having
  <2>1. Min(having \cup {EndIndex(table)}) \in having \cup {EndIndex(table)}
    BY <1>1, LeastPlace
  <2>2. QED BY <2>1 DEF FindShortOption, having
<1>3. FindShortOption(table, c) \in having
  BY <1>2 DEF KnownLetter
<1>4. Range(<<>>) = {}
  BY DEF Range
<1>5. QED BY <1>3, <1>4 DEF Untagged, TaggedEntries

LEMMA LongOptionEntries ==
  ASSUME TableFit
  PROVE  /\ Len(LongOptions(table)) \in Nat /\ DOMAIN LongOptions(table) = 1..Len(LongOptions(table))
         /\ \A k \in 1..Len(LongOptions(table)) : LongOptions(table)[k].val \in TaggedEntries
<1> DEFINE option(i, j) == [name |-> table[i].long[j], has_arg |-> table[i].value, val |-> i]
           S == UNION {{option(i, j) : j \in DOMAIN table[i].long} : i \in Indices(table)}
           seqs == [i \in Indices(table) |-> [j \in DOMAIN table[i].long |-> option(i, j)]]
           n == IF EndIndex(table) = 0 THEN 0 ELSE EndIndex(table) - 1
<1>1. n \in Nat /\ Indices(table) = 1..n
  BY DEF TableFit, Indices
<1> HIDE DEF n
<1>2. ASSUME NEW i \in Indices(table) PROVE [j \in DOMAIN table[i].long |-> option(i, j)] \in Seq(S)
  <2>1. DOMAIN table[i].long = 1..Len(table[i].long) /\ Len(table[i].long) \in Nat
    BY LenProperties DEF TableFit
  <2>2. \A j \in DOMAIN table[i].long : option(i, j) \in S
    OBVIOUS
  <2> HIDE DEF option, S
  <2>3. QED BY <2>1, <2>2
<1>3. seqs \in [1..n -> Seq(S)]
  <2> HIDE DEF option, S
  <2>1. QED BY <1>1, <1>2
<1>4. LongOptions(table) \in Seq(S)
  <2>1. LongOptions(table) = FlattenSeq(seqs)
    BY DEF LongOptions
  <2> HIDE DEF seqs, S
  <2>2. QED BY <1>1, <1>3, <2>1, FlattenType
<1>5. \A o \in S : o.val \in TaggedEntries
  <2>1. SUFFICES ASSUME NEW i \in Indices(table), NEW j \in DOMAIN table[i].long PROVE option(i, j).val \in TaggedEntries
    OBVIOUS
  <2>2. table[i].long # <<>>
    BY <2>1
  <2>3. QED BY <2>2 DEF Untagged, TaggedEntries
<1> HIDE DEF S
<1>6. Len(LongOptions(table)) \in Nat /\ \A k \in 1..Len(LongOptions(table)) : LongOptions(table)[k] \in S
  BY <1>4, LenProperties, ElementOfSeq
<1>7. DOMAIN LongOptions(table) = 1..Len(LongOptions(table))
  BY <1>4, LenProperties
<1>8. QED BY <1>5, <1>6, <1>7

LEMMA NameProperties ==
  ASSUME NEW word \in Texts
  PROVE  /\ Len(NameOf(word)) \in 0..Len(word)
         /\ HasEqual(word) => TextOf(word) \in Texts
<1> DEFINE ends == {i \in DOMAIN word : word[i] = "="} \cup {Len(word) + 1}
<1>1. Len(word) \in Nat /\ DOMAIN word = 1..Len(word)
  BY LenProperties DEF Texts
<1>2. ends \subseteq Nat /\ ends # {} /\ ends \subseteq 1..(Len(word) + 1)
  BY <1>1
<1>3. Min(ends) \in 1..(Len(word) + 1)
  <2> HIDE DEF ends
  <2>1. QED BY <1>2, LeastPlace
<1> DEFINE last == Min(ends) - 1
<1>4. last \in 0..Len(word)
  <2> HIDE DEF ends
  <2>1. QED BY <1>1, <1>3
<1>5. NameOf(word) = SubSeq(word, 1, last)
  BY DEF NameOf
<1> HIDE DEF last
<1>6. Len(NameOf(word)) = last
  <2>1. SubSeq(word, 1, last) = [k \in 1..last |-> word[k]]
    BY <1>4
  <2>2. QED BY <1>1, <1>4, <1>5, <2>1
<1>7. ASSUME HasEqual(word) PROVE TextOf(word) \in Texts
  <2>1. last + 2 \in 1..(Len(word) + 1)
    BY <1>1, <1>4, <1>6, <1>7 DEF HasEqual
  <2>2. From(word, last + 2) \in Texts
    BY <2>1, FromProperties DEF Texts
  <2>3. QED BY <1>6, <2>2 DEF TextOf
<1>8. QED BY <1>4, <1>6, <1>7

\* What a long option comes to.
OutcomeFits(o) ==
  /\ o.next \in (optind + 1)..(Len(argv) + 1)
  /\ o.error \in Codes => o.next = optind + 1
  /\ o.error = "" =>
       /\ o.val \in TaggedEntries /\ o.text \in Texts \cup {NoText}
       /\ o.text = <<>> => o.next = optind + 1 \/ (o.next = optind + 2 /\ argv[optind + 1] = <<>>)

LEMMA NoCodes == "" \notin Codes /\ NoText # <<>>
  BY DEF Codes, NoText

(* The forms of the result of parse_long_options.                          *)
LongForm(o) ==
  \/ \E error \in Codes : o = Problem(error, optind + 1)
  \/ \E i \in TaggedEntries, t \in Texts \cup {NoText} :
       \E n \in (optind + 1)..(Len(argv) + 1) :
         /\ o = Found(i, t, n)
         /\ t = <<>> => n = optind + 1 \/ (n = optind + 2 /\ argv[optind + 1] = <<>>)

LEMMA LongFormFits ==
  ASSUME VectorOK, optind \in 1..Len(argv), NEW o, LongForm(o)
  PROVE  OutcomeFits(o) /\ o.error \in Codes \cup {""}
<1>1. Len(argv) \in Nat
  BY DEF VectorOK
<1>2. ASSUME NEW error \in Codes, o = Problem(error, optind + 1) PROVE OutcomeFits(o) /\ o.error \in Codes \cup {""}
  <2>1. o.error = error /\ o.next = optind + 1
    BY <1>2 DEF Problem
  <2>2. o.next \in (optind + 1)..(Len(argv) + 1)
    BY <1>1, <2>1
  <2>3. o.error \in Codes /\ o.error # ""
    BY <1>2, <2>1, NoCodes
  <2>4. QED BY <2>1, <2>2, <2>3 DEF OutcomeFits
<1>3. ASSUME NEW i \in TaggedEntries, NEW t \in Texts \cup {NoText}, NEW n \in (optind + 1)..(Len(argv) + 1),
             o = Found(i, t, n), t = <<>> => n = optind + 1 \/ (n = optind + 2 /\ argv[optind + 1] = <<>>)
      PROVE  OutcomeFits(o) /\ o.error \in Codes \cup {""}
  <2>1. o.error = "" /\ o.val = i /\ o.text = t /\ o.next = n
    BY <1>3 DEF Found
  <2>2. QED BY <1>3, <2>1, NoCodes DEF OutcomeFits
<1>4. QED BY <1>2, <1>3 DEF LongForm

LEMMA LongOutcomeForm ==
  ASSUME TableFit, VectorOK, optind \in 1..Len(argv), NEW word \in Texts
  PROVE  LongForm(LongOutcome(word))
<1> DEFINE options == LongOptions(table)
           name == NameOf(word)
           match == Match(name, options)
           option == options[match]
           next == optind + 1
<1>1. Len(argv) \in Nat /\ optind \in Nat /\ next \in (optind + 1)..(Len(argv) + 1) /\ Len(argv) = Len(given)
  BY DEF VectorOK
<1>2. \A i \in 1..Len(argv) : argv[i] \in Texts
  BY DEF VectorOK, Range
<1>3. ASSUME ~(match > Len(options)) PROVE option.val \in TaggedEntries
  <2>1. DOMAIN options = 1..Len(options) /\ Len(options) \in Nat
    BY LongOptionEntries
  <2>2. match \in 1..(Len(options) + 1)
    <3> DEFINE exact == Exact(name, options)
               partial == Partial(name, options)
    <3>1. exact \subseteq DOMAIN options /\ partial \subseteq DOMAIN options
      BY DEF Exact, Partial
    <3>2. match = IF exact # {} THEN Min(exact) ELSE Min(partial \cup {Len(options) + 1})
      BY DEF Match
    <3> HIDE DEF exact, partial, options, match
    <3>3. exact # {} => Min(exact) \in exact
      BY <2>1, <3>1, LeastPlace
    <3>4. Min(partial \cup {Len(options) + 1}) \in partial \cup {Len(options) + 1}
      <4>1. partial \cup {Len(options) + 1} \subseteq Nat
        BY <2>1, <3>1
      <4>2. QED BY <4>1, LeastPlace
    <3>5. QED BY <2>1, <3>1, <3>2, <3>3, <3>4
  <2> HIDE DEF match
  <2>3. QED BY <1>3, <2>1, <2>2, LongOptionEntries
<1> HIDE DEF option, match
<1>4. CASE Ambiguous(name, options) \/ match > Len(options)
  <2>1. LongOutcome(word) = Problem("ELONGOPT", next)
    BY <1>4 DEF LongOutcome, match
  <2>2. QED BY <2>1 DEF LongForm, Codes
<1>5. CASE ~(Ambiguous(name, options) \/ match > Len(options))
  <2>0. option.val \in TaggedEntries
    BY <1>3, <1>5
  <2>1. CASE option.has_arg = "no" /\ HasEqual(word)
    <3>1. LongOutcome(word) = Problem("ELONGOPT", next)
      BY <1>5, <2>1 DEF LongOutcome, match, option
    <3>2. QED BY <3>1 DEF LongForm, Codes
  <2>2. CASE option.has_arg # "no" /\ HasEqual(word)
    <3>1. LongOutcome(word) = Found(option.val, TextOf(word), next)
      BY <1>5, <2>2 DEF LongOutcome, match, option
    <3>2. TextOf(word) \in Texts
      BY <2>2, NameProperties
    <3>3. QED BY <1>1, <2>0, <3>1, <3>2 DEF LongForm
  <2>3. CASE option.has_arg = "required" /\ ~HasEqual(word)
    <3>1. LongOutcome(word) = IF next > Len(argv) THEN Problem("EMISSARG", next) ELSE Found(option.val, argv[next], next + 1)
      BY <1>5, <2>3 DEF LongOutcome, match, option
    <3>2. CASE next > Len(argv)
      <4>1. LongOutcome(word) = Problem("EMISSARG", next)
        BY <3>1, <3>2
      <4>2. QED BY <4>1 DEF LongForm, Codes
    <3>3. CASE ~(next > Len(argv))
      <4>1. argv[next] \in Texts /\ next + 1 \in (optind + 1)..(Len(argv) + 1) /\ next + 1 = optind + 2
        BY <1>1, <1>2, <3>3
      <4>2. LongOutcome(word) = Found(option.val, argv[next], next + 1)
        BY <3>1, <3>3
      <4>3. QED BY <2>0, <4>1, <4>2 DEF LongForm
    <3>4. QED BY <3>2, <3>3
  <2>4. CASE ~(option.has_arg = "no" /\ HasEqual(word)) /\ ~(option.has_arg # "no" /\ HasEqual(word))
             /\ ~(option.has_arg = "required" /\ ~HasEqual(word))
    <3>1. LongOutcome(word) = Found(option.val, NoText, next)
      BY <1>5, <2>4 DEF LongOutcome, match, option
    <3>2. QED BY <1>1, <2>0, <3>1, NoCodes DEF LongForm
  <2>5. QED BY <2>1, <2>2, <2>3, <2>4
<1>6. QED BY <1>4, <1>5

LEMMA LongOutcomeFits ==
  ASSUME TableFit, VectorOK, optind \in 1..Len(argv), NEW word \in Texts
  PROVE  OutcomeFits(LongOutcome(word)) /\ LongOutcome(word).error \in Codes \cup {""}
  BY LongOutcomeForm, LongFormFits

-----------------------------------------------------------------------------
(* What getopt makes of a letter.                                          *)

Characters == STRING \ {"", "EMISSARG", "ELONGOPT"}

(* The forms of the result for a letter with what is behind it.            *)
ShortForm(o, c, rest) ==
  \/ \E n \in optind..(Len(argv) + 1) : o = Problem(c, n) /\ (Rest(c, rest) # <<>> => n = optind)
  \/ o = Problem("EMISSARG", optind + 1) /\ Rest(c, rest) = <<>>
  \/ \E i \in TaggedEntries, t \in Texts \cup {NoText} :
       \E n \in optind..(Len(argv) + 1) : o = Found(i, t, n) /\ (Rest(c, rest) # <<>> => n = optind)

\* What a letter comes to.
ShortFits(o, c, rest) ==
  /\ o.next \in optind..(Len(argv) + 1)
  /\ Rest(c, rest) # <<>> => o.next = optind
  /\ o.error \in Codes => o.next = optind + 1
  /\ o.error = "" => o.val \in TaggedEntries /\ o.text \in Texts \cup {NoText}

LEMMA ShortFormFits ==
  ASSUME VectorOK, optind \in 1..Len(argv), NEW c \in Characters, NEW rest, NEW o, ShortForm(o, c, rest)
  PROVE  ShortFits(o, c, rest)
<1>1. Len(argv) \in Nat
  BY DEF VectorOK
<1>2. ASSUME NEW n \in optind..(Len(argv) + 1), o = Problem(c, n), Rest(c, rest) # <<>> => n = optind
      PROVE  ShortFits(o, c, rest)
  <2>1. o.error = c /\ o.next = n
    BY <1>2 DEF Problem
  <2>2. c \notin Codes /\ c # ""
    BY DEF Characters, Codes
  <2>3. QED BY <1>2, <2>1, <2>2 DEF ShortFits
<1>3. ASSUME o = Problem("EMISSARG", optind + 1), Rest(c, rest) = <<>> PROVE ShortFits(o, c, rest)
  <2>1. o.error = "EMISSARG" /\ o.next = optind + 1
    BY <1>3 DEF Problem
  <2>2. o.error # "" /\ o.next \in optind..(Len(argv) + 1)
    BY <1>1, <2>1
  <2>3. QED BY <1>3, <2>1, <2>2 DEF ShortFits
<1>4. ASSUME NEW i \in TaggedEntries, NEW t \in Texts \cup {NoText}, NEW n \in optind..(Len(argv) + 1),
             o = Found(i, t, n), Rest(c, rest) # <<>> => n = optind
      PROVE  ShortFits(o, c, rest)
  <2>1. o.error = "" /\ o.val = i /\ o.text = t /\ o.next = n
    BY <1>4 DEF Found
  <2>2. QED BY <1>4, <2>1, NoCodes DEF ShortFits
<1>5. QED BY <1>2, <1>3, <1>4 DEF ShortForm

LEMMA ShortOutcomeForm ==
  ASSUME TableFit, VectorOK, optind \in 1..Len(argv), NEW c \in Characters, NEW rest \in Texts
  PROVE  ShortForm(ShortOutcome(c, rest), c, rest)
<1> DEFINE e == FindShortOption(table, c)
           value == table[e].value
           after == IF rest = <<>> THEN optind + 1 ELSE optind
<1>1. Len(argv) \in Nat /\ after \in optind..(Len(argv) + 1) /\ optind + 1 \in optind..(Len(argv) + 1)
  BY DEF VectorOK
<1>2. \A i \in 1..Len(argv) : argv[i] \in Texts
  BY DEF VectorOK, Range
<1>3. KnownLetter(table, c) => e \in TaggedEntries
  BY KnownLetterEntry
<1>4. KnownLetter(table, c) /\ value # "no" => Rest(c, rest) = <<>>
  BY DEF Rest
<1>5. ~(KnownLetter(table, c) /\ value # "no") => Rest(c, rest) = rest
  BY DEF Rest
<1> HIDE DEF e
<1>6. CASE ~KnownLetter(table, c)
  <2>1. ShortOutcome(c, rest) = Problem(c, after)
    BY <1>6 DEF ShortOutcome
  <2>2. Rest(c, rest) # <<>> => after = optind
    BY <1>5, <1>6
  <2> HIDE DEF after
  <2>3. QED BY <1>1, <2>1, <2>2 DEF ShortForm
<1>7. CASE KnownLetter(table, c) /\ value = "no"
  <2>1. ShortOutcome(c, rest) = Found(e, NoText, after)
    BY <1>7 DEF ShortOutcome, e
  <2>2. Rest(c, rest) # <<>> => after = optind
    BY <1>5, <1>7
  <2> HIDE DEF after
  <2>3. QED BY <1>1, <1>3, <1>7, <2>1, <2>2 DEF ShortForm
<1>8. CASE KnownLetter(table, c) /\ value # "no" /\ rest # <<>>
  <2>1. ShortOutcome(c, rest) = Found(e, rest, optind + 1)
    BY <1>8 DEF ShortOutcome, e
  <2>2. QED BY <1>1, <1>3, <1>4, <1>8, <2>1 DEF ShortForm
<1>9. CASE KnownLetter(table, c) /\ value = "optional" /\ rest = <<>>
  <2>1. ShortOutcome(c, rest) = Found(e, NoText, optind + 1)
    BY <1>9 DEF ShortOutcome, e
  <2>2. QED BY <1>1, <1>3, <1>4, <1>9, <2>1 DEF ShortForm
<1>10. CASE KnownLetter(table, c) /\ value \notin {"no", "optional"} /\ rest = <<>>
  <2>1. ShortOutcome(c, rest) = IF optind + 1 > Len(argv) THEN Problem("EMISSARG", optind + 1)
                                ELSE Found(e, argv[optind + 1], optind + 2)
    BY <1>10 DEF ShortOutcome, e
  <2>2. CASE optind + 1 > Len(argv)
    <3>1. ShortOutcome(c, rest) = Problem("EMISSARG", optind + 1)
      BY <2>1, <2>2
    <3>2. QED BY <1>4, <1>10, <3>1 DEF ShortForm
  <2>3. CASE ~(optind + 1 > Len(argv))
    <3>1. ShortOutcome(c, rest) = Found(e, argv[optind + 1], optind + 2)
      BY <2>1, <2>3
    <3>2. argv[optind + 1] \in Texts /\ optind + 2 \in optind..(Len(argv) + 1)
      BY <1>1, <1>2, <2>3
    <3>3. QED BY <1>3, <1>4, <1>10, <3>1, <3>2 DEF ShortForm
  <2>4. QED BY <2>2, <2>3
<1>11. QED BY <1>6, <1>7, <1>8, <1>9, <1>10

LEMMA ShortOutcomeFits ==
  ASSUME TableFit, VectorOK, optind \in 1..Len(argv), NEW c \in Characters, NEW rest \in Texts
  PROVE  ShortFits(ShortOutcome(c, rest), c, rest)
  BY ShortOutcomeForm, ShortFormFits
-----------------------------------------------------------------------------
\* A call that returns an option or an error.
LEMMA ReturnsStep ==
  ASSUME VectorOK, PlacesOK, PlaceOK, AtOption, UNCHANGED <<table, given>>,
         NEW next \in optind..(Len(argv) + 1), NEW rest, Returns(next, rest),
         rest # <<>> => /\ next = optind
                        /\ \E n \in 2..Len(argv[optind]) : Consumed(argv[optind], n) /\ rest = From(argv[optind], n + 1)
  PROVE  VectorOK' /\ PlacesOK' /\ PlaceOK'
<1>1. optind \in 1..Len(argv) /\ AtOptionWord(optind) /\ Len(argv) \in Nat
  BY ReadingWord DEF VectorOK
<1>2. argv' = argv /\ optind' = next /\ place' = rest /\ nonopt_start' = nonopt_start
  BY DEF Returns
<1>3. nonopt_end' = IF Rescan /\ Skipped /\ ~Pending THEN optind ELSE nonopt_end
  BY DEF Returns, MarkEnd
<1>4. VectorOK'
  BY <1>2 DEF VectorOK
<1>5. PlaceOK'
  BY <1>1, <1>2 DEF PlaceOK, Consumed
<1>6. PlacesOK'
  <2>1. optind' \in 1..(Len(argv') + 1) /\ (Skipped' => nonopt_start' \in 1..(optind' - 1))
    BY <1>1, <1>2 DEF PlacesOK, Skipped
  <2>2. (Pending => Skipped /\ nonopt_end \in (nonopt_start + 1)..optind)'
    BY <1>1, <1>2, <1>3 DEF PlacesOK, Skipped, Pending
  <2>3. nonopt_end' = optind' => optind' = optind
    BY <1>1, <1>2, <1>3 DEF PlacesOK, Skipped, Pending
  <2>4. (nonopt_end = optind => AtOptionWord(optind))'
    BY <1>1, <1>2, <2>3 DEF AtOptionWord
  <2>5. QED BY <2>1, <2>2, <2>4 DEF PlacesOK
<1>7. QED BY <1>4, <1>5, <1>6

-----------------------------------------------------------------------------
(* The invariant is kept by each action of the parser.                     *)

LEMMA TogetherOK ==
  ASSUME RInv, UNCHANGED fixed, VectorOK', Walking', AllReported(errors'), tentative' # NoError => Refusal(tentative'), ValuesOK'
  PROVE  RInv'
<1>1. TableFit'
  BY DEF RInv, TableFit, fixed, EndIndex, Indices
<1>2. ErrorsOK'
  BY ErrorsStillOK
<1>3. QED BY <1>1, <1>2 DEF RInv

LEMMA RefusedFits ==
  ASSUME Bounded, AllReported(errors), NEW o, Refused(o),
         o.error \in Codes /\ NoLoop =>
           Argument(o.next - 1) \in Range(given) /\ (Argument(o.next - 1) = <<>> \/ Argument(o.next - 1)[1] = "-")
  PROVE  AllReported(errors') /\ values' = values
<1> DEFINE text == IF o.error \in {"ELONGOPT", "EMISSARG"} THEN Argument(o.next - 1) ELSE NoText
           error == Error(o.error, TERMINATOR, text)
<1>1. errors' = Registered(errors, ErrorLimit, error) /\ values' = values
  BY DEF Refused, Register
<1>2. o.error \in Codes => text = Argument(o.next - 1)
  BY DEF Codes
<1> HIDE DEF text
<1>3. error.parent = TERMINATOR /\ error.code = o.error /\ error.text = text
  BY DEF Error
<1> HIDE DEF error
<1>4. Reported(error)
  BY <1>2, <1>3 DEF Reported, Foreseen, AsGiven
<1>5. QED BY <1>1, <1>4, RegisteredReported DEF Bounded

\* The word that is read begins with a dash, as it was given.
LEMMA WordGiven ==
  ASSUME VectorOK, PlacesOK, PlaceOK, AtOption
  PROVE  Argument(optind) = argv[optind] /\ Argument(optind) \in Range(given) /\ Argument(optind)[1] = "-"
<1>1. optind \in 1..Len(argv) /\ argv[optind] \in Range(given) /\ argv[optind][1] = "-"
  BY ReadingWord
<1>2. optind # 0
  BY DEF AtOption
<1>3. QED BY <1>1, <1>2 DEF Argument

\* What is left of the word, and what is left behind its first letter.
LEMMA WordRest ==
  ASSUME VectorOK, PlacesOK, PlaceOK, AtOption
  PROVE  /\ Word \in Texts /\ Word # <<>> /\ Word[1] \in Characters /\ Tail(Word) \in Texts
         /\ \E n \in Nat :
              /\ Consumed(argv[optind], n) /\ Word = From(argv[optind], n + 1)
              /\ Word[1] = argv[optind][n + 1] /\ Tail(Word) = From(argv[optind], n + 2)
<1> DEFINE w == argv[optind]
<1>1. w \in Texts
  BY ReadingWord
<1>2. PICK n \in Nat : Consumed(w, n) /\ Word = From(w, n + 1)
  BY ReadingWord
<1> HIDE DEF w
<1>3. w \in Seq(Characters) /\ Len(w) \in Nat
  BY <1>1, LenProperties DEF Texts, Characters
<1>4. n + 1 \in 1..Len(w) /\ n + 2 \in 1..(Len(w) + 1) /\ n + 1 \in 1..(Len(w) + 1) /\ (n + 1) + 1 = n + 2
  BY <1>2, <1>3 DEF Consumed
<1>5. Word[1] = w[n + 1] /\ Tail(Word) = From(w, n + 2)
  BY <1>2, <1>3, <1>4, TailFrom
<1>6. Word \in Seq(Characters) /\ Word # <<>> /\ Tail(Word) \in Seq(Characters)
  BY <1>2, <1>3, <1>4, <1>5, FromProperties
<1>7. Word[1] \in Characters
  BY <1>3, <1>4, <1>5, ElementOfSeq
<1>8. QED BY <1>2, <1>5, <1>6, <1>7 DEF Texts, Characters, w

LEMMA LongOptionReports == RInv /\ Bounded /\ LongOption => RInv'
<1> SUFFICES ASSUME RInv, Bounded, LongOption PROVE RInv'
  OBVIOUS
<1> DEFINE o == LongOutcome(Tail(Word))
           empty == o.text = <<>> /\ table[o.val].value # "no"
           missing == Error("EMISSARG", TERMINATOR, Argument(o.next - 1))
           list == IF empty THEN Registered(errors, ErrorLimit, missing) ELSE errors
<1>1. UNCHANGED fixed /\ UNCHANGED <<table, given>> /\ phase = "tagged" /\ phase' = "tagged" /\ tentative' = tentative /\ AtOption
  BY DEF LongOption, Tagged, fixed, untagged
<1>2. TableFit /\ VectorOK /\ PlacesOK /\ PlaceOK /\ AllReported(errors) /\ ValuesOK
  BY <1>1 DEF RInv, Walking, AtOption, ErrorsOK, AllReported
<1>3. optind \in 1..Len(argv) /\ Len(argv) \in Nat
  BY <1>1, <1>2, ReadingWord DEF VectorOK
<1>4. OutcomeFits(o) /\ o.error \in Codes \cup {""}
  BY <1>1, <1>2, <1>3, WordRest, LongOutcomeFits
<1>5. Returns(o.next, <<>>) /\ (o.error # "" => Refused(o)) /\ (o.error = "" => Scanned(o.val, o.text, list))
  BY DEF LongOption
<1> HIDE DEF o
<1>a. /\ o.next \in (optind + 1)..(Len(argv) + 1)
      /\ o.error \in Codes => o.next = optind + 1
      /\ o.error = "" /\ o.text = <<>> => o.next = optind + 1 \/ (o.next = optind + 2 /\ argv[optind + 1] = <<>>)
  <2>1. OutcomeFits(o)
    BY <1>4
  <2>2. QED BY Zenon, <2>1 DEF OutcomeFits
<1>b. o.error \in Codes \cup {""}
  BY <1>4
<1>6. VectorOK' /\ PlacesOK' /\ PlaceOK'
  <2>0. o.next \in (optind + 1)..(Len(argv) + 1)
    BY <1>a
  <2>1. o.next \in optind..(Len(argv) + 1)
    BY <1>3, <2>0
  <2>2. QED BY <1>1, <1>2, <1>5, <2>1, ReturnsStep
<1>7. Argument(optind) \in Range(given) /\ Argument(optind)[1] = "-"
  BY <1>1, <1>2, WordGiven
<1>8. CASE o.error # ""
  <2>0. o.next = optind + 1
    BY Zenon, <1>a, <1>b, <1>8
  <2>1. o.next - 1 = optind
    BY <1>3, <2>0
  <2>2. AllReported(errors') /\ values' = values
    BY <1>2, <1>5, <1>7, <1>8, <2>1, RefusedFits
  <2>3. ValuesOK'
    BY <1>1, <1>2, <2>2, ValuesStillOK
  <2>4. Walking' /\ (tentative' # NoError => Refusal(tentative'))
    BY <1>1, <1>6 DEF Walking, RInv, ErrorsOK
  <2>5. QED BY <1>1, <1>6, <2>2, <2>3, <2>4, TogetherOK
<1>9. CASE o.error = ""
  <2>1. o.val \in TaggedEntries /\ o.text \in Texts \cup {NoText}
    BY <1>4, <1>9 DEF OutcomeFits
  <2>2. Fitting(list, ErrorLimit) /\ AllReported(list)
    <3>1. CASE empty
      <4>1. Argument(o.next - 1) \in Range(given) /\ (Argument(o.next - 1) = <<>> \/ Argument(o.next - 1)[1] = "-")
        <5>1. CASE o.next = optind + 1
          <6>1. o.next - 1 = optind
            BY <1>3, <5>1
          <6>2. QED BY <1>7, <6>1
        <5>2. CASE o.next = optind + 2 /\ argv[optind + 1] = <<>>
          <6>1. o.next - 1 = optind + 1 /\ optind + 1 # 0 /\ optind + 1 \in 1..Len(argv)
            BY <1>3, <1>a, <5>2
          <6>2. Argument(o.next - 1) = argv[optind + 1] /\ argv[optind + 1] \in Range(given)
            BY <1>2, <6>1 DEF Argument, VectorOK
          <6>3. QED BY <5>2, <6>2
        <5>3. QED BY <1>a, <1>9, <3>1, <5>1, <5>2
      <4>2. Reported(missing)
        <5>1. missing.parent = TERMINATOR /\ missing.text = Argument(o.next - 1)
          BY DEF Error
        <5>2. QED BY <4>1, <5>1 DEF Reported, Foreseen, AsGiven
      <4> HIDE DEF missing, empty
      <4>3. list = Registered(errors, ErrorLimit, missing)
        BY <3>1
      <4>4. QED BY <1>2, <4>2, <4>3, RegisteredFits, RegisteredReported DEF Bounded
    <3>2. CASE ~empty
      <4>1. list = errors
        BY <3>2
      <4>2. QED BY <1>2, <4>1 DEF Bounded
    <3>3. QED BY <3>1, <3>2
  <2> HIDE DEF list
  <2>3. AllReported(errors')
    BY <1>2, <1>5, <1>9, <2>1, <2>2, ScannedReported DEF TaggedEntries
  <2>4. ValuesOK'
    BY <1>1, <1>2, <1>5, <1>9, <2>1, ScannedValues DEF TaggedEntries
  <2>5. Walking' /\ (tentative' # NoError => Refusal(tentative'))
    BY <1>1, <1>6 DEF Walking, RInv, ErrorsOK
  <2>6. QED BY <1>1, <1>6, <2>3, <2>4, <2>5, TogetherOK
<1>10. QED BY <1>8, <1>9

\* A dash at the end of letters makes the argument one that is read again and
\* again, of which nothing is said.
LEMMA MalformedWord ==
  ASSUME VectorOK, PlacesOK, PlaceOK, AtOption, Word = <<"-">>
  PROVE  ~NoLoop
<1> DEFINE w == argv[optind]
<1>1. w \in Range(given) /\ AtOptionWord(optind) /\ w \in Texts
  BY ReadingWord
<1>2. Word[1] = "-" /\ Tail(Word) = <<>>
  OBVIOUS
<1>3. PICK n \in Nat : Consumed(w, n) /\ Word[1] = w[n + 1] /\ Tail(Word) = From(w, n + 2)
  BY WordRest
<1>4. w # DashDash
  BY <1>1 DEF AtOptionWord
<1> HIDE DEF w
<1>5. w \in Seq(Characters) /\ Len(w) \in Nat
  BY <1>1, LenProperties DEF Texts, Characters
<1>6. n \in 1..(Len(w) - 1) /\ w[1] = "-"
  BY <1>3 DEF Consumed
<1>7. n + 1 = Len(w)
  <2>1. n + 2 \in 1..(Len(w) + 1)
    BY <1>5, <1>6
  <2>2. From(w, n + 2) = <<>> <=> n + 2 = Len(w) + 1
    BY <1>5, <2>1, FromProperties
  <2>3. QED BY <1>2, <1>3, <1>5, <2>2
<1>8. w[Len(w)] = "-"
  BY <1>2, <1>3, <1>7
<1>9. n # 1
  <2>1. SUFFICES ASSUME n = 1 PROVE FALSE
    OBVIOUS
  <2>a. Len(w) = 2
    BY <1>7, <2>1
  <2>2. Len(w) = 2 /\ w[1] = "-" /\ w[2] = "-"
    BY Zenon, <1>6, <1>8, <2>a
  <2>3. w = DashDash
    BY <1>5, <2>2 DEF DashDash
  <2>4. QED BY <1>4, <2>3
<1>10. Len(w) > 2 /\ 2 \in 2..n /\ n = Len(w) - 1
  BY <1>5, <1>6, <1>7, <1>9
<1>11. \A k \in 2..n : w[k] # "-" /\ (KnownLetter(table, w[k]) => table[FindShortOption(table, w[k])].value = "no")
  BY <1>3 DEF Consumed
<1>12. Endless(w)
  <2>1. w[2] # "-"
    BY <1>10, <1>11
  <2>2. Last(w) = "-"
    BY <1>8 DEF Last
  <2>3. QED BY Zenon, <1>6, <1>10, <1>11, <2>1, <2>2 DEF Endless
<1>13. \E j \in DOMAIN given : given[j] = w
  BY <1>1 DEF Range
<1>14. QED BY <1>12, <1>13 DEF NoLoop

LEMMA MalformedReports == RInv /\ Bounded /\ Malformed => RInv'
<1> SUFFICES ASSUME RInv, Bounded, Malformed PROVE RInv'
  OBVIOUS
<1>1. UNCHANGED fixed /\ UNCHANGED <<table, given>> /\ phase = "tagged" /\ phase' = "tagged" /\ tentative' = tentative /\ AtOption
  BY DEF Malformed, Tagged, fixed, untagged
<1>2. TableFit /\ VectorOK /\ PlacesOK /\ PlaceOK /\ AllReported(errors) /\ ValuesOK
  BY <1>1 DEF RInv, Walking, AtOption, ErrorsOK, AllReported
<1>3. optind \in 1..Len(argv) /\ Len(argv) \in Nat
  BY <1>1, <1>2, ReadingWord DEF VectorOK
<1>4. ~NoLoop
  BY <1>1, <1>2, MalformedWord DEF Malformed
<1>5. VectorOK' /\ PlacesOK' /\ PlaceOK'
  <2>1. Returns(optind, <<>>) /\ optind \in optind..(Len(argv) + 1)
    BY <1>3 DEF Malformed
  <2>2. QED BY <1>1, <1>2, <2>1, ReturnsStep
<1>6. AllReported(errors') /\ values' = values
  <2> DEFINE o == Problem("EMISSARG", optind)
  <2>1. Refused(o)
    BY DEF Malformed
  <2> HIDE DEF o
  <2>2. QED BY <1>2, <1>4, <2>1, RefusedFits
<1>7. ValuesOK'
  BY <1>1, <1>2, <1>6, ValuesStillOK
<1>8. Walking' /\ (tentative' # NoError => Refusal(tentative'))
  BY <1>1, <1>5 DEF Walking, RInv, ErrorsOK
<1>9. QED BY <1>1, <1>5, <1>6, <1>7, <1>8, TogetherOK

\* What is left to be read after a letter.
LEMMA LetterRead ==
  ASSUME VectorOK, PlacesOK, PlaceOK, AtOption, Word[1] # "-", Rest(Word[1], Tail(Word)) # <<>>
  PROVE  \E n \in 2..Len(argv[optind]) : Consumed(argv[optind], n) /\ Rest(Word[1], Tail(Word)) = From(argv[optind], n + 1)
<1> DEFINE w == argv[optind]
<1>1. w \in Texts
  BY ReadingWord
<1>2. PICK n \in Nat : Consumed(w, n) /\ Word[1] = w[n + 1] /\ Tail(Word) = From(w, n + 2)
  BY WordRest
<1>3. /\ Rest(Word[1], Tail(Word)) = Tail(Word)
      /\ KnownLetter(table, Word[1]) => table[FindShortOption(table, Word[1])].value = "no"
  BY DEF Rest
<1> HIDE DEF w
<1>4. w \in Seq(Characters) /\ Len(w) \in Nat
  BY <1>1, LenProperties DEF Texts, Characters
<1>5. n \in 1..(Len(w) - 1) /\ w[1] = "-"
  BY <1>2 DEF Consumed
<1>6. n + 1 # Len(w)
  <2>1. n + 2 \in 1..(Len(w) + 1)
    BY <1>4, <1>5
  <2>2. From(w, n + 2) = <<>> <=> n + 2 = Len(w) + 1
    BY <1>4, <2>1, FromProperties
  <2>3. From(w, n + 2) # <<>>
    BY Zenon, <1>2, <1>3
  <2>4. n + 2 # Len(w) + 1
    BY <2>2, <2>3
  <2>5. QED BY <1>4, <2>4
<1>7. n + 1 \in 1..(Len(w) - 1) /\ n + 1 \in 2..Len(w) /\ (n + 1) + 1 = n + 2
  BY <1>4, <1>5, <1>6
<1>8. \A k \in 2..(n + 1) : k \in 2..n \/ k = n + 1
  OBVIOUS
<1>9. \A k \in 2..n : w[k] # "-" /\ (KnownLetter(table, w[k]) => table[FindShortOption(table, w[k])].value = "no")
  BY <1>2 DEF Consumed
<1>10. \A k \in 2..(n + 1) : w[k] # "-" /\ (KnownLetter(table, w[k]) => table[FindShortOption(table, w[k])].value = "no")
  BY Zenon, <1>2, <1>3, <1>8, <1>9
<1>11. Consumed(w, n + 1)
  BY <1>5, <1>7, <1>10 DEF Consumed
<1>12. QED BY <1>2, <1>3, <1>7, <1>11 DEF w

LEMMA ShortOptionReports == RInv /\ Bounded /\ ShortOption => RInv'
<1> SUFFICES ASSUME RInv, Bounded, ShortOption PROVE RInv'
  OBVIOUS
<1> DEFINE c == Word[1]
           rest == Tail(Word)
           o == ShortOutcome(c, rest)
<1>1. UNCHANGED fixed /\ UNCHANGED <<table, given>> /\ phase = "tagged" /\ phase' = "tagged" /\ tentative' = tentative /\ AtOption /\ c # "-"
  BY DEF ShortOption, Tagged, fixed, untagged
<1>2. TableFit /\ VectorOK /\ PlacesOK /\ PlaceOK /\ AllReported(errors) /\ ValuesOK
  BY <1>1 DEF RInv, Walking, AtOption, ErrorsOK, AllReported
<1>3. optind \in 1..Len(argv) /\ Len(argv) \in Nat
  BY <1>1, <1>2, ReadingWord DEF VectorOK
<1>4. ShortFits(o, c, rest)
  BY <1>1, <1>2, <1>3, WordRest, ShortOutcomeFits
<1>5. Returns(o.next, Rest(c, rest)) /\ (o.error # "" => Refused(o)) /\ (o.error = "" => Scanned(o.val, o.text, errors))
  BY DEF ShortOption
<1>6. Rest(c, rest) # <<>> =>
        \E n \in 2..Len(argv[optind]) : Consumed(argv[optind], n) /\ Rest(c, rest) = From(argv[optind], n + 1)
  BY <1>1, <1>2, LetterRead
<1> HIDE DEF o, c, rest
<1>7. /\ o.next \in optind..(Len(argv) + 1)
      /\ Rest(c, rest) # <<>> => o.next = optind
      /\ o.error \in Codes => o.next = optind + 1
  BY Zenon, <1>4 DEF ShortFits
<1>8. VectorOK' /\ PlacesOK' /\ PlaceOK'
  BY <1>1, <1>2, <1>5, <1>6, <1>7, ReturnsStep
<1>9. Argument(optind) \in Range(given) /\ Argument(optind)[1] = "-"
  BY <1>1, <1>2, WordGiven
<1>10. CASE o.error # ""
  <2>1. o.error \in Codes => o.next - 1 = optind
    <3>1. SUFFICES ASSUME o.error \in Codes PROVE o.next - 1 = optind
      OBVIOUS
    <3>2. o.next = optind + 1
      BY <1>7, <3>1
    <3>3. QED BY <1>3, <3>2
  <2>2. AllReported(errors') /\ values' = values
    BY <1>2, <1>5, <1>9, <1>10, <2>1, RefusedFits
  <2>3. ValuesOK'
    BY <1>1, <1>2, <2>2, ValuesStillOK
  <2>4. Walking' /\ (tentative' # NoError => Refusal(tentative'))
    BY <1>1, <1>8 DEF Walking, RInv, ErrorsOK
  <2>5. QED BY <1>1, <1>8, <2>2, <2>3, <2>4, TogetherOK
<1>11. CASE o.error = ""
  <2>1. o.val \in TaggedEntries /\ o.text \in Texts \cup {NoText}
    BY <1>4, <1>11 DEF ShortFits
  <2>2. Fitting(errors, ErrorLimit)
    BY DEF Bounded
  <2>3. AllReported(errors')
    BY <1>2, <1>5, <1>11, <2>1, <2>2, ScannedReported DEF TaggedEntries
  <2>4. ValuesOK'
    BY <1>1, <1>2, <1>5, <1>11, <2>1, ScannedValues DEF TaggedEntries
  <2>5. Walking' /\ (tentative' # NoError => Refusal(tentative'))
    BY <1>1, <1>8 DEF Walking, RInv, ErrorsOK
  <2>6. QED BY <1>1, <1>8, <2>3, <2>4, <2>5, TogetherOK
<1>12. QED BY <1>10, <1>11

LEMMA VectorLength == VectorOK => Len(argv) = Len(given) /\ Len(given) \in Nat
  BY DEF VectorOK

\* The skipped arguments are exchanged with the options behind them, up to to.
LEMMA ExchangeReports ==
  ASSUME VectorOK, PlacesOK, NEW end \in (nonopt_start + 1)..optind, NEW to \in (end + 1)..(Len(argv) + 1), Skipped
  PROVE  Exchanged(nonopt_start, end, to) \in [1..Len(given) -> Range(given)]
<1>1. Len(argv) = Len(given) /\ Len(given) \in Nat
  BY VectorLength
<1>2. nonopt_start \in 1..(optind - 1) /\ optind \in 1..(Len(argv) + 1)
  BY DEF PlacesOK
<1>3. Blocks(nonopt_start, end, to)
  BY <1>1, <1>2 DEF Blocks
<1>4. nonopt_start..(to - 1) \subseteq 1..Len(given)
  BY <1>1, <1>2
<1>5. QED BY <1>3, <1>4, ExchangedKeeps DEF VectorOK

LEMMA ChangedVector ==
  ASSUME given' = given, given \in Seq(Texts), argv' \in [1..Len(given) -> Range(given)]
  PROVE  VectorOK'
  BY DEF VectorOK

LEMMA RestartReports ==
  ASSUME VectorOK, given' = given, Restart
  PROVE  VectorOK' /\ PlacesOK' /\ PlaceOK'
<1>1. VectorOK' /\ argv' = argv
  BY DEF VectorOK, Restart
<1>2. optind' \in 1..(Len(argv') + 1)
  BY <1>1, VectorLength DEF Restart
<1>3. PlacesOK'
  BY <1>2 DEF PlacesOK, Restart, Skipped, Pending
<1>4. PlaceOK'
  BY DEF PlaceOK, Restart
<1>5. QED BY <1>1, <1>3, <1>4

LEMMA SkipOperandReports ==
  ASSUME VectorOK, PlacesOK, given' = given, SkipOperand
  PROVE  VectorOK' /\ PlacesOK' /\ PlaceOK'
<1>1. Len(argv) = Len(given) /\ Len(given) \in Nat
  BY VectorLength
<1>2. optind \in 1..Len(argv) /\ ~IsOption(argv[optind]) /\ optind' = optind + 1 /\ nonopt_end' = -1 /\ place' = <<>>
  BY <1>1 DEF SkipOperand, AtOperand, PlacesOK, Exhausted, Rescan
<1>3. Skipped => nonopt_start \in 1..(optind - 1)
  BY DEF PlacesOK
<1>4. Pending => Skipped /\ nonopt_end \in (nonopt_start + 1)..(optind - 1)
  <2>1. nonopt_end # optind
    BY <1>2 DEF PlacesOK, AtOptionWord
  <2>2. QED BY <1>2, <1>3, <2>1 DEF PlacesOK
<1>5. argv' \in [1..Len(given) -> Range(given)]
  <2>1. CASE Pending
    <3>1. nonopt_end \in (nonopt_start + 1)..optind /\ optind \in (nonopt_end + 1)..(Len(argv) + 1)
      BY <1>1, <1>2, <1>3, <1>4, <2>1
    <3>2. Exchanged(nonopt_start, nonopt_end, optind) \in [1..Len(given) -> Range(given)]
      BY <1>4, <2>1, <3>1, ExchangeReports
    <3>3. QED BY <1>4, <2>1, <3>2 DEF SkipOperand
  <2>2. CASE ~Pending
    BY <2>2 DEF SkipOperand, VectorOK
  <2>3. QED BY <2>1, <2>2
<1>6. VectorOK'
  BY <1>5, ChangedVector DEF VectorOK
<1>7. Len(argv') = Len(argv)
  BY <1>1, <1>5
<1>8. nonopt_start' \in 1..optind
  BY <1>2, <1>3, <1>4 DEF SkipOperand
<1>9. PlacesOK'
  <2>1. optind' \in 1..(Len(argv') + 1) /\ nonopt_start' \in 1..(optind' - 1) /\ ~Pending' /\ nonopt_end' # optind'
    BY <1>1, <1>2, <1>7, <1>8 DEF Pending
  <2>2. QED BY <2>1 DEF PlacesOK
<1>10. PlaceOK'
  BY <1>2 DEF PlaceOK
<1>11. QED BY <1>6, <1>9, <1>10

LEMMA EndTaggedWord ==
  ASSUME VectorOK, PlacesOK, given' = given, EndOfArguments \/ StopAtOperand \/ EndOfOptions
  PROVE  VectorOK' /\ optind' \in Nat \ {0}
<1>1. Len(argv) = Len(given) /\ Len(given) \in Nat
  BY VectorLength
<1>2. /\ optind \in 1..(Len(argv) + 1)
      /\ Skipped => nonopt_start \in 1..(optind - 1)
      /\ Pending => Skipped /\ nonopt_end \in (nonopt_start + 1)..optind
  BY DEF PlacesOK
<1>3. CASE EndOfArguments
  <2>1. nonopt_end # optind
    BY <1>1, <1>2, <1>3 DEF EndOfArguments, Exhausted, PlacesOK, AtOptionWord
  <2>2. argv' \in [1..Len(given) -> Range(given)]
    <3>1. CASE Pending
      <4>1. nonopt_end \in (nonopt_start + 1)..optind /\ optind \in (nonopt_end + 1)..(Len(argv) + 1)
        BY <1>1, <1>2, <2>1, <3>1
      <4>2. Exchanged(nonopt_start, nonopt_end, optind) \in [1..Len(given) -> Range(given)]
        BY <1>2, <3>1, <4>1, ExchangeReports
      <4>3. QED BY <1>3, <3>1, <4>2 DEF EndOfArguments, Settle
    <3>2. CASE ~Pending
      BY <1>3, <3>2 DEF EndOfArguments, Settle, VectorOK
    <3>3. QED BY <3>1, <3>2
  <2>3. optind' \in Nat \ {0}
    BY <1>1, <1>2, <1>3 DEF EndOfArguments
  <2>4. QED BY <2>2, <2>3, ChangedVector DEF VectorOK
<1>4. CASE StopAtOperand
  BY <1>1, <1>2, <1>4 DEF StopAtOperand, scanner, VectorOK
<1>5. CASE EndOfOptions
  <2> DEFINE end == IF Skipped /\ ~Pending THEN optind ELSE nonopt_end
  <2>1. optind \in 1..Len(argv)
    BY <1>1, <1>2, <1>5 DEF EndOfOptions, Exhausted
  <2>2. end # -1 => Skipped /\ end \in (nonopt_start + 1)..optind
    BY <1>1, <1>2 DEF Pending
  <2>3. /\ argv' = IF end # -1 THEN Exchanged(nonopt_start, end, optind + 1) ELSE argv
        /\ optind' = IF end # -1 THEN optind + 1 - (end - nonopt_start) ELSE optind + 1
    BY <1>5 DEF EndOfOptions
  <2> HIDE DEF end
  <2>4. argv' \in [1..Len(given) -> Range(given)]
    <3>1. CASE end # -1
      <4>1. end \in (nonopt_start + 1)..optind /\ optind + 1 \in (end + 1)..(Len(argv) + 1)
        BY <1>1, <1>2, <2>1, <2>2, <3>1
      <4>2. Exchanged(nonopt_start, end, optind + 1) \in [1..Len(given) -> Range(given)]
        BY <2>2, <3>1, <4>1, ExchangeReports
      <4>3. QED BY <2>3, <3>1, <4>2
    <3>2. CASE end = -1
      BY <2>3, <3>2 DEF VectorOK
    <3>3. QED BY <3>1, <3>2
  <2>5. optind' \in Nat \ {0}
    BY <1>1, <1>2, <2>1, <2>2, <2>3
  <2>6. QED BY <2>4, <2>5, ChangedVector DEF VectorOK
<1>6. QED BY <1>3, <1>4, <1>5

LEMMA WalkReports == RInv /\ Walk => RInv'
<1> SUFFICES ASSUME RInv, Walk PROVE RInv'
  OBVIOUS
<1>1. /\ UNCHANGED fixed /\ given' = given /\ phase = "tagged" /\ phase' = "tagged"
      /\ tentative' = tentative /\ errors' = errors /\ values' = values
  BY DEF Walk, Tagged, fixed, untagged, results
<1>2. VectorOK /\ AllReported(errors) /\ ValuesOK
  BY <1>1 DEF RInv, ErrorsOK, AllReported
<1>3. VectorOK' /\ PlacesOK' /\ PlaceOK'
  <2>1. CASE Restart BY <1>1, <1>2, <2>1, RestartReports
  <2>2. CASE SkipOperand
    <3>1. PlacesOK
      BY <1>1, <2>2 DEF RInv, Walking, SkipOperand, AtOperand
    <3>2. QED BY <1>1, <1>2, <2>2, <3>1, SkipOperandReports
  <2>3. QED BY <2>1, <2>2 DEF Walk
<1>4. Walking'
  BY <1>1, <1>3 DEF Walking
<1>5. AllReported(errors') /\ (tentative' # NoError => Refusal(tentative'))
  <2>1. UNCHANGED table /\ UNCHANGED given
    BY <1>1 DEF fixed
  <2>2. QED BY <1>1, <1>2, <2>1 DEF RInv, ErrorsOK
<1>6. ValuesOK'
  BY <1>1, <1>2, ValuesStillOK
<1>7. QED BY <1>1, <1>3, <1>4, <1>5, <1>6, TogetherOK

LEMMA EndTaggedReports == RInv /\ EndTagged => RInv'
<1> SUFFICES ASSUME RInv, EndTagged PROVE RInv'
  OBVIOUS
<1>1. /\ UNCHANGED fixed /\ given' = given /\ phase = "tagged" /\ phase' = "untagged"
      /\ tentative' = NoError /\ errors' = errors /\ values' = values
  BY DEF EndTagged, Tagged, fixed, results
<1>2. VectorOK /\ AllReported(errors) /\ ValuesOK /\ PlacesOK
  BY <1>1 DEF RInv, ErrorsOK, AllReported, Walking, EndTagged, EndOfArguments, StopAtOperand, AtOperand, EndOfOptions
<1>3. VectorOK' /\ optind' \in Nat \ {0}
  BY <1>1, <1>2, EndTaggedWord DEF EndTagged
<1>4. Walking'
  BY <1>1, <1>3 DEF Walking, EndTagged
<1>5. AllReported(errors') /\ (tentative' # NoError => Refusal(tentative'))
  BY <1>1, <1>2
<1>6. ValuesOK'
  BY <1>1, <1>2, ValuesStillOK
<1>7. QED BY <1>1, <1>3, <1>4, <1>5, <1>6, TogetherOK

LEMMA InitReports == Init => RInv
<1> SUFFICES ASSUME Init PROVE RInv
  OBVIOUS
<1>1. PICK input \in Inputs : table = input.table /\ given = input.argv /\ argv = input.argv
  BY DEF Init
<1> DEFINE ends == {i \in DOMAIN table : table[i].kind = "end"}
<1>2. ends # {} /\ ends \subseteq Nat
  BY <1>1, InputsAssumption
<1>3. EndIndex(table) \in Nat
  <2>1. Min(ends) \in ends
    <3> HIDE DEF ends
    <3>1. QED BY <1>2, LeastPlace
  <2>2. QED BY <1>2, <2>1 DEF EndIndex
<1>4. TableFit
  BY <1>1, <1>3, EntriesAssumption DEF TableFit
<1>5. VectorOK
  <2>1. given \in Seq(Texts) /\ argv = given
    BY <1>1, WordsAssumption
  <2> HIDE DEF Texts
  <2>2. given \in [1..Len(given) -> Range(given)]
    BY <2>1 DEF Range
  <2>3. QED BY <2>1, <2>2 DEF VectorOK
<1>6. phase = "reset" /\ tentative = NoError /\ DOMAIN values = Indices(table)
  BY DEF Init
<1>7. Walking /\ ErrorsOK /\ ValuesOK
  BY <1>6 DEF Walking, ErrorsOK, ValuesOK
<1>8. QED BY <1>4, <1>5, <1>7 DEF RInv

LEMMA ResetReports == RInv /\ Reset => RInv'
<1> SUFFICES ASSUME RInv, Reset PROVE RInv'
  OBVIOUS
<1>1. /\ UNCHANGED fixed /\ UNCHANGED <<table, given>> /\ argv' = argv /\ phase' = "tagged" /\ optind' = 0
      /\ tentative' = tentative /\ errors' = <<>> /\ values' = [i \in Indices(table) |-> <<>>]
  BY DEF Reset, fixed, untagged
<1>2. VectorOK' /\ Walking'
  BY <1>1 DEF RInv, VectorOK, Walking
<1>3. AllReported(errors')
  BY <1>1 DEF AllReported
<1>4. tentative' # NoError => Refusal(tentative')
  BY <1>1 DEF RInv, ErrorsOK
<1>5. ValuesOK'
  <2>1. Indices(table)' = Indices(table)
    BY <1>1 DEF Indices, EndIndex
  <2>2. DOMAIN values' = Indices(table)' /\ \A i \in Indices(table) : values'[i] = <<>>
    BY <1>1, <2>1
  <2>3. <<>> \in Seq({}) /\ DOMAIN <<>> = {}
    OBVIOUS
  <2>4. QED BY <1>1, <2>1, <2>2, <2>3 DEF ValuesOK
<1>6. QED BY <1>1, <1>2, <1>3, <1>4, <1>5, TogetherOK

\* Steps behind the options that change neither the arguments nor the values.
LEMMA QuietReports ==
  ASSUME RInv, phase \notin {"reset", "tagged"}, phase' # "tagged", UNCHANGED fixed, argv' = argv, values' = values,
         Walking', AllReported(errors'), tentative' # NoError => Refusal(tentative')
  PROVE  RInv'
<1>1. VectorOK'
  BY DEF RInv, VectorOK, fixed
<1>2. ValuesOK'
  BY ValuesStillOK DEF RInv
<1>3. QED BY <1>1, <1>2, TogetherOK

LEMMA StillReported ==
  ASSUME RInv, phase # "reset"
  PROVE  AllReported(errors) /\ (tentative # NoError => Refusal(tentative))
  BY DEF RInv, ErrorsOK, AllReported

LEMMA RegisterReports ==
  ASSUME RInv, phase # "reset", Bounded, NEW error, Reported(error), Register(error)
  PROVE  AllReported(errors')
  BY StillReported, RegisteredReported DEF Register, Bounded

LEMMA UntaggedDoneReports == RInv /\ UntaggedDone => RInv'
<1> SUFFICES ASSUME RInv, UntaggedDone PROVE RInv'
  OBVIOUS
<1>1. /\ UNCHANGED fixed /\ argv' = argv /\ values' = values /\ errors' = errors /\ tentative' = tentative
      /\ phase = "untagged" /\ phase' \in {"check", "parsed"} /\ tabindex' = 1
  BY DEF UntaggedDone, scanner, results
<1>2. Walking'
  BY <1>1 DEF Walking
<1>3. QED BY <1>1, <1>2, StillReported, QuietReports

LEMMA SkipEntryReports == RInv /\ SkipEntry => RInv'
<1> SUFFICES ASSUME RInv, SkipEntry PROVE RInv'
  OBVIOUS
<1>1. /\ UNCHANGED fixed /\ argv' = argv /\ optind' = optind /\ values' = values /\ errors' = errors /\ tentative' = tentative
      /\ phase = "untagged" /\ phase' = "untagged" /\ tabindex' = tabindex + 1
  BY DEF SkipEntry, Trying, scanner, results
<1>2. Walking'
  BY <1>1 DEF RInv, Walking
<1>3. QED BY <1>1, <1>2, StillReported, QuietReports

LEMMA TryEntryReports == RInv /\ TryEntry => RInv'
<1> SUFFICES ASSUME RInv, TryEntry PROVE RInv'
  OBVIOUS
<1> DEFINE e == table[tabindex]
           text == argv[optind]
           scan == Scan(e, values[tabindex], text)
<1>1. /\ UNCHANGED fixed /\ UNCHANGED <<table, given>> /\ argv' = argv /\ errors' = errors
      /\ phase = "untagged" /\ phase' = "untagged" /\ ~Exhausted /\ e.kind # "rem" /\ tabindex < EndIndex(table)
  BY DEF TryEntry, Trying, fixed
<1>2. TableFit /\ VectorOK /\ ValuesOK /\ optind \in Nat \ {0} /\ tabindex \in Nat \ {0}
  BY <1>1 DEF RInv, Walking
<1>3. tabindex \in Indices(table) /\ e.kind \in Kinds \ {"rem"}
  BY <1>1, <1>2 DEF TableFit, Indices
<1>4. text \in Texts
  <2>1. optind \in 1..Len(given)
    BY <1>1, <1>2, VectorLength DEF Exhausted
  <2>2. QED BY <1>2, <2>1 DEF VectorOK, Range
<1>5. \/ scan.error = "" /\ values' = [values EXCEPT ![tabindex] = Append(@, scan.value)]
         /\ optind' = optind + 1 /\ tentative' = NoError /\ tabindex' = tabindex
      \/ scan.error # "" /\ tentative' = Error(scan.error, tabindex, text) /\ tabindex' = tabindex + 1
         /\ UNCHANGED <<values, optind>>
  BY DEF TryEntry
<1>6. VectorOK' /\ Walking'
  <2> HIDE DEF scan, text
  <2>0. optind' \in {optind, optind + 1} /\ tabindex' \in {tabindex, tabindex + 1}
    BY Zenon, <1>5
  <2>1. optind' \in Nat \ {0} /\ tabindex' \in Nat \ {0}
    BY <1>2, <2>0
  <2>2. QED BY <1>1, <1>2, <2>1 DEF Walking, VectorOK
<1>7. AllReported(errors')
  BY <1>1, StillReported
<1>8. CASE scan.error = ""
  <2>1. values' = [values EXCEPT ![tabindex] = Append(@, scan.value)] /\ tentative' = NoError
    BY <1>5, <1>8
  <2>2. scan = ScanText(e, text)
    <3>0. Fault("MAXCOUNT").error = "MAXCOUNT"
      BY Zenon, ScanErrors
    <3>1. Fault("MAXCOUNT").error # ""
      BY <3>0
    <3>2. QED BY <1>8, <3>1 DEF Scan
  <2>3. e.kind = "file" => FileOK(scan.value)
    BY <1>4, <2>2, ScannedFile
  <2>4. ValuesOK'
    <3> HIDE DEF scan
    <3>1. QED BY <1>1, <1>2, <1>3, <2>1, <2>3, AppendedValue
  <2>5. QED BY <1>1, <1>6, <1>7, <2>1, <2>4, TogetherOK
<1>9. CASE scan.error # ""
  <2>1. tentative' = Error(scan.error, tabindex, text) /\ UNCHANGED values
    BY <1>5, <1>9
  <2>2. EntryMessage(e.kind, Error(scan.error, tabindex, text)).what # "" /\ scan.error \notin Codes
    BY <1>3, <1>9, ScanRefuses
  <2>3. Refusal(tentative')
    <3> HIDE DEF scan
    <3>1. Error(scan.error, tabindex, text).parent = tabindex /\ Error(scan.error, tabindex, text).code = scan.error
      BY DEF Error
    <3>2. QED BY <2>1, <2>2, <3>1 DEF Refusal, Foreseen
  <2>4. QED BY <1>1, <1>6, <1>7, <2>1, <2>3, QuietReports
<1>10. QED BY <1>8, <1>9

LEMMA ReinstateReports == RInv /\ Bounded /\ Reinstate => RInv'
<1> SUFFICES ASSUME RInv, Bounded, Reinstate PROVE RInv'
  OBVIOUS
<1>1. /\ UNCHANGED fixed /\ argv' = argv /\ values' = values /\ tentative # NoError /\ tentative' = NoError /\ Register(tentative)
      /\ phase = "untagged" /\ phase' = "untagged" /\ optind' = optind + 1 /\ tabindex' = tabindex
  BY DEF Reinstate, NoEntryLeft
<1>2. Walking'
  BY <1>1 DEF RInv, Walking
<1>3. Reported(tentative)
  BY <1>1, StillReported DEF Refusal, Reported, AsGiven
<1>4. AllReported(errors')
  BY <1>1, <1>3, RegisterReports
<1>5. QED BY <1>1, <1>2, <1>4, QuietReports

LEMMA NotConsumedReports == RInv /\ Bounded /\ NotConsumed => RInv'
<1> SUFFICES ASSUME RInv, Bounded, NotConsumed PROVE RInv'
  OBVIOUS
<1> DEFINE error == Error("ENOMATCH", TERMINATOR, argv[optind])
<1>1. /\ UNCHANGED fixed /\ argv' = argv /\ values' = values /\ tentative' = tentative /\ Register(error)
      /\ phase = "untagged" /\ phase' = "untagged" /\ optind' = optind + 1 /\ tabindex' = tabindex
  BY DEF NotConsumed, NoEntryLeft, untagged
<1>2. Walking'
  BY <1>1 DEF RInv, Walking
<1>3. error.parent = TERMINATOR /\ error.code \notin Codes
  BY DEF Error, Codes
<1> HIDE DEF error
<1>4. AllReported(errors')
  BY <1>1, <1>3, RegisterReports DEF Reported, Foreseen, AsGiven
<1>5. QED BY <1>1, <1>2, <1>4, StillReported, QuietReports

LEMMA CheckReports == RInv /\ Bounded /\ Check => RInv'
<1> SUFFICES ASSUME RInv, Bounded, Check PROVE RInv'
  OBVIOUS
<1> DEFINE error == Error("MINCOUNT", tabindex, NoText)
<1>1. /\ UNCHANGED fixed /\ argv' = argv /\ values' = values /\ tentative' = tentative /\ (Register(error) \/ errors' = errors)
      /\ phase = "check" /\ phase' = "check" /\ tabindex' = tabindex + 1
  BY DEF Check, scanner
<1>2. Walking'
  BY <1>1 DEF RInv, Walking
<1>3. Reported(error)
  <2>1. error.parent = tabindex /\ error.code = "MINCOUNT"
    BY DEF Error
  <2> HIDE DEF error
  <2>2. EntryMessage(table[tabindex].kind, error).what = "missing option"
    BY <2>1 DEF EntryMessage, Says
  <2>3. QED BY <2>1, <2>2 DEF Reported, Foreseen, AsGiven, Codes
<1> HIDE DEF error
<1>4. AllReported(errors')
  BY <1>1, <1>3, StillReported, RegisterReports
<1>5. QED BY <1>1, <1>2, <1>4, StillReported, QuietReports

LEMMA CheckedReports == RInv /\ Checked => RInv'
<1> SUFFICES ASSUME RInv, Checked PROVE RInv'
  OBVIOUS
<1>1. /\ UNCHANGED fixed /\ argv' = argv /\ values' = values /\ errors' = errors /\ tentative' = tentative
      /\ phase = "check" /\ phase' = "parsed"
  BY DEF Checked, scanner, results, untagged
<1>2. Walking'
  BY <1>1 DEF Walking
<1>3. QED BY <1>1, <1>2, StillReported, QuietReports

LEMMA RInvStays == RInv /\ UNCHANGED parsevars => RInv'
<1> SUFFICES ASSUME RInv, UNCHANGED parsevars PROVE RInv'
  OBVIOUS
<1> USE DEF parsevars, fixed, scanner, results, untagged
<1>1. TableFit'
  BY DEF RInv, TableFit, EndIndex, Indices
<1>2. VectorOK'
  BY DEF RInv, VectorOK
<1>3. Walking'
  <2>1. PlacesOK => PlacesOK'
    BY DEF PlacesOK, Skipped, Pending, AtOptionWord
  <2>2. PlaceOK => PlaceOK'
    BY DEF PlaceOK, Consumed
  <2>3. QED BY <2>1, <2>2 DEF RInv, Walking
<1>4. ErrorsOK'
  BY DEF RInv, ErrorsOK, Reported, Refusal, Foreseen, AsGiven, NoLoop, Endless
<1>5. ValuesOK'
  BY DEF RInv, ValuesOK, Indices, EndIndex, FileOK
<1>6. QED BY <1>1, <1>2, <1>3, <1>4, <1>5 DEF RInv

LEMMA NextReports == RInv /\ Bounded /\ [Next]_vars => RInv'
<1> SUFFICES ASSUME RInv, Bounded, [Next]_vars PROVE RInv'
  OBVIOUS
<1>1. CASE Parse
  BY <1>1, ResetReports, WalkReports, EndTaggedReports, LongOptionReports, MalformedReports, ShortOptionReports,
     UntaggedDoneReports, SkipEntryReports, TryEntryReports, ReinstateReports, NotConsumedReports, CheckReports,
     CheckedReports DEF Parse
<1>2. CASE UNCHANGED parsevars
  BY <1>2, RInvStays
<1>3. QED BY <1>1, <1>2, DriveKeepsParse DEF Next, Done, vars

LEMMA ReportsFromInv == RInv => ErrorsReported
<1> SUFFICES ASSUME RInv, phase = "parsed", NEW k \in DOMAIN errors
    PROVE  /\ PrintErrorList(table, errors)[k].what # ""
           /\ errors[k].code \in {"EMISSARG", "ELONGOPT"} /\ (\A j \in DOMAIN given : ~Endless(given[j])) =>
                errors[k].text \in Range(given) /\ (errors[k].text = <<>> \/ errors[k].text[1] = "-")
  BY DEF ErrorsReported
<1>1. Reported(errors[k])
  BY DEF RInv, ErrorsOK
<1>2. \A error : EndMessage(error).what # ""
  BY DEF EndMessage, Says
<1>3. PrintErrorList(table, errors)[k] =
        IF errors[k].parent = TERMINATOR THEN EndMessage(errors[k]) ELSE EntryMessage(table[errors[k].parent].kind, errors[k])
  BY Zenon DEF PrintErrorList
<1>4. PrintErrorList(table, errors)[k].what # ""
  BY Zenon, <1>1, <1>2, <1>3 DEF Reported, Foreseen
<1>5. QED BY Zenon, <1>1, <1>4 DEF Reported, AsGiven, NoLoop, Codes

(* For every table, every command line and every setting of                *)
(* POSIXLY_CORRECT: each error that arg_parse leaves has its message, and  *)
(* an error about an option quotes an argument of the line that begins     *)
(* with a dash, or is empty, unless a word of the line is read for ever    *)
(* (arg_parse_tagged, arg_*_errorfn, arg_end_errorfn).                     *)
THEOREM EveryErrorReported == Spec => []ErrorsReported
<1>1. Init => RInv /\ Bounded
  BY InitReports, InitBounded
<1>2. RInv /\ Bounded /\ [Next]_vars => RInv' /\ Bounded'
  BY NextReports, NextBounded
<1>3. RInv => ErrorsReported
  BY ReportsFromInv
<1>4. QED BY <1>1, <1>2, <1>3, PTL DEF Spec

-----------------------------------------------------------------------------
(* The parts of a file name.                                               *)

LEMMA GreatestPlace ==
  ASSUME NEW n \in Nat, NEW S, S \subseteq 0..n, S # {}
  PROVE  Max(S) \in S /\ \A y \in S : y <= Max(S)
<1> DEFINE T == {n - x : x \in S}
<1>1. T \subseteq Nat /\ T # {}
  <2>1. \A x \in S : x \in 0..n /\ n - x \in Nat
    OBVIOUS
  <2>2. PICK x \in S : TRUE
    OBVIOUS
  <2>3. n - x \in T
    OBVIOUS
  <2>4. QED BY <2>1, <2>3
<1>2. Min(T) \in T /\ \A y \in T : Min(T) <= y
  <2> HIDE DEF T
  <2>1. QED BY <1>1, LeastPlace, LeastIsLeast
<1>3. PICK x \in S : Min(T) = n - x
  BY <1>2
<1>4. \A y \in S : x >= y
  <2>1. SUFFICES ASSUME NEW y \in S PROVE x >= y
    OBVIOUS
  <2>2. n - x <= n - y
    BY <1>2, <1>3
  <2>3. x \in 0..n /\ y \in 0..n
    OBVIOUS
  <2>4. QED BY <2>2, <2>3
<1>5. Max(S) \in S /\ \A y \in S : Max(S) >= y
  BY <1>4 DEF Max
<1>6. \A y \in S : y \in Int
  OBVIOUS
<1>7. QED BY <1>5, <1>6

LEMMA LastPlace ==
  ASSUME NEW A, NEW text \in Seq(A), NEW c
  PROVE  /\ LastOf(text, c) \in 0..Len(text)
         /\ \A i \in 1..Len(text) : text[i] = c => i <= LastOf(text, c)
         /\ LastOf(text, c) # 0 => text[LastOf(text, c)] = c
<1> DEFINE S == {i \in DOMAIN text : text[i] = c} \cup {0}
<1>1. Len(text) \in Nat /\ DOMAIN text = 1..Len(text)
  BY LenProperties
<1>2. S \subseteq 0..Len(text) /\ S # {}
  BY <1>1
<1>3. Max(S) \in S /\ \A y \in S : y <= Max(S)
  <2> HIDE DEF S
  <2>1. QED BY <1>1, <1>2, GreatestPlace
<1>4. LastOf(text, c) = Max(S)
  BY DEF LastOf
<1>5. QED BY <1>1, <1>3, <1>4

LEMMA SuffixFrom ==
  ASSUME NEW A, NEW w \in Seq(A), NEW i \in 1..(Len(w) + 1)
  PROVE  IsSuffix(From(w, i), w)
<1> DEFINE f == From(w, i)
           m == Len(w) + 1 - i
<1>1. f \in Seq(A) /\ Len(f) = m /\ \A k \in 1..m : f[k] = w[i + k - 1]
  BY FromProperties
<1>2. Len(w) \in Nat /\ m \in 0..Len(w)
  BY LenProperties
<1> HIDE DEF f
<1>3. /\ Reverse(f) = [k \in 1..m |-> f[(m - k) + 1]]
      /\ Reverse(w) = [k \in 1..Len(w) |-> w[(Len(w) - k) + 1]]
  BY <1>1 DEF Reverse
<1>4. Len(Reverse(f)) = m /\ Len(Reverse(w)) = Len(w)
  BY <1>2, <1>3
<1>5. \A k \in 1..m : Reverse(f)[k] = Reverse(w)[k]
  <2>1. SUFFICES ASSUME NEW k \in 1..m PROVE Reverse(f)[k] = Reverse(w)[k]
    OBVIOUS
  <2>2. (m - k) + 1 \in 1..m /\ i + ((m - k) + 1) - 1 = (Len(w) - k) + 1 /\ k \in 1..Len(w)
    BY <1>2
  <2>3. f[(m - k) + 1] = w[i + ((m - k) + 1) - 1]
    BY <1>1, <2>2
  <2>4. QED BY <1>3, <2>2, <2>3
<1>6. /\ SubSeq(Reverse(f), 1, m) = [k \in 1..m |-> Reverse(f)[k]]
      /\ SubSeq(Reverse(w), 1, m) = [k \in 1..m |-> Reverse(w)[k]]
  <2>1. Reverse(f) \in Seq(A)
    <3>1. \A k \in 1..m : (m - k) + 1 \in 1..m
      BY <1>2
    <3>2. \A k \in 1..m : f[(m - k) + 1] \in A
      BY <1>1, <3>1
    <3>3. QED BY <1>2, <1>3, <3>2
  <2>2. Reverse(w) \in Seq(A)
    <3>1. \A k \in 1..Len(w) : (Len(w) - k) + 1 \in 1..Len(w)
      BY <1>2
    <3>2. \A k \in 1..Len(w) : w[(Len(w) - k) + 1] \in A
      BY <3>1
    <3>3. QED BY <1>2, <1>3, <3>2
  <2> HIDE DEF m
  <2>3. QED BY <1>2, <1>4, <2>1, <2>2
<1>7. SubSeq(Reverse(f), 1, m) = SubSeq(Reverse(w), 1, m)
  <2> HIDE DEF m
  <2>1. QED BY <1>5, <1>6
<1>8. QED BY <1>2, <1>4, <1>7 DEF IsSuffix, IsPrefix, f

\* The place behind the last character is the beginning of the empty text.
LEMMA EmptySuffix ==
  ASSUME NEW A, NEW w \in Seq(A)
  PROVE  IsSuffix(<<>>, w)
<1>1. Len(w) + 1 \in 1..(Len(w) + 1)
  BY LenProperties
<1>2. From(w, Len(w) + 1) = <<>>
  BY <1>1, FromProperties
<1>3. QED BY <1>1, <1>2, SuffixFrom

\* What is behind a place.
LEMMA BehindPlace ==
  ASSUME NEW A, NEW w \in Seq(A), NEW l \in 0..Len(w)
  PROVE  From(w, l + 1) \in Seq(A) /\ Len(From(w, l + 1)) = Len(w) - l /\ \A k \in 1..(Len(w) - l) : From(w, l + 1)[k] = w[l + k]
<1>1. Len(w) \in Nat /\ l + 1 \in 1..(Len(w) + 1)
  BY LenProperties
<1>2. /\ From(w, l + 1) \in Seq(A) /\ Len(From(w, l + 1)) = Len(w) + 1 - (l + 1)
      /\ \A k \in 1..(Len(w) + 1 - (l + 1)) : From(w, l + 1)[k] = w[(l + 1) + k - 1]
  BY <1>1, FromProperties
<1>3. Len(w) + 1 - (l + 1) = Len(w) - l /\ \A k \in 1..(Len(w) - l) : (l + 1) + k - 1 = l + k
  BY <1>1
<1>4. QED BY <1>2, <1>3

LEMMA EmptyText == <<>> \in Texts
<1>1. \A S : <<>> \in Seq(S)
  OBVIOUS
<1>2. QED BY <1>1 DEF Texts

LEMMA BaseNameSplit ==
  ASSUME NEW t \in Texts
  PROVE  /\ BaseName(t) \in Texts /\ IsSuffix(BaseName(t), t) /\ "/" \notin Range(BaseName(t))
         /\ BaseName(t) \notin {<<".">>, <<".", ".">>}
<1> DEFINE l == LastOf(t, "/")
           r == From(t, l + 1)
<1>1. Len(t) \in Nat /\ l \in 0..Len(t) /\ \A i \in 1..Len(t) : t[i] = "/" => i <= l
  BY LenProperties, LastPlace DEF Texts
<1> HIDE DEF l
<1>2. l + 1 \in 1..(Len(t) + 1)
  BY <1>1
<1>3. r \in Texts /\ Len(r) = Len(t) - l /\ \A k \in 1..Len(r) : r[k] = t[l + k]
  <2>1. t \in Seq(Characters) /\ Texts = Seq(Characters)
    BY DEF Texts, Characters
  <2>2. r \in Seq(Characters) /\ Len(r) = Len(t) - l /\ \A k \in 1..(Len(t) - l) : r[k] = t[l + k]
    BY <1>1, <2>1, BehindPlace
  <2>3. QED BY <2>1, <2>2
<1>4. IsSuffix(r, t)
  BY <1>2, SuffixFrom DEF Texts
<1>5. "/" \notin Range(r)
  <2>1. SUFFICES ASSUME NEW k \in DOMAIN r, r[k] = "/" PROVE FALSE
    BY DEF Range
  <2>2. k \in 1..Len(r)
    BY <1>3, LenProperties DEF Texts
  <2>3. t[l + k] = "/" /\ l + k \in 1..Len(t) /\ ~ (l + k <= l)
    BY <1>1, <1>3, <2>1, <2>2
  <2>4. QED BY <1>1, <2>3
<1>6. BaseName(t) = IF r \in {<<".">>, <<".", ".">>} THEN <<>> ELSE r
  BY Zenon DEF BaseName, r, l
<1> HIDE DEF r
<1>7. CASE r \in {<<".">>, <<".", ".">>}
  <2>1. BaseName(t) = <<>>
    BY <1>6, <1>7
  <2>2. IsSuffix(<<>>, t) /\ <<>> \in Texts /\ "/" \notin Range(<<>>) /\ <<>> \notin {<<".">>, <<".", ".">>}
    <3>1. IsSuffix(<<>>, t) /\ <<>> \in Texts
      <4>1. t \in Seq(Characters)
        BY DEF Texts, Characters
      <4>2. IsSuffix(<<>>, t)
        BY <4>1, EmptySuffix
      <4>3. QED BY <4>2, EmptyText
    <3>2. "/" \notin Range(<<>>)
      BY DEF Range
    <3>3. <<>> \notin {<<".">>, <<".", ".">>}
      OBVIOUS
    <3>4. QED BY <3>1, <3>2, <3>3
  <2>3. QED BY <2>1, <2>2
<1>8. CASE r \notin {<<".">>, <<".", ".">>}
  BY Zenon, <1>3, <1>4, <1>5, <1>6, <1>8
<1>9. QED BY <1>7, <1>8

LEMMA ExtensionSplit ==
  ASSUME NEW b \in Texts
  PROVE  LET x == Extension(b)
             dots == {k \in 2..(Len(b) - 1) : b[k] = "."}
         IN /\ IsSuffix(x, b)
            /\ x = <<>> \/ Len(b) - Len(x) + 1 \in dots
            /\ x = <<>> => b = <<>> \/ Last(b) = "." \/ dots = {}
<1> DEFINE x == Extension(b)
           dots == {k \in 2..(Len(b) - 1) : b[k] = "."}
           d == LastOf(b, ".")
<1>1. /\ Len(b) \in Nat /\ d \in 0..Len(b)
      /\ \A i \in 1..Len(b) : b[i] = "." => i <= d
      /\ d # 0 => b[d] = "."
  BY LenProperties, LastPlace DEF Texts
<1>2. x = IF d \in {0, 1, Len(b)} THEN <<>> ELSE From(b, d)
  BY Zenon DEF Extension
<1> HIDE DEF x, d
<1>3. CASE d \in {0, 1, Len(b)}
  <2>1. x = <<>>
    BY <1>2, <1>3
  <2>2. IsSuffix(<<>>, b)
    BY EmptySuffix DEF Texts
  <2>3. b = <<>> \/ Last(b) = "." \/ dots = {}
    <3>1. CASE Len(b) = 0
      BY <3>1, EmptySeq DEF Texts
    <3>2. CASE Len(b) # 0 /\ d = Len(b)
      BY <1>1, <3>2 DEF Last
    <3>3. CASE d \in {0, 1}
      BY <1>1, <3>3
    <3>4. QED BY <1>3, <3>1, <3>2, <3>3
  <2>4. QED BY <2>1, <2>2, <2>3 DEF x
<1>4. CASE d \notin {0, 1, Len(b)}
  <2>1. x = From(b, d) /\ d \in 2..(Len(b) - 1) /\ d \in 1..(Len(b) + 1)
    BY <1>1, <1>2, <1>4
  <2>2. Len(x) = Len(b) + 1 - d /\ IsSuffix(x, b)
    BY <2>1, FromProperties, SuffixFrom DEF Texts
  <2>3. Len(b) - Len(x) + 1 = d /\ d \in dots
    BY <1>1, <2>1, <2>2
  <2>4. x # <<>>
    <3>1. Len(x) # 0
      BY <1>1, <2>1, <2>2
    <3>2. QED BY <3>1
  <2>5. QED BY <2>2, <2>3, <2>4 DEF x
<1>5. QED BY <1>3, <1>4

LEMMA NamedParts ==
  ASSUME NEW v, NEW t, NEW b, v = Named(t, b)
  PROVE  v.filename = t /\ v.basename = b /\ v.extension = Extension(b)
  BY DEF Named

LEMMA NamesFromInv == RInv => NamesSplit
<1> SUFFICES ASSUME RInv, phase = "parsed", NEW i \in Indices(table), table[i].kind = "file",
                    NEW j \in DOMAIN values[i], values[i][j].filename # NoText
    PROVE  LET v == values[i][j]
               dots == {k \in 2..(Len(v.basename) - 1) : v.basename[k] = "."}
           IN /\ IsSuffix(v.basename, v.filename) /\ "/" \notin Range(v.basename)
              /\ v.basename \notin {<<".">>, <<".", ".">>}
              /\ IsSuffix(v.extension, v.basename)
              /\ v.extension = <<>> \/ Len(v.basename) - Len(v.extension) + 1 \in dots
              /\ v.extension = <<>> => v.basename = <<>> \/ Last(v.basename) = "." \/ dots = {}
  BY DEF NamesSplit
<1>1. FileOK(values[i][j])
  BY DEF RInv, ValuesOK
<1>2. PICK t \in Texts : values[i][j] = Named(t, BaseName(t))
  BY <1>1 DEF FileOK
<1> DEFINE b == BaseName(t)
<1>3. values[i][j].filename = t /\ values[i][j].basename = b /\ values[i][j].extension = Extension(b)
  <2> HIDE DEF b
  <2>1. values[i][j] = Named(t, b)
    BY <1>2 DEF b
  <2>2. QED BY <2>1, NamedParts
<1>4. b \in Texts /\ IsSuffix(b, t) /\ "/" \notin Range(b) /\ b \notin {<<".">>, <<".", ".">>}
  BY BaseNameSplit
<1> HIDE DEF b
<1>5. QED BY <1>3, <1>4, ExtensionSplit

(* Whatever a file name is made of: its base name is what is behind the    *)
(* last slash and its extension what begins with the last dot inside that, *)
(* and nothing else is stored (arg_basename, arg_extension, arg_file.c).   *)
THEOREM FileNamesSplit == Spec => []NamesSplit
<1>1. Init => RInv /\ Bounded
  BY InitReports, InitBounded
<1>2. RInv /\ Bounded /\ [Next]_vars => RInv' /\ Bounded'
  BY NextReports, NextBounded
<1>3. RInv => NamesSplit
  BY NamesFromInv
<1>4. QED BY <1>1, <1>2, <1>3, PTL DEF Spec

-----------------------------------------------------------------------------
(* Text in a column.                                                       *)

LEMMA TextPlaces ==
  ASSUME NEW text \in Texts
  PROVE  /\ Len(text) \in Nat /\ DOMAIN text = 1..Len(text)
         /\ \A i \in 1..Len(text) : At(text, i) = text[i]
         /\ At(text, Len(text) + 1) = "\\0"
<1>1. text \in Seq(Characters)
  BY DEF Texts, Characters
<1>2. Len(text) \in Nat /\ DOMAIN text = 1..Len(text)
  BY <1>1, LenProperties
<1>3. Len(text) + 1 \notin DOMAIN text
  BY <1>2
<1>4. QED BY <1>2, <1>3 DEF At

LEMMA PastPlace ==
  ASSUME NEW text \in Texts, NEW i \in 1..(Len(text) + 1), NEW set, "\\0" \notin set
  PROVE  /\ Past(text, i, set) \in i..(Len(text) + 1)
         /\ \A j \in i..(Past(text, i, set) - 1) : At(text, j) \in set
         /\ At(text, Past(text, i, set)) \notin set
<1> DEFINE S == {j \in i..(Len(text) + 1) : At(text, j) \notin set}
<1>1. Len(text) \in Nat /\ At(text, Len(text) + 1) = "\\0"
  BY TextPlaces
<1>2. Len(text) + 1 \in S /\ S \subseteq Nat
  BY <1>1
<1>3. Min(S) \in S /\ \A j \in S : Min(S) <= j
  <2> HIDE DEF S
  <2>1. S # {}
    BY <1>2
  <2>2. QED BY <1>2, <2>1, LeastPlace, LeastIsLeast
<1>4. Past(text, i, set) = Min(S)
  BY DEF Past
<1>5. ASSUME NEW j \in i..(Min(S) - 1) PROVE At(text, j) \in set
  <2>1. Min(S) \in i..(Len(text) + 1)
    BY <1>3
  <2> HIDE DEF S
  <2>2. j \in i..(Len(text) + 1) /\ ~ (Min(S) <= j)
    BY <1>1, <2>1
  <2>3. j \notin S
    BY <1>3, <2>2
  <2>4. QED BY <2>2, <2>3 DEF S
<1>6. QED BY <1>3, <1>4, <1>5

(* Where a word is broken, and where a line ends otherwise.                *)
Broken(text, width, from, to) ==
  \/ text[to - 1] \in Spaces \/ text[to] \in Spaces
  \/ to - from = width /\ \A i \in from..to : text[i] \notin Spaces

LEMMA LineEndPlace ==
  ASSUME NEW text \in Texts, NEW width \in Nat \ {0}, NEW start \in 1..(Len(text) + 1),
         At(text, start) \notin Spaces \ {"\n"}
  PROVE  LET end == LineEnd(text, start, width) IN
         /\ end \in start..(Len(text) + 1)
         /\ start <= Len(text) => end > start
         /\ (start <= Len(text) /\ text[start] = "\n") \/ end <= start + width
         /\ start <= Len(text) /\ text[start] # "\n" /\ end <= Len(text) => Broken(text, width, start, end)
<1> DEFINE breaks == {i \in (start + 1)..(start + width) : text[i] \in Spaces}
           end == LineEnd(text, start, width)
<1>1. Len(text) \in Nat /\ \A i \in 1..Len(text) : At(text, i) = text[i]
  BY TextPlaces
<1>2. CASE Len(text) + 1 - start <= width
  <2>1. end = Len(text) + 1
    BY <1>2 DEF LineEnd
  <2> HIDE DEF end
  <2>2. QED BY <1>1, <1>2, <2>1 DEF end
<1>3. CASE Len(text) + 1 - start > width
  <2>1. start <= Len(text) /\ start + width <= Len(text)
    BY <1>1, <1>3
  <2>2. text[start] = "\n" \/ text[start] \notin Spaces
    BY <1>1, <2>1
  <2>3. CASE breaks = {}
    <3>1. end = start + width
      BY <1>1, <1>3, <2>3 DEF LineEnd
    <3>2. ASSUME text[start] # "\n", NEW i \in start..(start + width) PROVE text[i] \notin Spaces
      <4>1. i = start \/ i \in (start + 1)..(start + width)
        OBVIOUS
      <4>2. QED BY <2>2, <2>3, <3>2, <4>1
    <3>3. text[start] # "\n" => Broken(text, width, start, start + width)
      <4>1. start + width - start = width
        OBVIOUS
      <4>2. QED BY <3>2, <4>1 DEF Broken
    <3> HIDE DEF end
    <3>4. QED BY <1>1, <2>1, <3>1, <3>3 DEF end
  <2>4. CASE breaks # {}
    <3> DEFINE m == Max(breaks)
    <3>1. m \in breaks
      <4>1. breaks \subseteq 0..(start + width) /\ start + width \in Nat
        OBVIOUS
      <4> HIDE DEF breaks
      <4>2. QED BY <2>4, <4>1, GreatestPlace
    <3>2. m \in (start + 1)..(start + width) /\ text[m] \in Spaces
      BY <3>1
    <3> DEFINE solid == {i \in start..m : text[i] \notin Spaces}
    <3>3. end = IF text[start] = "\n" THEN m + 1 ELSE Max(solid) + 1
      <4>1. ~ (Len(text) + 1 - start <= width) /\ ~ (Len(text) + 1 - start > width /\ breaks = {})
        BY <1>1, <1>3, <2>4
      <4> HIDE DEF breaks
      <4>2. QED BY Zenon, <4>1 DEF LineEnd, breaks
    <3> HIDE DEF m, breaks, end
    <3>4. CASE text[start] = "\n"
      <4>1. end = m + 1
        BY <3>3, <3>4
      <4>2. QED BY <1>1, <2>1, <3>2, <3>4, <4>1 DEF end
    <3>5. CASE text[start] # "\n"
      <4> DEFINE last == Max(solid)
      <4>1. start \in solid
        BY <2>2, <3>2, <3>5
      <4>2. last \in solid /\ \A i \in solid : i <= last
        <5>1. solid \subseteq 0..m /\ m \in Nat /\ solid # {}
          BY <3>2, <4>1
        <5> HIDE DEF solid
        <5>2. QED BY <5>1, GreatestPlace
      <4>3. last \in start..m /\ text[last] \notin Spaces /\ end = last + 1
        BY <3>3, <3>5, <4>2
      <4> HIDE DEF last
      <4>4. last # m
        BY <3>2, <4>3
      <4>5. last + 1 \in start..m /\ ~ (last + 1 <= last)
        BY <3>2, <4>3, <4>4
      <4>6. last + 1 \notin solid
        <5> HIDE DEF solid
        <5>1. QED BY <4>2, <4>5 DEF last
      <4>7. text[end] \in Spaces
        BY <4>3, <4>5, <4>6
      <4>8. end \in (start + 1)..(start + width)
        BY <3>2, <4>3, <4>5
      <4>9. QED BY <2>1, <4>7, <4>8 DEF Broken, end
    <3>6. QED BY <3>4, <3>5
  <2>5. QED BY <2>3, <2>4
<1>4. QED BY <1>1, <1>2, <1>3

(* A line and where the next one begins: nothing but blanks is between     *)
(* them, and a word that goes on in the next line had to be broken.        *)
LinePlaces(text) == 1..(Len(text) + 1)
BlankBetween(text, i, j) == \A k \in i..(j - 1) : text[k] \in Spaces
Continues(text, to, next) == to <= next /\ BlankBetween(text, to, next)
BreakOK(text, width, from, to, next) == next = to /\ to > 1 => Broken(text, width, from, to)

(* What a round adds to the lines.                                         *)
LEMMA RoundAdds ==
  ASSUME NEW text \in Texts, NEW width \in Nat \ {0}, NEW lmargin \in Nat, NEW s, s.start \in 1..Len(text)
  PROVE  \E from, to, start \in LinePlaces(text), indent \in {0, lmargin} :
           /\ Round(text, lmargin, width, s) = [lines |-> Append(s.lines, Line(s.indent, from, to)), start |-> start, indent |-> indent]
           /\ to - from \in 0..width /\ Continues(text, s.start, from)
           /\ start > s.start /\ Continues(text, to, start)
           /\ start <= Len(text) => BreakOK(text, width, from, to, start)
<1> DEFINE from == Past(text, s.start, Spaces \ {"\n"})
           end == LineEnd(text, from, width)
           S == {i \in from..(end - 1) : text[i] = "\n"} \cup {end}
           to == Min(S)
           start == IF to < end THEN to + 1 ELSE to
           indent == IF end <= Len(text) THEN lmargin ELSE 0
<1>1. Len(text) \in Nat /\ (\A i \in 1..Len(text) : At(text, i) = text[i]) /\ ~ (s.start > Len(text))
  BY TextPlaces
<1>2. from \in s.start..(Len(text) + 1) /\ At(text, from) \notin Spaces \ {"\n"} /\ Continues(text, s.start, from)
  <2> DEFINE set == Spaces \ {"\n"}
  <2>1. "\\0" \notin set /\ set \subseteq Spaces
    BY DEF Spaces
  <2> HIDE DEF set
  <2>2. s.start \in 1..(Len(text) + 1)
    BY <1>1
  <2>3. /\ Past(text, s.start, set) \in s.start..(Len(text) + 1)
        /\ \A j \in s.start..(Past(text, s.start, set) - 1) : At(text, j) \in set
        /\ At(text, Past(text, s.start, set)) \notin set
    BY <2>1, <2>2, PastPlace
  <2>4. \A j \in s.start..(Past(text, s.start, set) - 1) : j \in 1..Len(text)
    BY <1>1, <2>3
  <2>5. BlankBetween(text, s.start, Past(text, s.start, set))
    BY <1>1, <2>1, <2>3, <2>4 DEF BlankBetween
  <2>6. s.start <= Past(text, s.start, set)
    BY <1>1, <2>3
  <2>7. QED BY <2>3, <2>5, <2>6 DEF Continues, set
<1> HIDE DEF from
<1>3. from \in LinePlaces(text)
  BY <1>1, <1>2 DEF LinePlaces
<1>4. /\ end \in from..(Len(text) + 1)
      /\ from <= Len(text) => end > from
      /\ (from <= Len(text) /\ text[from] = "\n") \/ end <= from + width
      /\ from <= Len(text) /\ text[from] # "\n" /\ end <= Len(text) => Broken(text, width, from, end)
  BY <1>2, <1>3, LineEndPlace DEF LinePlaces
<1> HIDE DEF end
<1>5. to \in S /\ \A j \in S : to <= j
  <2>1. S \subseteq Nat /\ S # {}
    BY <1>1, <1>3, <1>4 DEF LinePlaces
  <2> HIDE DEF S
  <2>2. QED BY <2>1, LeastPlace, LeastIsLeast
<1> HIDE DEF to
<1>6. to \in from..end /\ (to < end => text[to] = "\n")
  BY <1>3, <1>4, <1>5 DEF LinePlaces
<1>7. from <= Len(text) /\ text[from] = "\n" => to = from
  <2>1. SUFFICES ASSUME from <= Len(text), text[from] = "\n" PROVE to = from
    OBVIOUS
  <2>2. from \in from..(end - 1)
    BY <1>1, <1>3, <1>4, <2>1 DEF LinePlaces
  <2>3. from \in S
    BY <2>1, <2>2
  <2> HIDE DEF S
  <2>4. to <= from
    BY <1>5, <2>3
  <2>5. QED BY <1>1, <1>3, <1>6, <2>4 DEF LinePlaces
<1>8. to - from \in 0..width
  <2>1. CASE from <= Len(text) /\ text[from] = "\n"
    <3>1. to = from
      BY <1>7, <2>1
    <3>2. QED BY <1>3, <3>1 DEF LinePlaces
  <2>2. CASE ~ (from <= Len(text) /\ text[from] = "\n")
    <3>1. end <= from + width
      BY <1>4, <2>2
    <3>2. QED BY <1>1, <1>3, <1>4, <1>6, <3>1 DEF LinePlaces
  <2>3. QED BY <2>1, <2>2
<1>9. to \in LinePlaces(text) /\ start \in LinePlaces(text)
  BY <1>1, <1>3, <1>4, <1>6 DEF LinePlaces
<1>10. start > s.start
  <2>1. CASE from <= Len(text)
    BY <1>1, <1>2, <1>4, <1>6, <2>1
  <2>2. CASE ~ (from <= Len(text))
    BY <1>1, <1>2, <1>4, <1>6, <2>2
  <2>3. QED BY <2>1, <2>2
<1>11. Continues(text, to, start)
  <2>1. CASE to < end
    <3>1. start = to + 1 /\ text[to] \in Spaces
      BY <1>6, <2>1 DEF Spaces
    <3>2. \A k \in to..(start - 1) : k = to
      BY <1>9, <3>1 DEF LinePlaces
    <3>3. to <= start
      BY <1>9, <3>1 DEF LinePlaces
    <3>4. QED BY <3>1, <3>2, <3>3 DEF Continues, BlankBetween
  <2>2. CASE ~ (to < end)
    <3>1. start = to
      BY <2>2
    <3>2. to <= start /\ to..(start - 1) = {}
      BY <1>9, <3>1 DEF LinePlaces
    <3>3. QED BY <3>2 DEF Continues, BlankBetween
  <2>3. QED BY <2>1, <2>2
<1>12. start <= Len(text) => BreakOK(text, width, from, to, start)
  <2>1. SUFFICES ASSUME start <= Len(text), start = to PROVE Broken(text, width, from, to)
    BY DEF BreakOK
  <2>2. ~ (to < end)
    BY <1>9, <2>1 DEF LinePlaces
  <2>3. to = end /\ end <= Len(text) /\ from <= Len(text)
    BY <1>1, <1>3, <1>4, <1>6, <2>1, <2>2 DEF LinePlaces
  <2>4. text[from] # "\n"
    <3>1. SUFFICES ASSUME text[from] = "\n" PROVE FALSE
      OBVIOUS
    <3>2. to = from /\ end > from
      BY <1>4, <1>7, <2>3, <3>1
    <3>3. QED BY <1>3, <2>3, <3>2 DEF LinePlaces
  <2>5. QED BY <1>4, <2>3, <2>4
<1>13. Round(text, lmargin, width, s) = [lines |-> Append(s.lines, Line(s.indent, from, to)), start |-> start, indent |-> indent]
  BY Zenon, <1>1 DEF Round, from, end, to
<1>14. indent \in {0, lmargin}
  OBVIOUS
<1> HIDE DEF start, indent
<1>15. QED BY <1>3, <1>8, <1>2, <1>9, <1>10, <1>11, <1>12, <1>13, <1>14

LEMMA RoundStays ==
  ASSUME NEW text, NEW width, NEW lmargin, NEW s, s.start > Len(text)
  PROVE  Round(text, lmargin, width, s) = s
  BY DEF Round

(* The states of arg_print_formatted_ds's loop, and its invariant.         *)
Printed(text) == [indent : Nat, from : LinePlaces(text), to : LinePlaces(text)]
Rounds(text) == [lines : Seq(Printed(text)), start : LinePlaces(text), indent : Nat]
LinesKept(text, width, s) ==
  LET n == Len(s.lines) IN
  /\ \A k \in 1..n : s.lines[k].to - s.lines[k].from \in 0..width
  /\ \A k \in 1..(n - 1) :
       /\ Continues(text, s.lines[k].to, s.lines[k + 1].from)
       /\ BreakOK(text, width, s.lines[k].from, s.lines[k].to, s.lines[k + 1].from)
  /\ n > 0 =>
       /\ BlankBetween(text, 1, s.lines[1].from)
       /\ Continues(text, s.lines[n].to, s.start)
       /\ s.start <= Len(text) => BreakOK(text, width, s.lines[n].from, s.lines[n].to, s.start)
  /\ n = 0 => s.start = 1

LEMMA ContinuesOn ==
  ASSUME NEW text, NEW i \in Nat, NEW j \in Nat, NEW k \in Nat, Continues(text, i, j), Continues(text, j, k)
  PROVE  Continues(text, i, k) /\ (i = k => j = k)
<1>1. i <= j /\ j <= k
  BY DEF Continues
<1>2. \A n \in i..(k - 1) : n \in i..(j - 1) \/ n \in j..(k - 1)
  BY <1>1
<1>3. QED BY <1>1, <1>2 DEF Continues, BlankBetween

(* A round with what it adds keeps the invariant.                          *)
LEMMA RoundKeeps ==
  ASSUME NEW text \in Texts, NEW width \in Nat \ {0},
         NEW s \in Rounds(text), LinesKept(text, width, s), s.start <= Len(text),
         NEW from \in LinePlaces(text), NEW to \in LinePlaces(text), NEW start \in LinePlaces(text), NEW indent \in Nat,
         to - from \in 0..width, Continues(text, s.start, from), Continues(text, to, start),
         start <= Len(text) => BreakOK(text, width, from, to, start),
         NEW t, t = [lines |-> Append(s.lines, Line(s.indent, from, to)), start |-> start, indent |-> indent]
  PROVE  t \in Rounds(text) /\ LinesKept(text, width, t)
<1> DEFINE line == Line(s.indent, from, to)
           n == Len(s.lines)
<1>1. line \in Printed(text) /\ line.from = from /\ line.to = to
  BY DEF Line, Printed, Rounds
<1>2. s.lines \in Seq(Printed(text)) /\ s.start \in LinePlaces(text) /\ n \in Nat
  BY LenProperties DEF Rounds
<1> HIDE DEF line
<1>3. /\ Append(s.lines, line) \in Seq(Printed(text)) /\ Len(Append(s.lines, line)) = n + 1
      /\ \A k \in 1..n : Append(s.lines, line)[k] = s.lines[k]
      /\ Append(s.lines, line)[n + 1] = line
  BY <1>1, <1>2, AppendProperties
<1> DEFINE lines == Append(s.lines, line)
<1>4. t.lines = lines /\ t.start = start /\ t.indent = indent /\ t \in Rounds(text)
  <2>1. t = [lines |-> lines, start |-> start, indent |-> indent]
    BY DEF line
  <2> HIDE DEF lines
  <2>2. lines \in Seq(Printed(text))
    BY <1>3 DEF lines
  <2>3. QED BY <2>1, <2>2 DEF Rounds
<1>5. /\ lines \in Seq(Printed(text)) /\ Len(lines) = n + 1 /\ lines[n + 1] = line
      /\ \A k \in 1..n : lines[k] = s.lines[k]
  BY <1>3
<1> HIDE DEF lines
<1>6. Len(text) \in Nat
  BY TextPlaces
<1>7. \A k \in 1..n : s.lines[k].from \in LinePlaces(text) /\ s.lines[k].to \in LinePlaces(text)
  <2>1. SUFFICES ASSUME NEW k \in 1..n PROVE s.lines[k].from \in LinePlaces(text) /\ s.lines[k].to \in LinePlaces(text)
    OBVIOUS
  <2>2. s.lines[k] \in Printed(text)
    BY <1>2, ElementOfSeq
  <2>3. QED BY <2>2 DEF Printed
<1>8. \A k \in 1..(n + 1) : lines[k].to - lines[k].from \in 0..width
  <2>1. \A k \in 1..(n + 1) : k \in 1..n \/ k = n + 1
    BY <1>2
  <2>2. QED BY <1>1, <1>5, <2>1 DEF LinesKept
<1>9. \A k \in 1..n : Continues(text, lines[k].to, lines[k + 1].from) /\ BreakOK(text, width, lines[k].from, lines[k].to, lines[k + 1].from)
  <2>1. SUFFICES ASSUME NEW k \in 1..n
        PROVE  Continues(text, lines[k].to, lines[k + 1].from) /\ BreakOK(text, width, lines[k].from, lines[k].to, lines[k + 1].from)
    OBVIOUS
  <2>2. CASE k # n
    <3>1. k \in 1..(n - 1) /\ k + 1 \in 1..n
      BY <1>2, <2>2
    <3>2. lines[k] = s.lines[k] /\ lines[k + 1] = s.lines[k + 1]
      BY <1>5, <3>1
    <3>3. QED BY <3>1, <3>2 DEF LinesKept
  <2>3. CASE k = n
    <3>1. lines[k] = s.lines[n] /\ lines[k + 1] = line /\ n > 0 /\ n \in 1..n
      <4> HIDE DEF line, n
      <4>1. n > 0 /\ n \in 1..n
        BY <1>2, <2>3
      <4>2. lines[k] = s.lines[n]
        BY <1>5, <2>3, <4>1
      <4>3. lines[k + 1] = line
        BY <1>5, <2>3
      <4>4. QED BY <4>1, <4>2, <4>3
    <3>2. Continues(text, s.lines[n].to, s.start) /\ BreakOK(text, width, s.lines[n].from, s.lines[n].to, s.start)
      BY <3>1 DEF LinesKept
    <3>3. s.lines[n].to \in Nat /\ s.start \in Nat /\ from \in Nat
      <4>1. s.lines[n].to \in LinePlaces(text)
        BY <1>7, <3>1
      <4>2. LinePlaces(text) \subseteq Nat
        BY <1>6 DEF LinePlaces
      <4>3. QED BY <1>2, <4>1, <4>2
    <3>4. Continues(text, s.lines[n].to, from) /\ (s.lines[n].to = from => s.start = from)
      <4>1. Continues(text, s.start, from)
        BY <1>1
      <4>2. Continues(text, s.lines[n].to, s.start)
        BY <3>2
      <4> DEFINE end == s.lines[n].to
                 begin == s.start
      <4>3. end \in Nat /\ begin \in Nat /\ from \in Nat /\ Continues(text, end, begin) /\ Continues(text, begin, from)
        BY <3>3, <4>1, <4>2
      <4> HIDE DEF end, begin
      <4>4. Continues(text, end, from) /\ (end = from => begin = from)
        BY <4>3, ContinuesOn
      <4>5. QED BY <4>4 DEF end, begin
    <3>5. BreakOK(text, width, s.lines[n].from, s.lines[n].to, from)
      BY <3>2, <3>4 DEF BreakOK
    <3>6. QED BY <1>1, <3>1, <3>4, <3>5
  <2>4. QED BY <2>2, <2>3
<1>10. BlankBetween(text, 1, lines[1].from)
  <2>1. CASE n = 0
    <3>1. s.start = 1 /\ lines[1] = line
      BY <1>5, <2>1 DEF LinesKept
    <3>2. QED BY <1>1, <3>1 DEF Continues
  <2>2. CASE n # 0
    <3>0. n > 0 /\ 1 \in 1..n
      BY <1>2, <2>2
    <3>1. n > 0 /\ lines[1] = s.lines[1]
      BY <1>5, <3>0
    <3>2. QED BY <3>1 DEF LinesKept
  <2>3. QED BY <2>1, <2>2
<1>11. /\ Continues(text, lines[n + 1].to, start)
       /\ start <= Len(text) => BreakOK(text, width, lines[n + 1].from, lines[n + 1].to, start)
  BY <1>1, <1>5
<1>12. LinesKept(text, width, t)
  <2> DEFINE m == Len(t.lines)
  <2>1. m = n + 1 /\ m > 0 /\ m - 1 = n /\ m # 0
    BY <1>2, <1>4, <1>5
  <2>2. t.lines = lines /\ t.start = start
    BY <1>4
  <2> HIDE DEF m, n
  <2>3. QED BY <1>8, <1>9, <1>10, <1>11, <2>1, <2>2 DEF LinesKept, m
<1>13. QED BY <1>4, <1>12

(* What a round keeps and that it gets further, with any state.            *)
LEMMA RoundStep ==
  ASSUME NEW text \in Texts, NEW width \in Nat \ {0}, NEW lmargin \in Nat, NEW s \in Rounds(text)
  PROVE  LET t == Round(text, lmargin, width, s) IN
         /\ t \in Rounds(text)
         /\ LinesKept(text, width, s) => LinesKept(text, width, t)
         /\ t.start > s.start \/ t.start > Len(text)
<1> DEFINE t == Round(text, lmargin, width, s)
<1>1. Len(text) \in Nat /\ s.start \in LinePlaces(text) /\ s.lines \in Seq(Printed(text)) /\ s.indent \in Nat
  BY TextPlaces DEF Rounds
<1>2. CASE s.start > Len(text)
  BY <1>2, RoundStays
<1>3. CASE ~ (s.start > Len(text))
  <2>1. s.start \in 1..Len(text) /\ s.start <= Len(text)
    BY <1>1, <1>3 DEF LinePlaces
  <2>2. PICK from \in LinePlaces(text), to \in LinePlaces(text), start \in LinePlaces(text), indent \in {0, lmargin} :
           /\ Round(text, lmargin, width, s) = [lines |-> Append(s.lines, Line(s.indent, from, to)), start |-> start, indent |-> indent]
           /\ to - from \in 0..width /\ Continues(text, s.start, from)
           /\ start > s.start /\ Continues(text, to, start)
           /\ start <= Len(text) => BreakOK(text, width, from, to, start)
    BY <2>1, RoundAdds
  <2>3. indent \in Nat
    OBVIOUS
  <2> DEFINE line == Line(s.indent, from, to)
  <2>4. t = [lines |-> Append(s.lines, line), start |-> start, indent |-> indent]
    BY <2>2
  <2> HIDE DEF t
  <2>5. t.start = start /\ t.lines = Append(s.lines, line) /\ t.indent = indent
    <3> HIDE DEF line
    <3>1. QED BY <2>4
  <2>6. t \in Rounds(text)
    <3>1. line \in Printed(text)
      BY <1>1 DEF Line, Printed
    <3> HIDE DEF line
    <3>2. Append(s.lines, line) \in Seq(Printed(text))
      BY <1>1, <3>1, AppendProperties
    <3>3. QED BY <2>3, <2>4, <3>2 DEF Rounds
  <2>7. LinesKept(text, width, s) => LinesKept(text, width, t)
    BY <2>1, <2>2, <2>3, <2>4, RoundKeeps
  <2>8. QED BY <2>2, <2>5, <2>6, <2>7 DEF t
<1>4. QED BY <1>2, <1>3

(* The lines when nothing of the text is left.                             *)
LEMMA AllPrinted ==
  ASSUME NEW text \in Texts, NEW width \in Nat \ {0}, NEW s \in Rounds(text), LinesKept(text, width, s), s.start > Len(text)
  PROVE  InColumn(text, s.lines, width)
<1> DEFINE lines == s.lines
           n == Len(lines)
           next(k) == IF k < n THEN lines[k + 1].from ELSE Len(text) + 1
<1>1. Len(text) \in Nat /\ s.start = Len(text) + 1
  BY TextPlaces DEF Rounds, LinePlaces
<1>2. lines \in Seq(Printed(text)) /\ n \in Nat /\ DOMAIN lines = 1..n
  BY LenProperties DEF Rounds
<1>3. \A k \in 1..n : lines[k].to - lines[k].from \in 0..width
  BY DEF LinesKept
<1>4. ASSUME NEW k \in 1..n PROVE Continues(text, lines[k].to, next(k))
  <2>1. CASE k < n
    <3>1. k \in 1..(n - 1)
      BY <1>2, <2>1
    <3>2. QED BY <2>1, <3>1 DEF LinesKept
  <2>2. CASE ~ (k < n)
    <3>1. k = n /\ n > 0 /\ next(k) = s.start
      BY <1>1, <1>2, <2>2
    <3>2. QED BY <3>1 DEF LinesKept
  <2>3. QED BY <2>1, <2>2
<1>5. ASSUME NEW k \in 1..n, next(k) = lines[k].to, k < n, lines[k].to > 1
      PROVE  Broken(text, width, lines[k].from, lines[k].to)
  <2>1. k \in 1..(n - 1) /\ next(k) = lines[k + 1].from
    BY <1>2, <1>5
  <2>2. BreakOK(text, width, lines[k].from, lines[k].to, lines[k + 1].from)
    BY <2>1 DEF LinesKept
  <2>3. QED BY <1>5, <2>1, <2>2 DEF BreakOK
<1>6. lines # <<>> => BlankBetween(text, 1, lines[1].from)
  <2>1. lines # <<>> => n > 0
    BY <1>2, EmptySeq
  <2>2. QED BY <2>1 DEF LinesKept
<1> HIDE DEF lines
<1>7. QED BY <1>2, <1>3, <1>4, <1>5, <1>6 DEF InColumn, Continues, BlankBetween, Broken, lines

LEMMA AtFirstWrapped ==
  ASSUME NEW text \in Texts, NEW width
  PROVE  AtFirst \in Rounds(text) /\ LinesKept(text, width, AtFirst)
<1>1. 1 \in LinePlaces(text)
  BY TextPlaces DEF LinePlaces
<1>2. AtFirst.lines = <<>> /\ AtFirst.start = 1 /\ Len(AtFirst.lines) = 0
  BY DEF AtFirst
<1>3. AtFirst \in Rounds(text)
  BY <1>1 DEF AtFirst, Rounds
<1>4. QED BY <1>2, <1>3 DEF LinesKept

(* Whatever the text, its lines keep to the column.                        *)
LEMMA ColumnKept ==
  ASSUME NEW text \in Texts, NEW width \in Nat \ {0}, NEW lmargin \in Nat, NEW rmargin \in Int, rmargin - lmargin + 1 = width
  PROVE  InColumn(text, PrintFormatted(lmargin, rmargin, text), width)
<1> DEFINE n == Len(text)
           V == Rounds(text)
           Is(of) == of = [k \in 0..n |-> IF k = 0 THEN AtFirst ELSE Round(text, lmargin, rmargin - lmargin + 1, of[k - 1])]
           after == CHOOSE of : Is(of)
           step == [p \in V \X (1..n) |-> Round(text, lmargin, width, p[1])]
<1>1. n \in Nat
  BY TextPlaces
<1> HIDE DEF n
<1>2. Steps(n, V, AtFirst, step)
  <2>1. \A v \in V : Round(text, lmargin, width, v) \in V
    BY RoundStep
  <2>2. AtFirst \in V
    BY AtFirstWrapped
  <2> HIDE DEF V
  <2>3. step \in [V \X (1..n) -> V]
    BY <2>1
  <2>4. QED BY <1>1, <2>2, <2>3 DEF Steps
<1>3. PICK f \in [0..n -> V] : f[0] = AtFirst /\ \A k \in 1..n : f[k] = step[<<f[k - 1], k>>]
  <2> HIDE DEF step, V
  <2>1. QED BY <1>2, Iteration
<1>4. Is(f)
  <2> HIDE DEF V
  <2>1. \A k \in 0..n : k # 0 => k - 1 \in 0..n /\ k \in 1..n
    BY <1>1
  <2>2. \A k \in 0..n : k # 0 => f[k - 1] \in V
    BY <1>3, <2>1
  <2>3. \A k \in 0..n : k # 0 => f[k] = Round(text, lmargin, width, f[k - 1])
    BY <1>3, <2>1, <2>2
  <2>4. QED BY <1>3, <2>3
<1>5. Is(after)
  <2> HIDE DEF Is
  <2>1. QED BY <1>4
<1> HIDE DEF after
<1>6. after[0] = AtFirst /\ \A k \in 1..n : after[k] = Round(text, lmargin, width, after[k - 1])
  <2>1. 0 \in 0..n /\ \A k \in 1..n : k \in 0..n /\ k # 0
    BY <1>1
  <2>2. QED BY <1>5, <2>1
<1> DEFINE T == {k \in 0..n : after[k] \in V /\ LinesKept(text, width, after[k]) /\ (after[k].start > k \/ after[k].start > n)}
<1>7. ASSUME NEW k \in 0..n, 0..(k - 1) \subseteq T PROVE k \in T
  <2>1. CASE k = 0
    <3>1. AtFirst.start > 0
      BY DEF AtFirst
    <3>2. QED BY <1>6, <2>1, <3>1, AtFirstWrapped
  <2>2. CASE k # 0
    <3> DEFINE s == after[k - 1]
    <3>1. k \in 1..n /\ k - 1 \in T /\ after[k] = Round(text, lmargin, width, s)
      BY <1>6, <1>7, <2>2
    <3>2. s \in V /\ LinesKept(text, width, s) /\ (s.start > k - 1 \/ s.start > n)
      BY <3>1
    <3> HIDE DEF s
    <3>3. after[k] \in V /\ LinesKept(text, width, after[k]) /\ (after[k].start > s.start \/ after[k].start > n)
      BY <3>1, <3>2, RoundStep DEF n
    <3>4. s.start \in Nat /\ after[k].start \in Nat
      BY <1>1, <3>2, <3>3 DEF Rounds, LinePlaces, n
    <3>5. after[k].start > k \/ after[k].start > n
      <4> HIDE DEF V
      <4>1. QED BY <1>1, <3>2, <3>3, <3>4
    <3>6. QED BY <3>3, <3>5
  <2>3. QED BY <2>1, <2>2
<1>8. n \in T
  <2> HIDE DEF T
  <2>1. 0..n \subseteq T
    BY <1>1, <1>7, Everywhere
  <2>2. QED BY <1>1, <2>1
<1>9. PrintFormatted(lmargin, rmargin, text) = after[n].lines
  BY Zenon DEF PrintFormatted, after, n
<1>10. after[n] \in Rounds(text) /\ LinesKept(text, width, after[n]) /\ after[n].start > Len(text)
  BY <1>8 DEF n
<1>11. QED BY <1>9, <1>10, AllPrinted

LEMMA WrappedFromInv == (\A i \in Explained(table) : table[i].glossary \in Texts) => TextWrapped
<1> SUFFICES ASSUME NEW i \in Explained(table), table[i].glossary \in Texts, NEW lmargin \in 0..1, NEW width \in 1..4
    PROVE  InColumn(table[i].glossary, PrintGlossaryGnu(200, 25, lmargin, lmargin + width - 1, table)[i].lines, width)
  BY DEF TextWrapped
<1> DEFINE rmargin == lmargin + width - 1
           row == PrintGlossaryGnu(200, 25, lmargin, rmargin, table)[i]
           b == Filled(EndOf(200), Indented(table[i]), CatOptionv(table[i], <<",", " ">>))
           lines == PrintFormatted(lmargin, rmargin, table[i].glossary)
<1>1. row = [syntax |-> b.text, alone |-> Len(b.text) > 25, high |-> b.high, lines |-> lines]
  BY Zenon DEF PrintGlossaryGnu
<1>2. row.lines = lines
  <2> HIDE DEF row, b, lines
  <2>1. QED BY <1>1
<1>3. lmargin \in Nat /\ width \in Nat \ {0} /\ rmargin \in Int /\ rmargin - lmargin + 1 = width
  OBVIOUS
<1> HIDE DEF row, rmargin
<1>4. InColumn(table[i].glossary, lines, width)
  BY <1>3, ColumnKept
<1>5. QED BY <1>2, <1>4 DEF row, rmargin

(* Every glossary is a sequence of characters (EntriesAssumption), and no   *)
(* step changes the table.                                                 *)
LEMMA GlossariesFromInv == RInv => TextWrapped
<1> SUFFICES ASSUME RInv PROVE TextWrapped
  OBVIOUS
<1>1. \A i \in Explained(table) : table[i].glossary \in Texts
  BY DEF RInv, TableFit, Explained
<1>2. QED BY <1>1, WrappedFromInv

(* Whatever a glossary says, the lines of the help keep to their column,   *)
(* leave out nothing but blanks, and break a word only when it is wider    *)
(* than the column (arg_print_formatted_ds, argtable3.c).                  *)
THEOREM GlossariesWrapped == Spec => []TextWrapped
<1>1. Init => RInv /\ Bounded
  BY InitReports, InitBounded
<1>2. RInv /\ Bounded /\ [Next]_vars => RInv' /\ Bounded'
  BY NextReports, NextBounded
<1>3. RInv => TextWrapped
  BY GlossariesFromInv
<1>4. QED BY <1>1, <1>2, <1>3, PTL DEF Spec

-----------------------------------------------------------------------------
(* Names in a buffer.                                                      *)

(* What a syntax is written with: the characters of names and those that   *)
(* are put between them.                                                   *)
Letters == Characters \cup {"[", "]", "D", "=", " ", "-", "|", ","}
Written == Seq(Letters)

(* The pieces of a syntax: a name never comes first nor behind a name, so  *)
(* that arg_cat has set dest to the NUL when strncat is told the room.     *)
Piece == [name : BOOLEAN, src : Written]
PieceLists == {p \in Seq(Piece) : \A k \in DOMAIN p : p[k].name => k > 1 /\ ~p[k - 1].name}

LEMMA NoPieces == <<>> \in PieceLists
  BY DEF PieceLists

LEMMA PieceListsJoined ==
  ASSUME NEW p \in PieceLists, NEW q \in PieceLists
  PROVE  p \o q \in PieceLists
<1> DEFINE r == p \o q
<1>1. p \in Seq(Piece) /\ q \in Seq(Piece) /\ Len(p) \in Nat /\ Len(q) \in Nat /\ DOMAIN p = 1..Len(p) /\ DOMAIN q = 1..Len(q)
  BY LenProperties DEF PieceLists
<1>2. /\ r \in Seq(Piece) /\ Len(r) = Len(p) + Len(q) /\ DOMAIN r = 1..(Len(p) + Len(q))
      /\ \A i \in 1..(Len(p) + Len(q)) : r[i] = IF i <= Len(p) THEN p[i] ELSE q[i - Len(p)]
  BY <1>1, ConcatProperties, LenProperties
<1> HIDE DEF r
<1>3. ASSUME NEW k \in DOMAIN r, r[k].name PROVE k > 1 /\ ~r[k - 1].name
  <2>1. CASE k <= Len(p)
    <3>1. k \in DOMAIN p /\ p[k].name
      BY <1>1, <1>2, <1>3, <2>1
    <3>2. k > 1 /\ ~p[k - 1].name
      BY <3>1 DEF PieceLists
    <3>3. k - 1 \in 1..(Len(p) + Len(q)) /\ k - 1 <= Len(p)
      BY <1>1, <1>2, <2>1, <3>2
    <3>4. QED BY <1>2, <3>2, <3>3
  <2>2. CASE ~ (k <= Len(p))
    <3> DEFINE j == k - Len(p)
    <3>1. j \in DOMAIN q /\ q[j].name
      BY <1>1, <1>2, <1>3, <2>2
    <3>2. j > 1 /\ ~q[j - 1].name
      BY <3>1 DEF PieceLists
    <3>3. k - 1 \in 1..(Len(p) + Len(q)) /\ ~ (k - 1 <= Len(p)) /\ (k - 1) - Len(p) = j - 1 /\ k > 1
      BY <1>1, <1>2, <2>2, <3>2
    <3>4. r[k - 1] = q[j - 1]
      BY <1>2, <3>3
    <3>5. QED BY <3>2, <3>3, <3>4
  <2>3. QED BY <2>1, <2>2
<1>4. QED BY <1>2, <1>3 DEF PieceLists, r

LEMMA PutPiece ==
  ASSUME NEW src \in Written
  PROVE  Put(src) \in Piece /\ ~Put(src).name /\ PutName(src) \in Piece
  BY DEF Put, PutName, Piece

LEMMA OnePiece ==
  ASSUME NEW src \in Written
  PROVE  <<Put(src)>> \in PieceLists
<1> DEFINE x == Put(src)
<1>1. x \in Piece /\ ~x.name
  BY PutPiece
<1> HIDE DEF x
<1>2. <<x>> \in PieceLists
  BY <1>1 DEF PieceLists
<1>3. QED BY <1>2 DEF x

LEMMA TwoPieces ==
  ASSUME NEW src \in Written, NEW next \in Written
  PROVE  <<Put(src), PutName(next)>> \in PieceLists
<1> DEFINE x == Put(src)
           y == PutName(next)
<1>1. x \in Piece /\ ~x.name /\ y \in Piece
  BY PutPiece
<1> HIDE DEF x, y
<1>2. <<x, y>> \in Seq(Piece) /\ DOMAIN <<x, y>> = 1..2 /\ <<x, y>>[1] = x /\ <<x, y>>[2] = y
  BY <1>1
<1>3. <<x, y>> \in PieceLists
  BY <1>1, <1>2 DEF PieceLists
<1>4. QED BY <1>3 DEF x, y

LEMMA ShortTuples ==
  ASSUME NEW S, NEW a \in S, NEW b \in S
  PROVE  <<a>> \in Seq(S) /\ <<a, b>> \in Seq(S) /\ <<a, a, a, a>> \in Seq(S)
  OBVIOUS

LEMMA Marks ==
  /\ <<"[">> \in Written /\ <<"]">> \in Written /\ <<"D">> \in Written /\ <<"=">> \in Written /\ <<" ">> \in Written
  /\ <<"-", "-">> \in Written /\ <<"|">> \in Written /\ <<",", " ">> \in Written
  /\ <<" ", " ", " ", " ">> \in Written
<1>1. "[" \in Letters /\ "]" \in Letters /\ "D" \in Letters /\ "=" \in Letters /\ " " \in Letters
      /\ "-" \in Letters /\ "|" \in Letters /\ "," \in Letters
  BY Zenon DEF Letters
<1>2. <<"[">> \in Written /\ <<"]">> \in Written /\ <<"D">> \in Written /\ <<"=">> \in Written /\ <<" ">> \in Written
  BY <1>1, ShortTuples, Zenon DEF Written
<1>3. <<"-", "-">> \in Written /\ <<"|">> \in Written /\ <<",", " ">> \in Written
  BY <1>1, ShortTuples, Zenon DEF Written
<1>4. <<" ", " ", " ", " ">> \in Written
  BY <1>1, ShortTuples, Zenon DEF Written
<1>5. QED BY <1>2, <1>3, <1>4, Zenon

LEMMA DashLetter ==
  ASSUME NEW c \in Characters
  PROVE  <<"-", c>> \in Written
<1>1. "-" \in Letters /\ c \in Letters
  BY DEF Letters
<1>2. QED BY <1>1 DEF Written

LEMMA TextWritten ==
  ASSUME NEW text \in Texts
  PROVE  text \in Written
<1>1. text \in Seq(Characters) /\ Characters \subseteq Letters
  BY DEF Texts, Characters, Letters
<1>2. QED BY <1>1, SeqMonotonic DEF Written

LEMMA ValueLists ==
  ASSUME NEW e, NEW mark \in PieceLists
  PROVE  ValuePieces(e, mark) \in PieceLists
<1> DEFINE a == Put(<<"[">>)
           b == Put(Datatype(e))
           c == Put(<<"]">>)
<1>1. CASE ~Typed(e)
  BY <1>1, NoPieces DEF ValuePieces
<1>2. CASE Typed(e)
  <2>1. Datatype(e) = <<"D">>
    BY <1>2 DEF Typed, Datatype
  <2>2. a \in Piece /\ b \in Piece /\ c \in Piece /\ ~a.name /\ ~b.name /\ ~c.name
    BY <2>1, Marks, PutPiece
  <2>3. <<b>> \in PieceLists /\ <<a, b, c>> \in PieceLists
    <3> HIDE DEF a, b, c
    <3>1. <<a, b, c>> \in Seq(Piece) /\ DOMAIN <<a, b, c>> = 1..3
          /\ <<a, b, c>>[1] = a /\ <<a, b, c>>[2] = b /\ <<a, b, c>>[3] = c
      BY <2>2
    <3>2. <<a, b, c>> \in PieceLists
      BY <2>2, <3>1 DEF PieceLists
    <3>3. <<b>> \in PieceLists
      BY <2>2 DEF PieceLists
    <3>4. QED BY <3>2, <3>3
  <2>4. ValuePieces(e, mark) = mark \o (IF e.value = "optional" THEN <<a, b, c>> ELSE <<b>>)
    BY <1>2 DEF ValuePieces
  <2> HIDE DEF a, b, c
  <2>5. QED BY <2>3, <2>4, PieceListsJoined
<1>3. QED BY <1>1, <1>2

LEMMA SeparatedLists ==
  ASSUME NEW separator \in Written, NEW n \in Nat, NEW names \in [1..n -> PieceLists]
  PROVE  Separated(separator, names) \in PieceLists
<1> DEFINE x == <<Put(separator)>>
           seqs == [k \in DOMAIN names |-> IF k = Len(names) THEN names[k] ELSE names[k] \o x]
<1>1. x \in PieceLists
  BY OnePiece
<1>2. seqs \in [1..n -> PieceLists]
  <2> HIDE DEF x
  <2>1. \A k \in 1..n : names[k] \in PieceLists /\ names[k] \o x \in PieceLists
    BY <1>1, PieceListsJoined
  <2>2. QED BY <2>1
<1>3. FlattenSeq(seqs) \in PieceLists
  <2> HIDE DEF seqs
  <2>1. \A p, q \in PieceLists : p \o q \in PieceLists
    BY PieceListsJoined
  <2>2. QED BY <1>2, <2>1, NoPieces, FlattenKept
<1>4. QED BY <1>3, Zenon DEF Separated

(* An entry as the constructors make it.                                   *)
LEMMA OptionLists ==
  ASSUME NEW e, e.short \in Texts, e.long \in Seq(Texts)
  PROVE  CatOption(e) \in PieceLists
<1>1. <<Put(<<" ">>)>> \in PieceLists /\ <<Put(<<"=">>)>> \in PieceLists
  BY Marks, OnePiece
<1>2. CASE e.short # <<>>
  <2> DEFINE u == <<Put(<<"-", e.short[1]>>)>>
             v == ValuePieces(e, <<Put(<<" ">>)>>)
  <2>1. u \in PieceLists
    <3>1. e.short[1] \in Characters
      <4>1. e.short \in Seq(Characters)
        BY DEF Texts, Characters
      <4>2. QED BY <1>2, <4>1
    <3>2. QED BY <3>1, DashLetter, OnePiece
  <2>2. v \in PieceLists
    BY <1>1, ValueLists
  <2>3. CatOption(e) = u \o v
    BY <1>2 DEF CatOption
  <2> HIDE DEF u, v
  <2>4. QED BY <2>1, <2>2, <2>3, PieceListsJoined
<1>3. CASE e.short = <<>> /\ e.long # <<>>
  <2> DEFINE u == <<Put(<<"-", "-">>), PutName(e.long[1])>>
             v == ValuePieces(e, <<Put(<<"=">>)>>)
  <2>1. u \in PieceLists
    <3>1. e.long[1] \in Texts
      <4> HIDE DEF Texts
      <4>1. QED BY <1>3
    <3>2. QED BY <3>1, Marks, TwoPieces, TextWritten
  <2>2. v \in PieceLists
    BY <1>1, ValueLists
  <2>3. CatOption(e) = u \o v
    BY <1>3 DEF CatOption
  <2> HIDE DEF u, v
  <2>4. QED BY <2>1, <2>2, <2>3, PieceListsJoined
<1>4. CASE e.short = <<>> /\ e.long = <<>>
  <2>1. CatOption(e) = ValuePieces(e, <<>>)
    BY <1>4 DEF CatOption
  <2>2. QED BY <2>1, NoPieces, ValueLists
<1>5. QED BY <1>2, <1>3, <1>4

LEMMA OptionvLists ==
  ASSUME NEW e, e.short \in Texts, e.long \in Seq(Texts), NEW separator \in Written
  PROVE  CatOptionv(e, separator) \in PieceLists
<1> DEFINE both == IF e.short # <<>> /\ e.long # <<>> THEN <<Put(separator)>> ELSE <<>>
           mark == CASE e.long # <<>> -> <<Put(<<"=">>)>>
                     [] e.long = <<>> /\ e.short # <<>> -> <<Put(<<" ">>)>>
                     [] OTHER -> <<>>
           letters == [k \in DOMAIN e.short |-> <<Put(<<"-", e.short[k]>>)>>]
           names == [k \in DOMAIN e.long |-> <<Put(<<"-", "-">>), PutName(e.long[k])>>]
<1>1. <<Put(<<" ">>)>> \in PieceLists /\ <<Put(<<"=">>)>> \in PieceLists /\ <<Put(separator)>> \in PieceLists
  BY Marks, OnePiece
<1>2. both \in PieceLists
  BY <1>1, NoPieces
<1>3. mark \in PieceLists
  <2> DEFINE u == <<Put(<<" ">>)>>
             v == <<Put(<<"=">>)>>
  <2>1. u \in PieceLists /\ v \in PieceLists
    BY <1>1
  <2> HIDE DEF u, v
  <2>2. (CASE e.long # <<>> -> v [] e.long = <<>> /\ e.short # <<>> -> u [] OTHER -> <<>>) \in PieceLists
    BY <2>1, NoPieces
  <2>3. QED BY <2>2 DEF u, v
<1>4. letters \in [1..Len(e.short) -> PieceLists] /\ Len(e.short) \in Nat
  <2>1. Len(e.short) \in Nat /\ DOMAIN e.short = 1..Len(e.short) /\ \A k \in 1..Len(e.short) : e.short[k] \in Characters
    BY LenProperties, ElementOfSeq DEF Texts, Characters
  <2>2. \A k \in 1..Len(e.short) : <<Put(<<"-", e.short[k]>>)>> \in PieceLists
    BY <2>1, DashLetter, OnePiece
  <2>3. QED BY <2>1, <2>2
<1>5. names \in [1..Len(e.long) -> PieceLists] /\ Len(e.long) \in Nat
  <2> HIDE DEF Texts
  <2>1. Len(e.long) \in Nat /\ DOMAIN e.long = 1..Len(e.long) /\ \A k \in 1..Len(e.long) : e.long[k] \in Texts
    BY LenProperties, ElementOfSeq
  <2>2. \A k \in 1..Len(e.long) : <<Put(<<"-", "-">>), PutName(e.long[k])>> \in PieceLists
    BY <2>1, Marks, TwoPieces, TextWritten
  <2>3. QED BY <2>1, <2>2
<1>6. CatOptionv(e, separator) = Separated(separator, letters) \o both \o Separated(separator, names) \o ValuePieces(e, mark)
  BY Zenon DEF CatOptionv
<1> HIDE DEF both, mark, letters, names
<1>7. Separated(separator, letters) \in PieceLists /\ Separated(separator, names) \in PieceLists /\ ValuePieces(e, mark) \in PieceLists
  BY <1>3, <1>4, <1>5, SeparatedLists, ValueLists
<1>8. QED BY <1>2, <1>6, <1>7, PieceListsJoined

(* Between two calls of arg_cat and strncat: what is written keeps to the  *)
(* buffer, and dest is at the NUL unless strncat was last.                 *)
Buffers == [text : Written, dest : Nat, high : Nat]
WithinBuffer(b, end) == Len(b.text) <= end /\ b.high <= end
AtNul(b, end) == b.dest = Len(b.text) /\ b.dest <= end - 1

(* Texts that are the same up to n characters, and what is the two texts   *)
(* in a row up to there.                                                   *)
Agree(t, u, n) == \A i \in 1..n : (i <= Len(t) <=> i <= Len(u)) /\ (i <= Len(t) => t[i] = u[i])
InARow(t, b, src, n) ==
  \A i \in 1..n :
    /\ i <= Len(t) <=> i <= Len(b) + Len(src)
    /\ i <= Len(t) => t[i] = IF i <= Len(b) THEN b[i] ELSE src[i - Len(b)]

LEMMA RowsAgree ==
  ASSUME NEW n \in Nat, NEW m \in Nat, n <= m, NEW t, NEW u, NEW b \in Written, NEW c \in Written, NEW src \in Written,
         Agree(b, c, n), InARow(t, b, src, n), InARow(u, c, src, m)
  PROVE  Agree(t, u, n)
<1>1. Len(b) \in Nat /\ Len(c) \in Nat /\ Len(src) \in Nat
  BY LenProperties DEF Written
<1>2. SUFFICES ASSUME NEW i \in 1..n PROVE (i <= Len(t) <=> i <= Len(u)) /\ (i <= Len(t) => t[i] = u[i])
  BY DEF Agree
<1>3. i \in 1..m
  OBVIOUS
<1>4. CASE i <= Len(b)
  <2>1. i <= Len(c) /\ b[i] = c[i]
    BY <1>4 DEF Agree
  <2>2. QED BY <1>1, <1>3, <1>4, <2>1 DEF InARow
<1>5. CASE ~ (i <= Len(b))
  <2>1. Len(c) = Len(b)
    <3>1. Len(b) + 1 \in 1..n /\ ~ (Len(b) + 1 <= Len(b))
      BY <1>1, <1>5
    <3>2. ~ (Len(b) + 1 <= Len(c))
      BY <3>1 DEF Agree
    <3>3. Len(b) # 0 => Len(b) <= Len(c)
      <4>1. Len(b) # 0 => Len(b) \in 1..n
        BY <1>1, <3>1
      <4>2. QED BY <1>1, <4>1 DEF Agree
    <3>4. QED BY <1>1, <3>2, <3>3
  <2>2. QED BY <1>1, <1>3, <1>5, <2>1 DEF InARow
<1>6. QED BY <1>4, <1>5

LEMMA TwoLeast ==
  ASSUME NEW a \in Int, NEW b \in Int
  PROVE  Min({a, b}) = IF a <= b THEN a ELSE b
<1> DEFINE c == IF a <= b THEN a ELSE b
<1>1. c \in {a, b} /\ \A y \in {a, b} : c <= y
  OBVIOUS
<1>2. ASSUME NEW d \in {a, b}, \A y \in {a, b} : d <= y PROVE d = c
  BY <1>1, <1>2
<1> HIDE DEF c
<1>3. (CHOOSE x \in {a, b} : \A y \in {a, b} : x <= y) = c
  BY <1>1, <1>2
<1>4. QED BY <1>3 DEF Min, c

LEMMA TwoMost ==
  ASSUME NEW a \in Int, NEW b \in Int
  PROVE  Max({a, b}) = IF a >= b THEN a ELSE b
<1> DEFINE c == IF a >= b THEN a ELSE b
<1>1. c \in {a, b} /\ \A y \in {a, b} : c >= y
  OBVIOUS
<1>2. ASSUME NEW d \in {a, b}, \A y \in {a, b} : d >= y PROVE d = c
  BY <1>1, <1>2
<1> HIDE DEF c
<1>3. (CHOOSE x \in {a, b} : \A y \in {a, b} : x >= y) = c
  BY <1>1, <1>2
<1>4. QED BY <1>3 DEF Max, c

(* The beginnings of two texts in a row.                                   *)
LEMMA Beginnings ==
  ASSUME NEW b \in Written, NEW src \in Written, NEW at \in 0..Len(b), NEW k \in 0..Len(src)
  PROVE  LET t == SubSeq(b, 1, at) \o SubSeq(src, 1, k) IN
         /\ t \in Written /\ Len(t) = at + k
         /\ \A i \in 1..(at + k) : t[i] = IF i <= at THEN b[i] ELSE src[i - at]
<1> DEFINE x == SubSeq(b, 1, at)
           y == SubSeq(src, 1, k)
<1>1. Len(b) \in Nat /\ Len(src) \in Nat
  BY LenProperties DEF Written
<1>2. x \in Written /\ Len(x) = at /\ \A i \in 1..at : x[i] = b[i]
  <2>1. x \in Seq(Letters) /\ Len(x) = at
    BY <1>1, SubSeqProperties DEF Written
  <2>2. \A i \in 1..at : x[i] = b[i]
    BY <1>1 DEF Written
  <2>3. QED BY <2>1, <2>2 DEF Written
<1>3. y \in Written /\ Len(y) = k /\ \A i \in 1..k : y[i] = src[i]
  <2>1. y \in Seq(Letters) /\ Len(y) = k
    BY <1>1, SubSeqProperties DEF Written
  <2>2. \A i \in 1..k : y[i] = src[i]
    BY <1>1 DEF Written
  <2>3. QED BY <2>1, <2>2 DEF Written
<1> HIDE DEF x, y
<1>4. /\ x \o y \in Written /\ Len(x \o y) = at + k
      /\ \A i \in 1..(at + k) : (x \o y)[i] = IF i <= at THEN x[i] ELSE y[i - at]
  BY <1>1, <1>2, <1>3, ConcatProperties DEF Written
<1>5. \A i \in 1..(at + k) : i <= at => i \in 1..at
  BY <1>1
<1>6. \A i \in 1..(at + k) : ~ (i <= at) => i - at \in 1..k
  BY <1>1
<1>7. QED BY <1>2, <1>3, <1>4, <1>5, <1>6 DEF x, y

LEMMA CatKeeps ==
  ASSUME NEW end \in Nat \ {0}, NEW b \in Buffers, NEW src \in Written
  PROVE  LET c == Cat(end, b, src) IN
         /\ c \in Buffers
         /\ WithinBuffer(b, end) => WithinBuffer(c, end) /\ AtNul(c, end) /\ InARow(c.text, b.text, src, end - 1)
<1> DEFINE at == Min({Len(b.text), end - 1})
           k == Min({Len(src), end - 1 - at})
           t == SubSeq(b.text, 1, at) \o SubSeq(src, 1, k)
           high == Max({b.high, at + k})
           c == Cat(end, b, src)
<1>1. b.text \in Written /\ b.dest \in Nat /\ b.high \in Nat /\ Len(b.text) \in Nat /\ Len(src) \in Nat
  BY LenProperties DEF Buffers, Written
<1>2. c = [text |-> t, dest |-> at + k, high |-> high]
  BY Zenon DEF Cat
<1>3. at = IF Len(b.text) <= end - 1 THEN Len(b.text) ELSE end - 1
  BY <1>1, TwoLeast
<1> HIDE DEF at
<1>4. at \in 0..Len(b.text) /\ at <= end - 1
  BY <1>1, <1>3
<1>5. k = IF Len(src) <= end - 1 - at THEN Len(src) ELSE end - 1 - at
  BY <1>1, <1>4, TwoLeast
<1> HIDE DEF k
<1>6. k \in 0..Len(src) /\ at + k <= end - 1
  BY <1>1, <1>4, <1>5
<1>7. t \in Written /\ Len(t) = at + k /\ \A i \in 1..(at + k) : t[i] = IF i <= at THEN b.text[i] ELSE src[i - at]
  BY <1>1, <1>4, <1>6, Beginnings
<1> HIDE DEF t
<1>8. high = IF b.high >= at + k THEN b.high ELSE at + k
  BY <1>1, <1>4, <1>6, TwoMost
<1> HIDE DEF high
<1>9. high \in Nat /\ (b.high <= end => high <= end)
  BY <1>1, <1>4, <1>6, <1>8
<1>10. c.text = t /\ c.dest = at + k /\ c.high = high
  BY <1>2
<1>11. c \in Buffers
  BY <1>1, <1>2, <1>4, <1>6, <1>7, <1>9 DEF Buffers
<1> HIDE DEF c
<1>12. ASSUME WithinBuffer(b, end) PROVE WithinBuffer(c, end) /\ AtNul(c, end)
  BY <1>4, <1>6, <1>7, <1>9, <1>10, <1>12 DEF WithinBuffer, AtNul
<1>13. InARow(t, b.text, src, end - 1)
  <2>1. SUFFICES ASSUME NEW i \in 1..(end - 1)
        PROVE  /\ i <= Len(t) <=> i <= Len(b.text) + Len(src)
               /\ i <= Len(t) => t[i] = IF i <= Len(b.text) THEN b.text[i] ELSE src[i - Len(b.text)]
    BY DEF InARow
  <2>2. CASE Len(b.text) <= end - 1
    <3>1. at = Len(b.text)
      BY <1>3, <2>2
    <3>2. i <= at + k <=> i <= at + Len(src)
      BY <1>1, <1>4, <1>5
    <3>3. i <= at + k => i \in 1..(at + k)
      OBVIOUS
    <3>4. QED BY <1>7, <3>1, <3>2, <3>3
  <2>3. CASE ~ (Len(b.text) <= end - 1)
    <3>1. at = end - 1 /\ k = 0
      BY <1>1, <1>3, <1>4, <1>6, <2>3
    <3>2. i <= at + k /\ i <= Len(b.text) + Len(src) /\ i \in 1..(at + k) /\ i <= at /\ i <= Len(b.text)
      BY <1>1, <2>3, <3>1
    <3>3. QED BY <1>7, <3>2
  <2>4. QED BY <2>2, <2>3
<1>14. QED BY <1>10, <1>11, <1>12, <1>13 DEF c

LEMMA StrNCatKeeps ==
  ASSUME NEW end \in Nat \ {0}, NEW b \in Buffers, NEW src \in Written
  PROVE  LET c == StrNCat(end, b, src) IN
         /\ c \in Buffers
         /\ WithinBuffer(b, end) /\ AtNul(b, end) => WithinBuffer(c, end) /\ InARow(c.text, b.text, src, end - 1)
<1> DEFINE k == Min({Len(src), end - b.dest})
           t == b.text \o SubSeq(src, 1, k)
           high == Max({b.high, Len(t)})
           c == StrNCat(end, b, src)
<1>1. b.text \in Written /\ b.dest \in Nat /\ b.high \in Nat /\ Len(b.text) \in Nat /\ Len(src) \in Nat
  BY LenProperties DEF Buffers, Written
<1>2. c = [b EXCEPT !.text = t, !.high = Max({@, Len(t)})]
  BY Zenon DEF StrNCat
<1>3. k = IF Len(src) <= end - b.dest THEN Len(src) ELSE end - b.dest
  BY <1>1, TwoLeast
<1> HIDE DEF k
<1>4. t \in Written
  <2>1. SubSeq(src, 1, k) \in Seq(Letters)
    BY <1>1, <1>3, SubSeqProperties DEF Written
  <2>2. QED BY <1>1, <2>1, ConcatProperties DEF Written
<1>5. ASSUME WithinBuffer(b, end), AtNul(b, end)
      PROVE  /\ Len(t) <= end
             /\ InARow(t, b.text, src, end - 1)
  <2>1. b.dest = Len(b.text) /\ b.dest <= end - 1
    BY <1>5 DEF AtNul
  <2>2. k \in 0..Len(src) /\ Len(b.text) + k <= end
    <3>1. end - b.dest \in Nat
      BY <1>1, <2>1
    <3>2. k \in 0..Len(src) /\ k <= end - b.dest
      BY <1>1, <1>3, <3>1
    <3>3. QED BY <1>1, <2>1, <3>2
  <2>3. SubSeq(b.text, 1, Len(b.text)) = b.text
    BY <1>1 DEF Written
  <2>4. Len(b.text) \in 0..Len(b.text)
    BY <1>1
  <2>5. /\ Len(t) = Len(b.text) + k
        /\ \A i \in 1..(Len(b.text) + k) : t[i] = IF i <= Len(b.text) THEN b.text[i] ELSE src[i - Len(b.text)]
    <3> DEFINE u == SubSeq(b.text, 1, Len(b.text)) \o SubSeq(src, 1, k)
    <3>1. t = u
      BY <2>3
    <3>2. k \in 0..Len(src)
      BY <2>2
    <3>3. /\ Len(u) = Len(b.text) + k
          /\ \A i \in 1..(Len(b.text) + k) : u[i] = IF i <= Len(b.text) THEN b.text[i] ELSE src[i - Len(b.text)]
      BY <1>1, <2>4, <3>2, Beginnings
    <3> HIDE DEF t, u
    <3>4. QED BY <3>1, <3>3
  <2> HIDE DEF t
  <2>6. SUFFICES ASSUME NEW i \in 1..(end - 1)
        PROVE  /\ i <= Len(t) <=> i <= Len(b.text) + Len(src)
               /\ i <= Len(t) => t[i] = IF i <= Len(b.text) THEN b.text[i] ELSE src[i - Len(b.text)]
    BY <1>1, <2>2, <2>5 DEF InARow
  <2>7. i <= Len(b.text) + k <=> i <= Len(b.text) + Len(src)
    <3> DEFINE l == Len(b.text)
               m == Len(src)
    <3>1. k = IF m <= end - l THEN m ELSE end - l
      BY <1>3, <2>1
    <3>2. l \in Nat /\ l <= end - 1 /\ m \in Nat
      BY <1>1, <2>1
    <3> HIDE DEF k, l, m
    <3>3. i <= l + k <=> i <= l + m
      BY <3>1, <3>2
    <3>4. QED BY <3>3 DEF l, m
  <2>8. i <= Len(b.text) + k => i \in 1..(Len(b.text) + k)
    BY <1>1, <2>2
  <2>9. QED BY <2>5, <2>7, <2>8
<1> HIDE DEF t
<1>6. Len(t) \in Nat
  BY <1>4, LenProperties DEF Written
<1>7. high = (IF b.high >= Len(t) THEN b.high ELSE Len(t)) /\ high \in Nat
  BY <1>1, <1>6, TwoMost
<1> HIDE DEF high
<1>8. b = [text |-> b.text, dest |-> b.dest, high |-> b.high]
  BY DEF Buffers
<1>9. c = [text |-> t, dest |-> b.dest, high |-> high]
  BY <1>2, <1>8 DEF high
<1>10. c.text = t /\ c.dest = b.dest /\ c.high = high
  BY <1>9
<1>11. c \in Buffers
  BY <1>1, <1>4, <1>7, <1>9 DEF Buffers
<1> HIDE DEF c
<1>12. ASSUME WithinBuffer(b, end), AtNul(b, end) PROVE WithinBuffer(c, end)
  BY <1>1, <1>5, <1>6, <1>7, <1>10, <1>12 DEF WithinBuffer
<1>13. QED BY <1>5, <1>10, <1>11, <1>12 DEF c

LEMMA AddedType ==
  ASSUME NEW end \in Nat \ {0}, NEW b \in Buffers, NEW piece \in Piece
  PROVE  Added(end, b, piece) \in Buffers
  BY CatKeeps, StrNCatKeeps DEF Added, Piece

(* The buffer piece by piece.                                              *)
Filling(end, start, p, f) ==
  /\ f \in [0..Len(p) -> Buffers] /\ f[0] = start
  /\ \A k \in 1..Len(p) : f[k] = Added(end, f[k - 1], p[k])

LEMMA FilledBySteps ==
  ASSUME NEW end \in Nat \ {0}, NEW start \in Buffers, NEW p \in PieceLists
  PROVE  \E f : Filling(end, start, p, f) /\ f[Len(p)] = Filled(end, start, p)
<1> DEFINE n == Len(p)
           Is(of) == of = [k \in 0..n |-> IF k = 0 THEN start ELSE Added(end, of[k - 1], p[k])]
           after == CHOOSE of : Is(of)
           step == [q \in Buffers \X (1..n) |-> Added(end, q[1], p[q[2]])]
<1>1. n \in Nat /\ \A k \in 1..n : p[k] \in Piece
  BY LenProperties, ElementOfSeq DEF PieceLists
<1>2. \A v \in Buffers, k \in 1..n : Added(end, v, p[k]) \in Buffers
  BY <1>1, AddedType
<1> HIDE DEF n
<1>3. Steps(n, Buffers, start, step)
  <2>1. step \in [Buffers \X (1..n) -> Buffers]
    BY <1>2
  <2>2. QED BY <1>1, <2>1 DEF Steps
<1>4. PICK f \in [0..n -> Buffers] : f[0] = start /\ \A k \in 1..n : f[k] = step[<<f[k - 1], k>>]
  <2> HIDE DEF step
  <2>1. QED BY <1>3, Iteration
<1>5. \A k \in 0..n : k # 0 => k \in 1..n /\ f[k - 1] \in Buffers /\ f[k] = Added(end, f[k - 1], p[k])
  <2>1. \A k \in 0..n : k # 0 => k - 1 \in 0..n /\ k \in 1..n
    BY <1>1
  <2>2. \A k \in 0..n : k # 0 => f[k - 1] \in Buffers
    BY <1>4, <2>1
  <2>3. QED BY <1>4, <2>1, <2>2
<1> HIDE DEF step
<1>6. Is(f)
  BY <1>4, <1>5
<1>7. Is(after)
  <2> HIDE DEF Is
  <2>1. QED BY <1>6
<1>8. Filled(end, start, p) = after[n]
  BY Zenon DEF Filled, after, n
<1> HIDE DEF after
<1>9. after[0] = start /\ \A k \in 1..n : after[k] = Added(end, after[k - 1], p[k])
  <2>1. 0 \in 0..n /\ \A k \in 1..n : k \in 0..n /\ k # 0
    BY <1>1
  <2>2. QED BY <1>7, <2>1
<1>10. \A k \in 0..n : after[k] \in Buffers
  <2>1. \A k \in 1..n : after[k - 1] \in Buffers => after[k] \in Buffers
    BY <1>2, <1>9
  <2>2. QED BY <1>1, <1>9, <2>1, Kept
<1>11. after \in [0..n -> Buffers]
  <2>1. after = [k \in 0..n |-> after[k]]
    BY <1>7
  <2>2. QED BY <1>10, <2>1
<1>12. QED BY <1>8, <1>9, <1>11 DEF Filling, n

(* What fits in the buffer to begin with fits in the end.                  *)
Fits(end, p, f, k) == WithinBuffer(f[k], end) /\ (k > 0 /\ ~p[k].name => AtNul(f[k], end))

LEMMA StepFits ==
  ASSUME NEW end \in Nat \ {0}, NEW start \in Buffers, NEW p \in PieceLists, NEW f, Filling(end, start, p, f),
         NEW k \in 1..Len(p), Fits(end, p, f, k - 1)
  PROVE  Fits(end, p, f, k) /\ InARow(f[k].text, f[k - 1].text, p[k].src, end - 1)
<1>1. p \in Seq(Piece) /\ Len(p) \in Nat /\ DOMAIN p = 1..Len(p) /\ p[k] \in Piece
  BY LenProperties, ElementOfSeq DEF PieceLists
<1>2. k - 1 \in 0..Len(p)
  BY <1>1
<1>3. f[k - 1] \in Buffers /\ f[k] = Added(end, f[k - 1], p[k]) /\ p[k].src \in Written /\ WithinBuffer(f[k - 1], end)
  BY <1>1, <1>2 DEF Filling, Piece, Fits
<1>4. CASE p[k].name
  <2>1. k > 1 /\ ~p[k - 1].name
    BY <1>1, <1>4 DEF PieceLists
  <2>2. AtNul(f[k - 1], end)
    BY <1>1, <2>1 DEF Fits
  <2>3. f[k] = StrNCat(end, f[k - 1], p[k].src)
    BY <1>3, <1>4 DEF Added
  <2>4. QED BY <1>3, <1>4, <2>2, <2>3, StrNCatKeeps DEF Fits
<1>5. CASE ~p[k].name
  <2>1. f[k] = Cat(end, f[k - 1], p[k].src)
    BY <1>3, <1>5 DEF Added
  <2>2. QED BY <1>3, <1>5, <2>1, CatKeeps DEF Fits
<1>6. QED BY <1>4, <1>5

LEMMA AllFit ==
  ASSUME NEW end \in Nat \ {0}, NEW start \in Buffers, NEW p \in PieceLists, NEW f, Filling(end, start, p, f), WithinBuffer(start, end)
  PROVE  \A k \in 0..Len(p) : Fits(end, p, f, k)
<1> DEFINE T == {k \in 0..Len(p) : Fits(end, p, f, k)}
<1>1. Len(p) \in Nat
  BY LenProperties DEF PieceLists
<1>2. ASSUME NEW k \in 0..Len(p), 0..(k - 1) \subseteq T PROVE k \in T
  <2>1. CASE k = 0
    BY <2>1 DEF Filling, Fits
  <2>2. CASE k # 0
    <3>1. k \in 1..Len(p) /\ k - 1 \in T
      BY <1>1, <1>2, <2>2
    <3>2. QED BY <3>1, StepFits
  <2>3. QED BY <2>1, <2>2
<1> HIDE DEF T
<1>3. 0..Len(p) \subseteq T
  BY <1>1, <1>2, Everywhere
<1>4. QED BY <1>3 DEF T

(* Whatever the pieces are: what a small buffer holds is what a large one  *)
(* begins with.                                                            *)
LEMMA FilledKeeps ==
  ASSUME NEW end \in Nat \ {0}, NEW far \in Nat, end <= far, NEW start \in Buffers, WithinBuffer(start, end), NEW p \in PieceLists
  PROVE  LET b == Filled(end, start, p)
             full == Filled(far, start, p)
         IN b \in Buffers /\ full \in Buffers /\ WithinBuffer(b, end) /\ Agree(b.text, full.text, end - 1)
<1>1. Len(p) \in Nat /\ far \in Nat \ {0} /\ start.text \in Written /\ start.high \in Nat /\ Len(start.text) \in Nat
  BY LenProperties DEF PieceLists, Buffers, Written
<1>2. WithinBuffer(start, far)
  BY <1>1 DEF WithinBuffer
<1>3. PICK f : Filling(end, start, p, f) /\ f[Len(p)] = Filled(end, start, p)
  BY FilledBySteps
<1>4. PICK g : Filling(far, start, p, g) /\ g[Len(p)] = Filled(far, start, p)
  BY <1>1, FilledBySteps
<1>5. \A k \in 0..Len(p) : Fits(end, p, f, k)
  BY <1>3, AllFit
<1>6. \A k \in 0..Len(p) : Fits(far, p, g, k)
  BY <1>1, <1>2, <1>4, AllFit
<1> DEFINE T == {k \in 0..Len(p) : Agree(f[k].text, g[k].text, end - 1)}
<1>7. ASSUME NEW k \in 0..Len(p), 0..(k - 1) \subseteq T PROVE k \in T
  <2>1. CASE k = 0
    BY <1>3, <1>4, <2>1 DEF Filling, Agree
  <2>2. CASE k # 0
    <3>1. k \in 1..Len(p) /\ k - 1 \in 0..Len(p) /\ Agree(f[k - 1].text, g[k - 1].text, end - 1)
      BY <1>1, <1>7, <2>2
    <3>2. InARow(f[k].text, f[k - 1].text, p[k].src, end - 1)
      BY <1>3, <1>5, <3>1, StepFits
    <3>3. InARow(g[k].text, g[k - 1].text, p[k].src, far - 1)
      BY <1>1, <1>4, <1>6, <3>1, StepFits
    <3>4. f[k - 1].text \in Written /\ g[k - 1].text \in Written
      BY <1>3, <1>4, <3>1 DEF Filling, Buffers
    <3>5. p[k].src \in Written
      <4>1. p[k] \in Piece
        BY <3>1, ElementOfSeq DEF PieceLists
      <4>2. QED BY <4>1 DEF Piece
    <3>6. end - 1 \in Nat /\ far - 1 \in Nat /\ end - 1 <= far - 1
      BY <1>1
    <3>7. Agree(f[k].text, g[k].text, end - 1)
      BY <3>1, <3>2, <3>3, <3>4, <3>5, <3>6, RowsAgree
    <3>8. QED BY <3>7
  <2>3. QED BY <2>1, <2>2
<1> HIDE DEF T
<1>8. Len(p) \in T /\ Len(p) \in 0..Len(p)
  <2>1. 0..Len(p) \subseteq T
    BY <1>1, <1>7, Everywhere
  <2>2. QED BY <1>1, <2>1
<1>9. f[Len(p)] \in Buffers /\ g[Len(p)] \in Buffers /\ WithinBuffer(f[Len(p)], end)
  BY <1>3, <1>4, <1>5, <1>8 DEF Filling, Fits
<1>10. Agree(f[Len(p)].text, g[Len(p)].text, end - 1)
  BY <1>8 DEF T
<1>11. QED BY <1>3, <1>4, <1>9, <1>10

LEMMA PrefixKept ==
  ASSUME NEW size \in Nat \ {0, 1}, NEW t \in Written, NEW u \in Written, Agree(t, u, size - 2)
  PROVE  IsPrefix(SubSeq(t, 1, Min({size - 2, Len(t)})), u)
<1> DEFINE m == Min({size - 2, Len(t)})
           s == SubSeq(t, 1, m)
<1>1. Len(t) \in Nat /\ Len(u) \in Nat /\ size - 2 \in Nat
  BY LenProperties DEF Written
<1>2. m = IF size - 2 <= Len(t) THEN size - 2 ELSE Len(t)
  BY <1>1, TwoLeast
<1> HIDE DEF m
<1>3. m \in 0..Len(t) /\ m <= size - 2
  BY <1>1, <1>2
<1>4. s \in Seq(Letters) /\ Len(s) = m /\ \A i \in 1..m : s[i] = t[i]
  <2>1. s \in Seq(Letters) /\ Len(s) = m
    BY <1>1, <1>3, SubSeqProperties DEF Written
  <2>2. \A i \in 1..m : s[i] = t[i]
    BY <1>1, <1>3 DEF Written
  <2>3. QED BY <2>1, <2>2
<1> HIDE DEF s
<1>5. ASSUME NEW i \in 1..m PROVE i <= Len(u) /\ u[i] = s[i]
  <2>1. i \in 1..(size - 2) /\ i <= Len(t)
    BY <1>1, <1>3
  <2>2. QED BY <1>4, <2>1 DEF Agree
<1>6. m <= Len(u)
  <2>1. m = 0 \/ m \in 1..m
    BY <1>3
  <2>2. QED BY <1>1, <1>5, <2>1
<1>7. SubSeq(s, 1, m) = SubSeq(u, 1, m)
  <2>1. SubSeq(s, 1, m) \in Seq(Letters) /\ SubSeq(u, 1, m) \in Seq(Letters)
        /\ Len(SubSeq(s, 1, m)) = m /\ Len(SubSeq(u, 1, m)) = m
    BY <1>1, <1>3, <1>4, <1>6, SubSeqProperties DEF Written
  <2>2. \A i \in 1..m : SubSeq(s, 1, m)[i] = s[i] /\ SubSeq(u, 1, m)[i] = u[i]
    BY <1>1, <1>3, <1>4, <1>6 DEF Written
  <2>3. \A i \in 1..m : SubSeq(s, 1, m)[i] = SubSeq(u, 1, m)[i]
    BY <1>5, <2>2
  <2>4. QED BY <2>1, <2>3, SeqEqual
<1>8. QED BY <1>4, <1>6, <1>7 DEF IsPrefix, s, m

(* A syntax in a small buffer, beside the same in a large one.             *)
InBuffer(size, b, full) ==
  b.high < size /\ IsPrefix(SubSeq(b.text, 1, Min({size - 2, Len(b.text)})), full.text)

LEMMA SyntaxInBuffer ==
  ASSUME NEW size \in Nat \ {0, 1}, NEW far \in Nat, size <= far, NEW p \in PieceLists
  PROVE  InBuffer(size, Filled(EndOf(size), Empty, p), Filled(EndOf(far), Empty, p))
<1> DEFINE b == Filled(EndOf(size), Empty, p)
           full == Filled(EndOf(far), Empty, p)
<1>1. EndOf(size) = size - 1 /\ EndOf(far) = far - 1 /\ size - 1 \in Nat \ {0} /\ far - 1 \in Nat /\ size - 1 <= far - 1
  BY DEF EndOf
<1>2. Empty \in Buffers /\ WithinBuffer(Empty, size - 1)
  BY <1>1 DEF Empty, Buffers, Written, WithinBuffer
<1>3. b \in Buffers /\ full \in Buffers /\ WithinBuffer(b, size - 1) /\ Agree(b.text, full.text, (size - 1) - 1)
  BY <1>1, <1>2, FilledKeeps
<1> HIDE DEF b, full
<1>4. b.text \in Written /\ full.text \in Written /\ b.high \in Nat /\ b.high <= size - 1 /\ (size - 1) - 1 = size - 2
  BY <1>3 DEF Buffers, WithinBuffer
<1>5. IsPrefix(SubSeq(b.text, 1, Min({size - 2, Len(b.text)})), full.text)
  BY <1>3, <1>4, PrefixKept
<1>6. b.high < size
  BY <1>4
<1>7. QED BY <1>5, <1>6 DEF InBuffer, b, full

(* The glossary begins with an indentation of four, which dest is not at.  *)
LEMMA IndentedFits ==
  ASSUME NEW e
  PROVE  Indented(e) \in Buffers /\ WithinBuffer(Indented(e), 5)
<1> DEFINE four == <<" ", " ", " ", " ">>
<1>1. four \in Written /\ Len(four) = 4
  BY Marks
<1> HIDE DEF four
<1>2. Empty \in Buffers /\ WithinBuffer(Empty, 5)
  BY DEF Empty, Buffers, Written, WithinBuffer
<1>3. [text |-> four, dest |-> 0, high |-> 4] \in Buffers /\ WithinBuffer([text |-> four, dest |-> 0, high |-> 4], 5)
  <2> DEFINE b == [text |-> four, dest |-> 0, high |-> 4]
  <2>1. b.text = four /\ b.high = 4
    OBVIOUS
  <2>2. b \in Buffers
    BY <1>1 DEF Buffers
  <2>3. WithinBuffer(b, 5)
    <3> HIDE DEF b
    <3>1. Len(b.text) = 4 /\ b.high = 4
      BY <1>1, <2>1, Zenon
    <3>2. 4 <= 5
      OBVIOUS
    <3>3. QED BY <3>1, <3>2, Zenon DEF WithinBuffer
  <2>4. QED BY <2>2, <2>3
<1>4. Indented(e) \in {Empty, [text |-> four, dest |-> 0, high |-> 4]}
  BY DEF Indented, four
<1>5. QED BY <1>2, <1>3, <1>4

LEMMA GlossaryInBuffer ==
  ASSUME NEW size \in Nat, size >= 6, NEW column, NEW lmargin, NEW rmargin, NEW entries,
         NEW i \in Explained(entries), entries[i].short \in Texts, entries[i].long \in Seq(Texts)
  PROVE  PrintGlossaryGnu(size, column, lmargin, rmargin, entries)[i].high < size
<1> DEFINE p == CatOptionv(entries[i], <<",", " ">>)
           start == Indented(entries[i])
           b == Filled(EndOf(size), start, p)
           lines == PrintFormatted(lmargin, rmargin, entries[i].glossary)
           row == PrintGlossaryGnu(size, column, lmargin, rmargin, entries)[i]
<1>1. p \in PieceLists
  BY Marks, OptionvLists
<1>2. EndOf(size) = size - 1 /\ size - 1 \in Nat \ {0}
  BY DEF EndOf
<1>3. start \in Buffers /\ WithinBuffer(start, size - 1)
  <2>1. start \in Buffers /\ WithinBuffer(start, 5)
    BY IndentedFits
  <2> HIDE DEF start
  <2>2. Len(start.text) \in Nat /\ start.high \in Nat
    BY <2>1, LenProperties DEF Buffers, Written
  <2>3. QED BY <2>1, <2>2 DEF WithinBuffer
<1>4. b \in Buffers /\ WithinBuffer(b, size - 1)
  <2> HIDE DEF p, start
  <2>1. QED BY <1>1, <1>2, <1>3, FilledKeeps
<1>5. row = [syntax |-> b.text, alone |-> Len(b.text) > column, high |-> b.high, lines |-> lines]
  BY Zenon DEF PrintGlossaryGnu
<1>6. row.high = b.high
  <2> HIDE DEF row, b, lines
  <2>1. QED BY <1>5
<1> HIDE DEF b, row
<1>7. b.high \in Nat /\ b.high <= size - 1
  BY <1>4 DEF Buffers, WithinBuffer
<1>8. row.high < size
  BY <1>6, <1>7
<1>9. QED BY <1>8 DEF row

LEMMA SyntaxesInBuffer ==
  ASSUME NEW size \in Nat \ {0, 1}, NEW far \in Nat, size <= far, NEW e, e.short \in Texts, e.long \in Seq(Texts),
         NEW separator \in Written
  PROVE  /\ InBuffer(size, Syntax(size, e), Syntax(far, e))
         /\ InBuffer(size, Syntaxv(size, e, separator), Syntaxv(far, e, separator))
<1>1. CatOption(e) \in PieceLists /\ CatOptionv(e, separator) \in PieceLists
  BY OptionLists, OptionvLists
<1>2. QED BY <1>1, SyntaxInBuffer DEF Syntax, Syntaxv

LEMMA BuffersFromInv == RInv => BufferKept
<1> SUFFICES ASSUME RInv PROVE BufferKept
  OBVIOUS
<1>1. \A size \in 6..14 : size \in Nat \ {0, 1} /\ size >= 6 /\ size <= 200
  OBVIOUS
<1>2. 200 \in Nat
  OBVIOUS
<1>3. \A i \in Indices(table) : table[i].short \in Texts /\ table[i].long \in Seq(Texts)
  BY DEF RInv, TableFit
<1>4. \A i \in Explained(table) : i \in Indices(table)
  BY DEF Explained
<1> DEFINE bar == <<"|">>
<1>5. bar \in Written
  BY Marks, Zenon
<1> HIDE DEF bar
<1>6. \A size \in 6..14, i \in Indices(table) :
        /\ InBuffer(size, Syntax(size, table[i]), Syntax(200, table[i]))
        /\ InBuffer(size, Syntaxv(size, table[i], bar), Syntaxv(200, table[i], bar))
  BY <1>1, <1>2, <1>3, <1>5, SyntaxesInBuffer
<1>7. \A size \in 6..14, k \in Explained(table) : PrintGlossaryGnu(size, 6, 0, 1, table)[k].high < size
  BY <1>1, <1>3, <1>4, GlossaryInBuffer
<1>8. QED BY <1>6, <1>7, Zenon DEF BufferKept, InBuffer, bar

(* However long the names of an entry are, they are cut off where their    *)
(* buffer ends, and nothing is written behind it (arg_cat_option,          *)
(* arg_cat_optionv, arg_print_glossary_gnu_ds, argtable3.c).               *)
THEOREM BuffersNeverOverrun == Spec => []BufferKept
<1>1. Init => RInv /\ Bounded
  BY InitReports, InitBounded
<1>2. RInv /\ Bounded /\ [Next]_vars => RInv' /\ Bounded'
  BY NextReports, NextBounded
<1>3. RInv => BufferKept
  BY BuffersFromInv
<1>4. QED BY <1>1, <1>2, <1>3, PTL DEF Spec

-----------------------------------------------------------------------------
(* How much is stored, and what of integers.                               *)

(* No entry holds more values than its constructor made room for, and what *)
(* an integer entry holds is an int, or nothing where the text is optional *)
(* (arg_*_scanfn).                                                         *)
Ints == IntMin..IntMax
ValuesFit ==
  phase # "reset" =>
    \A i \in Indices(table) :
      /\ Len(values[i]) <= table[i].max
      /\ table[i].kind = "int" => values[i] \in Seq(Ints \cup {NoText})
(* A parse without errors has each entry as often as the table allows.     *)
CountsAllowed == phase = "parsed" /\ errors = <<>> => InCounts

(* The entries that arg_parse_check has seen have enough values, unless an *)
(* error was registered.                                                   *)
EnoughOf(i) == ~Lacks(table[i], values[i])
ChecksOK ==
  /\ phase = "check" /\ errors = <<>> => \A i \in Indices(table) : i < tabindex => EnoughOf(i)
  /\ phase = "parsed" /\ errors = <<>> => \A i \in Indices(table) : EnoughOf(i)
CInv == ValuesFit /\ ChecksOK

LEMMA TimesQuotient ==
  ASSUME NEW n \in Nat \ {0}, NEW a \in Nat
  PROVE  (a \div n) \in Nat /\ n * (a \div n) <= a
  OBVIOUS

(* The limits before a multiplication are those of what comes out.         *)
LEMMA ScaledFits ==
  ASSUME NEW n \in Nat \ {0}, NEW val \in Quotient(IntMin, n)..(IntMax \div n)
  PROVE  n * val \in Ints
<1>1. IntMax \in Nat
  BY ScaleAssumption
<1>2. (IntMax \div n) \in Nat /\ n * (IntMax \div n) <= IntMax
  BY <1>1, TimesQuotient
<1>3. ((IntMax + 1) \div n) \in Nat /\ n * ((IntMax + 1) \div n) <= IntMax + 1
  BY <1>1, TimesQuotient
<1>4. Quotient(IntMin, n) = -((IntMax + 1) \div n)
  <2>1. ~ (IntMin >= 0) /\ -IntMin = IntMax + 1
    BY <1>1 DEF IntMin
  <2>2. QED BY <2>1 DEF Quotient
<1> DEFINE p == IntMax \div n
           q == (IntMax + 1) \div n
<1>5. p \in Nat /\ q \in Nat /\ val \in Int /\ val <= p /\ -q <= val
  BY <1>2, <1>3, <1>4
<1> HIDE DEF p, q
<1>6. n * val <= n * p /\ n * (-q) <= n * val /\ n * (-q) = -(n * q)
  BY <1>5
<1>7. n * val \in Int
  BY <1>5
<1>8. n * p <= IntMax /\ n * q <= IntMax + 1 /\ n * p \in Int /\ n * q \in Int
  BY <1>2, <1>3, <1>5 DEF p, q
<1>9. n * val <= IntMax /\ -IntMax - 1 <= n * val
  <2> DEFINE x == n * val
             y == n * p
             z == n * q
  <2>1. x \in Int /\ y \in Int /\ z \in Int /\ x <= y /\ -z <= x /\ y <= IntMax /\ z <= IntMax + 1
    BY <1>6, <1>7, <1>8
  <2> HIDE DEF x, y, z
  <2>2. x <= IntMax /\ -IntMax - 1 <= x
    BY <1>1, <2>1
  <2>3. QED BY <2>2 DEF x
<1>10. QED BY <1>1, <1>7, <1>9 DEF Ints, IntMin

LEMMA OneCounts == 1 \in Nat \ {0}
  OBVIOUS

LEMMA IntScanned ==
  ASSUME NEW text, IntScan(text).error = ""
  PROVE  IntScan(text).value \in Ints
<1> DEFINE read == Converted(text)
           units == Units(text, read.end)
           result == [error |-> "", value |-> units.by * read.val]
<1>1. IntScan(text) = IntOf(text, read, units)
  BY Zenon DEF IntScan, IntRead
<1>2. Fault("BADINT").error # "" /\ Fault("OVERFLOW").error # ""
  <2>1. "BADINT" # "" /\ "OVERFLOW" # ""
    OBVIOUS
  <2>2. QED BY <2>1, ScanErrors, Zenon
<1>3. \E n \in Nat \ {0} : units = [by |-> n, least |-> Quotient(IntMin, n), most |-> IntMax \div n]
  <2>1. Kilo \in Nat \ {0} /\ Mega \in Nat \ {0} /\ Giga \in Nat \ {0} /\ 1 \in Nat \ {0}
    <3>1. Kilo \in Nat \ {0} /\ Mega \in Nat \ {0} /\ Giga \in Nat \ {0}
      BY ScaleAssumption, Zenon
    <3>2. QED BY <3>1, OneCounts, Zenon
  <2> DEFINE scale(n) == [by |-> n, least |-> Quotient(IntMin, n), most |-> IntMax \div n]
  <2> HIDE DEF read
  <2>2. units \in {scale(Kilo), scale(Mega), scale(Giga), scale(1)}
    <3> HIDE DEF scale
    <3>1. units = CASE DetectSuffix(text, read.end, <<"K", "B">>) -> scale(Kilo)
                    [] DetectSuffix(text, read.end, <<"M", "B">>) -> scale(Mega)
                    [] DetectSuffix(text, read.end, <<"G", "B">>) -> scale(Giga)
                    [] OTHER -> scale(1)
      BY Zenon DEF Units, scale
    <3> HIDE DEF units
    <3>2. QED BY <3>1
  <2> HIDE DEF units
  <2>3. QED BY <2>1, <2>2
<1> HIDE DEF read, units
<1>4. read.val \in units.least..units.most /\ IntScan(text) = result
  BY <1>1, <1>2 DEF IntOf
<1>5. PICK n \in Nat \ {0} : units = [by |-> n, least |-> Quotient(IntMin, n), most |-> IntMax \div n]
  BY <1>3
<1>6. units.by = n /\ units.least = Quotient(IntMin, n) /\ units.most = IntMax \div n
  BY <1>5
<1>7. n * read.val \in Ints
  BY <1>4, <1>6, ScaledFits
<1>8. IntScan(text).value = units.by * read.val
  <2>1. result.value = units.by * read.val
    OBVIOUS
  <2>2. IntScan(text).value = result.value
    <3> HIDE DEF result
    <3>1. QED BY <1>4
  <2>3. QED BY <2>1, <2>2, Zenon
<1>9. QED BY <1>6, <1>7, <1>8

(* One more value was accepted for an entry.                               *)
TakenIn(i, text) ==
  /\ Scan(table[i], values[i], text).error = ""
  /\ values' = [values EXCEPT ![i] = Append(@, Scan(table[i], values[i], text).value)]

LEMMA StoredFits ==
  ASSUME RInv, ValuesFit, phase # "reset", table' = table, NEW i, NEW text, TakenIn(i, text)
  PROVE  ValuesFit'
<1> DEFINE scan == Scan(table[i], values[i], text)
           list == values[i]
<1>1. scan = ScanText(table[i], text) /\ Len(list) # table[i].max
  <2>1. Fault("MAXCOUNT").error # ""
    BY ScanErrors
  <2>2. QED BY <2>1 DEF TakenIn, Scan
<1>2. Indices(table)' = Indices(table)
  BY DEF Indices, EndIndex
<1>3. DOMAIN values = Indices(table)
  BY DEF RInv, ValuesOK
<1>4. ASSUME NEW j \in Indices(table)
      PROVE  /\ Len(values'[j]) <= table[j].max
             /\ table[j].kind = "int" => values'[j] \in Seq(Ints \cup {NoText})
  <2>1. CASE j # i
    <3>1. values'[j] = values[j]
      BY <1>3, <2>1 DEF TakenIn
    <3>2. QED BY <3>1 DEF ValuesFit
  <2>2. CASE j = i
    <3>1. values'[j] = Append(list, scan.value)
      BY <1>3, <2>2 DEF TakenIn
    <3>2. PICK T : list \in Seq(T)
      BY <2>2 DEF RInv, ValuesOK
    <3>3. list \in Seq(T \cup {scan.value})
      BY <3>2, SeqMonotonic
    <3>4. Len(Append(list, scan.value)) = Len(list) + 1 /\ Len(list) \in Nat
      <4> HIDE DEF list, scan
      <4>1. QED BY <3>3, AppendProperties, LenProperties
    <3>5. Len(list) <= table[i].max /\ table[i].max \in Nat
      BY <2>2 DEF ValuesFit, RInv, TableFit
    <3>6. Len(values'[j]) <= table[j].max
      <4> HIDE DEF list, scan
      <4>1. QED BY <1>1, <2>2, <3>1, <3>4, <3>5
    <3>7. ASSUME table[i].kind = "int" PROVE values'[j] \in Seq(Ints \cup {NoText})
      <4>1. scan.value \in Ints \cup {NoText}
        <5>1. CASE text = NoText
          <6>1. scan = Accepted(NoText)
            BY <1>1, <3>7, <5>1 DEF ScanText
          <6>2. QED BY <6>1, ScanErrors
        <5>2. CASE text # NoText
          <6>1. scan = IntScan(text)
            BY <1>1, <3>7, <5>2 DEF ScanText
          <6>2. IntScan(text).error = ""
            BY <6>1 DEF TakenIn
          <6>3. QED BY <6>1, <6>2, IntScanned
        <5>3. QED BY <5>1, <5>2
      <4>2. list \in Seq(Ints \cup {NoText})
        BY <2>2, <3>7 DEF ValuesFit
      <4> HIDE DEF scan, list
      <4>3. QED BY <3>1, <4>1, <4>2, AppendProperties
    <3>8. QED BY <2>2, <3>6, <3>7
  <2>3. QED BY <2>1, <2>2
<1>5. QED BY <1>2, <1>4 DEF ValuesFit

LEMMA ScannedStores ==
  ASSUME NEW i, NEW text, NEW list, Scanned(i, text, list)
  PROVE  values' = values \/ TakenIn(i, text)
  BY DEF Scanned, TakenIn

(* What a step of the parse does to the values.                            *)
LEMMA ValuesStep ==
  ASSUME Parse, phase # "reset"
  PROVE  table' = table /\ (values' = values \/ \E i, text : TakenIn(i, text))
<1>1. CASE Walk \/ EndTagged
  BY <1>1 DEF Walk, EndTagged, fixed, results
<1>2. CASE LongOption
  <2> DEFINE outcome == LongOutcome(Tail(Word))
             empty == outcome.text = <<>> /\ table[outcome.val].value # "no"
             missing == Error("EMISSARG", TERMINATOR, Argument(outcome.next - 1))
             list == IF empty THEN Registered(errors, ErrorLimit, missing) ELSE errors
  <2>1. Refused(outcome) \/ Scanned(outcome.val, outcome.text, list)
    BY <1>2 DEF LongOption
  <2>2. table' = table
    BY <1>2 DEF LongOption, fixed
  <2> HIDE DEF outcome, list
  <2>3. QED BY <2>1, <2>2, ScannedStores DEF Refused
<1>3. CASE Malformed
  BY <1>3 DEF Malformed, Refused, fixed
<1>4. CASE ShortOption
  <2> DEFINE outcome == ShortOutcome(Word[1], Tail(Word))
  <2>1. Refused(outcome) \/ Scanned(outcome.val, outcome.text, errors)
    BY <1>4 DEF ShortOption
  <2>2. table' = table
    BY <1>4 DEF ShortOption, fixed
  <2> HIDE DEF outcome
  <2>3. QED BY <2>1, <2>2, ScannedStores DEF Refused
<1>5. CASE UntaggedDone \/ SkipEntry
  BY <1>5 DEF UntaggedDone, SkipEntry, fixed, results
<1>6. CASE TryEntry
  <2> DEFINE scan == Scan(table[tabindex], values[tabindex], argv[optind])
  <2>1. table' = table
    BY <1>6 DEF TryEntry, fixed
  <2>2. CASE scan.error = ""
    <3>1. values' = [values EXCEPT ![tabindex] = Append(@, scan.value)]
      BY <1>6, <2>2 DEF TryEntry
    <3>2. TakenIn(tabindex, argv[optind])
      BY <2>2, <3>1 DEF TakenIn
    <3>3. QED BY <2>1, <3>2
  <2>3. CASE scan.error # ""
    BY <1>6, <2>1, <2>3 DEF TryEntry
  <2>4. QED BY <2>2, <2>3
<1>7. CASE Reinstate \/ NotConsumed
  BY <1>7 DEF Reinstate, NotConsumed, fixed
<1>8. CASE Check \/ Checked
  BY <1>8 DEF Check, Checked, fixed, results
<1>9. CASE Reset
  BY <1>9 DEF Reset
<1>10. QED BY <1>1, <1>2, <1>3, <1>4, <1>5, <1>6, <1>7, <1>8, <1>9 DEF Parse

LEMMA ResetFits == RInv /\ Reset => CInv'
<1> SUFFICES ASSUME RInv, Reset PROVE CInv'
  OBVIOUS
<1>1. table' = table /\ phase' = "tagged" /\ values' = [i \in Indices(table) |-> <<>>]
  BY DEF Reset, fixed
<1>2. Indices(table)' = Indices(table)
  BY <1>1 DEF Indices, EndIndex
<1>3. \A i \in Indices(table) : Len(<<>>) <= table[i].max /\ <<>> \in Seq(Ints \cup {NoText})
  BY DEF RInv, TableFit
<1>4. ValuesFit'
  BY <1>1, <1>2, <1>3 DEF ValuesFit
<1>5. QED BY <1>1, <1>4 DEF CInv, ChecksOK

(* An error that is registered stays in the list.                          *)
LEMMA RegisteredStays ==
  ASSUME Bounded, NEW error
  PROVE  Registered(errors, ErrorLimit, error) # <<>>
<1> DEFINE full == [code |-> "ELIMIT", parent |-> TERMINATOR, text |-> NoText]
<1>1. ErrorLimit \in Nat \ {0} /\ Len(errors) <= ErrorLimit
  BY DEF Bounded, Fitting
<1>2. PICK T : errors \in Seq(T)
  BY DEF Bounded, Fitting
<1>3. Len(errors) \in Nat
  BY <1>2, LenProperties
<1>4. CASE Len(errors) < ErrorLimit
  <2>1. Registered(errors, ErrorLimit, error) = Append(errors, error)
    BY <1>4 DEF Registered
  <2>2. errors \in Seq(T \cup {error})
    BY <1>2, SeqMonotonic
  <2>3. Len(Append(errors, error)) = Len(errors) + 1
    BY <2>2, AppendProperties
  <2>4. Len(<<>>) = 0
    OBVIOUS
  <2>5. QED BY <1>3, <2>1, <2>3, <2>4
<1>5. CASE ~ (Len(errors) < ErrorLimit)
  <2>1. ErrorLimit \in 1..Len(errors)
    BY <1>1, <1>3, <1>5
  <2>2. Registered(errors, ErrorLimit, error) = [errors EXCEPT ![ErrorLimit] = full]
    BY <1>5 DEF Registered
  <2>3. DOMAIN [errors EXCEPT ![ErrorLimit] = full] = 1..Len(errors)
    <3>1. DOMAIN errors = 1..Len(errors)
      BY <1>2, LenProperties
    <3> HIDE DEF full
    <3>2. QED BY <3>1
  <2>4. ErrorLimit \notin DOMAIN <<>>
    OBVIOUS
  <2> HIDE DEF full
  <2>5. QED BY <2>1, <2>2, <2>3, <2>4
<1>6. QED BY <1>4, <1>5

LEMMA CheckFits == RInv /\ Bounded /\ ChecksOK /\ Check => ChecksOK'
<1> SUFFICES ASSUME RInv, Bounded, ChecksOK, Check PROVE ChecksOK'
  OBVIOUS
<1>1. /\ phase = "check" /\ phase' = "check" /\ table' = table /\ values' = values
      /\ tabindex < EndIndex(table) /\ tabindex' = tabindex + 1 /\ tabindex \in Nat \ {0} /\ EndIndex(table) \in Nat
  BY DEF Check, fixed, RInv, Walking, TableFit
<1>2. SUFFICES ASSUME errors' = <<>>, NEW i \in Indices(table), i < tabindex + 1 PROVE EnoughOf(i)
  <2>1. Indices(table)' = Indices(table) /\ \A i : EnoughOf(i)' <=> EnoughOf(i)
    BY <1>1 DEF Indices, EndIndex, EnoughOf
  <2>2. QED BY <1>1, <1>2, <2>1 DEF ChecksOK
<1>3. ~Lacks(table[tabindex], values[tabindex]) /\ errors = <<>>
  <2>1. \A error : ~ (errors' = Registered(errors, ErrorLimit, error))
    BY <1>2, RegisteredStays
  <2>2. QED BY <1>2, <2>1 DEF Check, Register
<1>4. CASE i = tabindex
  BY <1>3, <1>4 DEF EnoughOf
<1>5. CASE i # tabindex
  <2>1. i < tabindex
    BY <1>1, <1>2, <1>5 DEF Indices
  <2>2. QED BY <1>1, <1>3, <2>1 DEF ChecksOK
<1>6. QED BY <1>4, <1>5

LEMMA ParseChecks == RInv /\ Bounded /\ ChecksOK /\ Parse => ChecksOK'
<1> SUFFICES ASSUME RInv, Bounded, ChecksOK, Parse PROVE ChecksOK'
  OBVIOUS
<1>1. CASE Check
  BY <1>1, CheckFits
<1>2. CASE Checked
  <2>1. phase = "check" /\ phase' = "parsed" /\ table' = table /\ values' = values /\ errors' = errors /\ tabindex = EndIndex(table)
    BY <1>2 DEF Checked, fixed, results
  <2>2. Indices(table)' = Indices(table) /\ \A i : EnoughOf(i)' <=> EnoughOf(i)
    BY <2>1 DEF Indices, EndIndex, EnoughOf
  <2>3. \A i \in Indices(table) : i < tabindex
    BY <2>1 DEF Indices, RInv, TableFit
  <2>4. QED BY <2>1, <2>2, <2>3 DEF ChecksOK
<1>3. CASE UntaggedDone
  <2>1. phase' = (IF errors = <<>> THEN "check" ELSE "parsed") /\ tabindex' = 1 /\ errors' = errors /\ table' = table
    BY <1>3 DEF UntaggedDone, fixed, results
  <2>2. \A i \in Indices(table) : ~ (i < 1)
    BY DEF Indices
  <2>3. Indices(table)' = Indices(table)
    BY <2>1 DEF Indices, EndIndex
  <2>4. QED BY <2>1, <2>2, <2>3 DEF ChecksOK
<1>4. CASE phase' \in {"tagged", "untagged"}
  BY <1>4 DEF ChecksOK
<1>5. phase' \in {"tagged", "untagged"} \/ Check \/ Checked \/ UntaggedDone
  BY DEF Parse, Reset, Walk, EndTagged, LongOption, Malformed, ShortOption, Tagged, SkipEntry, TryEntry, Trying,
         Reinstate, NotConsumed, NoEntryLeft
<1>6. QED BY <1>1, <1>2, <1>3, <1>4, <1>5

LEMMA InitFits == Init => CInv
<1> SUFFICES ASSUME Init PROVE CInv
  OBVIOUS
<1>1. phase = "reset"
  BY DEF Init
<1>2. QED BY <1>1 DEF CInv, ValuesFit, ChecksOK

LEMMA ParseFits == RInv /\ Bounded /\ CInv /\ Parse => CInv'
<1> SUFFICES ASSUME RInv, Bounded, CInv, Parse PROVE CInv'
  OBVIOUS
<1>1. CASE phase = "reset"
  <2>1. Reset
    BY <1>1 DEF Parse, Walk, EndTagged, LongOption, Malformed, ShortOption, Tagged, UntaggedDone, SkipEntry, TryEntry, Trying,
         Reinstate, NotConsumed, NoEntryLeft, Check, Checked
  <2>2. QED BY <2>1, ResetFits
<1>2. CASE phase # "reset"
  <2>1. ChecksOK'
    BY ParseChecks DEF CInv
  <2>2. table' = table /\ (values' = values \/ \E i, text : TakenIn(i, text))
    BY <1>2, ValuesStep
  <2>3. CASE values' = values
    <3>1. Indices(table)' = Indices(table)
      BY <2>2 DEF Indices, EndIndex
    <3>2. QED BY <1>2, <2>1, <2>2, <2>3, <3>1 DEF CInv, ValuesFit
  <2>4. CASE values' # values
    <3>1. PICK i, text : TakenIn(i, text)
      BY <2>2, <2>4
    <3>2. ValuesFit'
      BY <1>2, <2>2, <3>1, StoredFits DEF CInv
    <3>3. QED BY <2>1, <3>2 DEF CInv
  <2>5. QED BY <2>3, <2>4
<1>3. QED BY <1>1, <1>2

LEMMA NextFits == RInv /\ Bounded /\ CInv /\ [Next]_vars => CInv'
<1> SUFFICES ASSUME RInv, Bounded, CInv, [Next]_vars PROVE CInv'
  OBVIOUS
<1>1. CASE Parse
  BY <1>1, ParseFits
<1>2. CASE UNCHANGED parsevars
  <2>1. table' = table /\ values' = values /\ errors' = errors /\ phase' = phase /\ tabindex' = tabindex
    BY <1>2 DEF parsevars, fixed, results, untagged
  <2>2. Indices(table)' = Indices(table) /\ \A i : EnoughOf(i)' <=> EnoughOf(i)
    BY <2>1 DEF Indices, EndIndex, EnoughOf
  <2>3. QED BY <2>1, <2>2 DEF CInv, ValuesFit, ChecksOK
<1>3. QED BY <1>1, <1>2, DriveKeepsParse DEF Next, Done, vars

LEMMA CountsFromInv == RInv /\ CInv => CountsAllowed
<1> SUFFICES ASSUME RInv, CInv, phase = "parsed", errors = <<>>, NEW i \in Indices(table), table[i].kind # "rem"
    PROVE  Len(values[i]) \in table[i].min..table[i].max
  BY DEF CountsAllowed, InCounts
<1>1. Len(values[i]) <= table[i].max /\ ~Lacks(table[i], values[i])
  BY DEF CInv, ValuesFit, ChecksOK, EnoughOf
<1>2. table[i].kind \notin {"rem", "end"} /\ table[i].min \in Nat /\ table[i].max \in Nat
  BY DEF RInv, TableFit, Kinds
<1>3. Len(values[i]) \in Nat
  BY LenProperties DEF RInv, ValuesOK
<1>4. ~ (Len(values[i]) < table[i].min)
  BY <1>1, <1>2 DEF Lacks
<1>5. QED BY <1>1, <1>2, <1>3, <1>4

(* No scan function writes behind the array its constructor made, an int   *)
(* that is stored is one in spite of its suffix, and a parse that leaves   *)
(* no error has each entry as often as the table allows (arg_*_scanfn,     *)
(* arg_int.c's limits, arg_parse_check).                                   *)
THEOREM ValuesInLimits == Spec => [](ValuesFit /\ CountsAllowed)
<1>1. Init => RInv /\ Bounded /\ CInv
  BY InitReports, InitBounded, InitFits
<1>2. RInv /\ Bounded /\ CInv /\ [Next]_vars => RInv' /\ Bounded' /\ CInv'
  BY NextReports, NextBounded, NextFits
<1>3. RInv /\ CInv => ValuesFit /\ CountsAllowed
  BY CountsFromInv DEF CInv
<1>4. QED BY <1>1, <1>2, <1>3, PTL DEF Spec
=============================================================================
