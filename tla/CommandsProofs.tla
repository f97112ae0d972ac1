---------------------------- MODULE CommandsProofs ----------------------------
(***************************************************************************)
(* Theorems about the dynamic string that commands leave their result in,  *)
(* for every set of calls and every size of its buffers, and about the     *)
(* registry as a whole: with its hash table and its string it implements   *)
(* a dictionary and a text.                                                *)
(***************************************************************************)
EXTENDS HashTableProofs

USE SizesAssumption, CharsAssumption

-----------------------------------------------------------------------------
(* Buffers and texts.                                                      *)

LEMMA MinIs ==
  ASSUME NEW S, S \subseteq Int, NEW x \in S, \A y \in S : x <= y
  PROVE  Min(S) = x
<1>1. \A z \in S : (\A y \in S : z <= y) => z = x
  BY Z3
<1>2. QED BY <1>1 DEF Min

Bytes == Chars \cup {NUL}
IsText(t) == t \in Seq(Chars)

LEMMA TextFacts ==
  ASSUME NEW t, IsText(t)
  PROVE  /\ t \in Seq(Bytes) /\ Len(t) \in Nat /\ DOMAIN t = 1..Len(t)
         /\ \A i \in 1..Len(t) : t[i] \in Chars /\ t[i] # NUL
<1>1. t \in Seq(Bytes)
  BY SeqMonotonic DEF IsText, Bytes
<1>2. QED BY <1>1, LenProperties, ElementOfSeq DEF IsText

(* A buffer that holds a text of n characters and zeros behind it.         *)
Holds(b, n) ==
  /\ b \in Seq(Bytes) /\ n \in Nat /\ n < Len(b)
  /\ \A i \in 1..Len(b) : (i <= n => b[i] # NUL) /\ (i > n => b[i] = NUL)

LEMMA TextOfBuffer ==
  ASSUME NEW b, NEW n, Holds(b, n)
  PROVE  /\ Len(b) \in Nat /\ DOMAIN b = 1..Len(b)
         /\ TextOf(b) \in Seq(Bytes) /\ Len(TextOf(b)) = n
         /\ \A i \in 1..n : TextOf(b)[i] = b[i]
<1> DEFINE ends == {i \in DOMAIN b : b[i] = NUL} \cup {Len(b) + 1}
<1>1. b \in Seq(Bytes) /\ n \in Nat /\ n < Len(b) /\ Len(b) \in Nat /\ DOMAIN b = 1..Len(b)
  BY LenProperties DEF Holds
<1>2. ends \subseteq Int /\ n + 1 \in ends /\ \A y \in ends : n + 1 <= y
  BY <1>1 DEF Holds
<1>3. Min(ends) = n + 1
  <2> HIDE DEF ends
  <2> QED BY <1>2, MinIs
<1>4. TextOf(b) = SubSeq(b, 1, n)
  <2>1. TextOf(b) = SubSeq(b, 1, Min(ends) - 1)
    BY DEF TextOf
  <2> HIDE DEF ends
  <2>2. Min(ends) - 1 = n
    BY <1>1, <1>3
  <2>3. QED BY <2>1, <2>2
<1>5. \A i \in 1..n : b[i] \in Bytes
  BY <1>1, ElementOfSeq
<1>6. /\ SubSeq(b, 1, n) \in Seq(Bytes)
      /\ Len(SubSeq(b, 1, n)) = n
      /\ \A i \in 1..n : SubSeq(b, 1, n)[i] = b[i]
  BY <1>1, <1>5, SubSeqProperties
<1>7. QED BY <1>1, <1>4, <1>6

LEMMA BufferText ==
  ASSUME NEW b, NEW n, Holds(b, n)
  PROVE  IsText(TextOf(b))
<1> DEFINE t == TextOf(b)
<1>1. t \in Seq(Bytes) /\ Len(t) = n /\ n \in Nat /\ \A i \in 1..n : t[i] = b[i]
  BY TextOfBuffer DEF Holds
<1>2. \A i \in 1..n : t[i] \in Bytes /\ t[i] # NUL
  <2>1. \A i \in 1..n : i \in 1..Len(b) /\ i <= n
    BY <1>1, TextOfBuffer DEF Holds
  <2>2. QED BY <1>1, <2>1, ElementOfSeq DEF Holds
<1> HIDE DEF t
<1>3. t \in [1..n -> Chars]
  <2>1. t \in [1..n -> Bytes]
    BY <1>1, LenProperties
  <2>2. QED BY <1>2, <2>1 DEF Bytes
<1>4. t \in Seq(Chars)
  BY <1>1, <1>3, SeqDef
<1>5. QED BY <1>4 DEF IsText, t

(* A text that is put into a larger buffer that was cleared.               *)
LEMMA PaddedHolds ==
  ASSUME NEW t, IsText(t), NEW size \in Nat, Len(t) < size
  PROVE  Holds(Padded(t, size), Len(t)) /\ Len(Padded(t, size)) = size
<1>1. Padded(t, size) \in [1..size -> Bytes]
  BY TextFacts DEF Padded, Bytes
<1>2. Padded(t, size) \in Seq(Bytes) /\ Len(Padded(t, size)) = size
  BY <1>1
<1>3. \A i \in 1..size : Padded(t, size)[i] = IF i <= Len(t) THEN t[i] ELSE NUL
  BY DEF Padded
<1>4. QED BY <1>2, <1>3, TextFacts DEF Holds
-----------------------------------------------------------------------------
(* The invariant: what StringInOrder says, and in which of three shapes.   *)
Counts == Int
Datas == {"sbuf", "append", "given"}
Structures ==
  [data : Datas, free_proc : FreeProcs, sbuf : Seq(Bytes), given : Seq(Bytes),
   append : Seq(Bytes), append_used : Counts, live : Counts]

Small(d) == d.data = "sbuf" /\ d.free_proc = "static" /\ d.append = <<>> /\ d.live = 0
Given(d) ==
  /\ d.data = "given" /\ d.append = <<>> /\ IsText(d.given)
  /\ d.live = IF d.free_proc = "static" THEN 0 ELSE 1
Appended(d, n) ==
  /\ d.data = "append" /\ d.free_proc = "static" /\ d.live = 1
  /\ Holds(d.append, n) /\ d.append_used \in 0..n
Sound(d) == d \in Structures /\ IsText(d.sbuf) /\ (Small(d) \/ Given(d) \/ \E n : Appended(d, n))

LEMMA NotNull == Null \in Seq(Bytes) /\ \A t : IsText(t) => t # Null
<1>1. Null \in Seq(Bytes)
  BY DEF Null, Bytes
<1>2. Len(Null) = 1 /\ Null[1] = NUL
  BY DEF Null
<1>3. ASSUME NEW t, IsText(t), t = Null PROVE FALSE
  <2>1. Len(t) = 1 /\ t[1] = NUL
    BY <1>2, <1>3
  <2>2. 1 \in 1..Len(t)
    BY <2>1
  <2>3. QED BY <1>3, <2>1, <2>2, TextFacts
<1>4. QED BY <1>1, <1>3

LEMMA EmptyText == IsText(<<>>) /\ <<>> \in Seq(Bytes) /\ Len(<<>>) = 0
  BY DEF IsText

LEMMA HoldsNotEmpty ==
  ASSUME NEW b, NEW n, Holds(b, n)
  PROVE  b # <<>>
  BY EmptyText DEF Holds

(* The text of a sound string is a text.                                   *)
LEMMA CStrText ==
  ASSUME NEW d, Sound(d)
  PROVE  /\ IsText(CStr(d)) /\ ~Dangling(d)
         /\ \A n : Appended(d, n) => CStr(d) = TextOf(d.append) /\ Len(CStr(d)) = n
<1>1. CASE Small(d)
  BY <1>1 DEF Small, Sound, CStr, Dangling, Appended
<1>2. CASE Given(d)
  BY <1>2, NotNull DEF Given, CStr, Dangling, Appended
<1>3. ASSUME NEW n, Appended(d, n)
      PROVE  CStr(d) = TextOf(d.append) /\ Len(CStr(d)) = n /\ IsText(CStr(d)) /\ ~Dangling(d)
  <2>1. d.append # <<>> /\ d.data = "append"
    BY <1>3, HoldsNotEmpty DEF Appended
  <2>2. ~Dangling(d) /\ CStr(d) = TextOf(d.append)
    BY <2>1 DEF Dangling, CStr
  <2>3. QED BY <1>3, <2>2, TextOfBuffer, BufferText DEF Appended
<1>4. QED BY <1>1, <1>2, <1>3 DEF Sound

(* A new string, and one that was reset, answer for no block.              *)
LEMMA CreatedSound == Sound(Created)
  BY EmptyText, NotNull DEF Created, Sound, Structures, Small, FreeProcs, Counts, Datas

LEMMA CreatedText == CStr(Created) = <<>>
  BY DEF Created, CStr, Dangling

(* What freeing the handed-in text and the append buffer leaves.           *)
Structure(data, fp, text, given, append, used, live) ==
  [data |-> data, free_proc |-> fp, sbuf |-> text, given |-> given,
   append |-> append, append_used |-> used, live |-> live]

LEMMA StructureFields ==
  ASSUME NEW data, NEW fp, NEW text, NEW given, NEW append, NEW used, NEW live,
         NEW e, e = Structure(data, fp, text, given, append, used, live)
  PROVE  /\ e.data = data /\ e.free_proc = fp /\ e.sbuf = text /\ e.given = given
         /\ e.append = append /\ e.append_used = used /\ e.live = live
  BY DEF Structure

LEMMA StructureType ==
  ASSUME NEW data, NEW fp, NEW text, NEW given, NEW append, NEW used, NEW live,
         data \in Datas /\ fp \in FreeProcs /\ text \in Seq(Bytes) /\ given \in Seq(Bytes)
           /\ append \in Seq(Bytes) /\ used \in Counts /\ live \in Counts
  PROVE  Structure(data, fp, text, given, append, used, live) \in Structures
  BY DEF Structures, Structure

LEMMA FieldTypes ==
  ASSUME NEW d \in Structures
  PROVE  /\ d.data \in Datas /\ d.free_proc \in FreeProcs /\ d.sbuf \in Seq(Bytes)
         /\ d.given \in Seq(Bytes) /\ d.append \in Seq(Bytes) /\ d.append_used \in Counts /\ d.live \in Counts
         /\ d.live - 1 \in Counts /\ d.live + 1 \in Counts
         /\ "static" \in FreeProcs /\ Null \in Seq(Bytes) /\ <<>> \in Seq(Bytes)
<1>1. d.live - 1 \in Counts /\ d.live + 1 \in Counts /\ "static" \in FreeProcs
  BY DEF Structures, FreeProcs, Counts
<1>2. QED BY <1>1, NotNull, EmptyText DEF Structures

LEMMA FreeFacts ==
  ASSUME NEW d \in Structures
  PROVE  /\ Free(d) \in Structures /\ Free(d).free_proc = "static"
         /\ Free(d).append = d.append /\ Free(d).sbuf = d.sbuf /\ Free(d).data = d.data
         /\ Free(d).append_used = d.append_used
         /\ Free(d).live = IF d.free_proc = "static" THEN d.live ELSE d.live - 1
<1>1. CASE d.free_proc = "static"
  BY <1>1 DEF Free
<1>2. CASE d.free_proc # "static"
  <2>1. Free(d) = [d EXCEPT !.free_proc = "static", !.given = Null, !.live = @ - 1]
    BY <1>2 DEF Free
  <2>2. Free(d) = Structure(d.data, "static", d.sbuf, Null, d.append, d.append_used, d.live - 1)
    BY <2>1 DEF Structures, Structure
  <2>3. Free(d) \in Structures
    BY <2>2, FieldTypes, StructureType
  <2>4. QED BY <1>2, <2>2, <2>3, StructureFields
<1>3. QED BY <1>1, <1>2

LEMMA DropFacts ==
  ASSUME NEW d \in Structures
  PROVE  /\ DropAppend(d) \in Structures /\ DropAppend(d).append = <<>>
         /\ DropAppend(d).free_proc = d.free_proc /\ DropAppend(d).sbuf = d.sbuf
         /\ DropAppend(d).data = d.data /\ DropAppend(d).given = d.given
         /\ DropAppend(d).live = IF d.append = <<>> THEN d.live ELSE d.live - 1
<1>1. CASE d.append = <<>>
  BY <1>1 DEF DropAppend
<1>2. CASE d.append # <<>>
  <2>1. DropAppend(d) = [d EXCEPT !.append = <<>>, !.live = @ - 1]
    BY <1>2 DEF DropAppend
  <2>2. DropAppend(d) = Structure(d.data, d.free_proc, d.sbuf, d.given, <<>>, d.append_used, d.live - 1)
    BY <2>1 DEF Structures, Structure
  <2>3. DropAppend(d) \in Structures
    <3>1. /\ d.data \in Datas /\ d.free_proc \in FreeProcs /\ d.sbuf \in Seq(Bytes)
          /\ d.given \in Seq(Bytes) /\ <<>> \in Seq(Bytes)
          /\ d.append_used \in Counts /\ d.live - 1 \in Counts
      BY FieldTypes
    <3>2. QED BY <2>2, <3>1, StructureType
  <2>4. QED BY <1>2, <2>2, <2>3, StructureFields
<1>3. QED BY <1>1, <1>2

(* The blocks that a sound string answers for.                             *)
LEMMA LiveFacts ==
  ASSUME NEW d, Sound(d)
  PROVE  /\ d \in Structures
         /\ d.live = (IF d.append = <<>> THEN 0 ELSE 1) + (IF d.free_proc = "static" THEN 0 ELSE 1)
         /\ d.append # <<>> => d.free_proc = "static"
<1>1. \A n : Appended(d, n) => d.append # <<>>
  BY HoldsNotEmpty DEF Appended
<1>2. QED BY <1>1 DEF Sound, Small, Given, Appended

LEMMA ResetSound ==
  ASSUME NEW d, Sound(d)
  PROVE  Sound(Reset(d)) /\ Reset(d).live = 0 /\ CStr(Reset(d)) = <<>>
<1> DEFINE f == Free(d)
<1> DEFINE g == DropAppend(f)
<1>1. /\ d \in Structures
      /\ d.live = (IF d.append = <<>> THEN 0 ELSE 1) + (IF d.free_proc = "static" THEN 0 ELSE 1)
  BY LiveFacts
<1>2. f \in Structures /\ f.free_proc = "static" /\ f.live = IF f.append = <<>> THEN 0 ELSE 1
  BY <1>1, FreeFacts
<1> HIDE DEF f
<1>3. g \in Structures /\ g.free_proc = "static" /\ g.append = <<>> /\ g.live = 0
  BY <1>2, DropFacts
<1>4. Reset(d) = [g EXCEPT !.data = "sbuf", !.sbuf = <<>>]
  BY DEF Reset, f
<1> HIDE DEF g
<1>5. Reset(d) = Structure("sbuf", "static", <<>>, g.given, <<>>, g.append_used, 0)
  BY <1>3, <1>4 DEF Structures, Structure
<1>6. Reset(d) \in Structures
  <2>1. "sbuf" \in Datas /\ 0 \in Counts
    BY DEF Datas, Counts
  <2>2. QED BY <1>3, <1>5, <2>1, FieldTypes, StructureType
<1>7. Sound(Reset(d)) /\ Reset(d).live = 0
  BY <1>5, <1>6, StructureFields, EmptyText DEF Sound, Small
<1>8. CStr(Reset(d)) = <<>>
  <2>1. Reset(d).data = "sbuf" /\ Reset(d).sbuf = <<>>
    BY <1>5, StructureFields
  <2>2. QED BY <2>1 DEF CStr, Dangling
<1>9. QED BY <1>7, <1>8
-----------------------------------------------------------------------------
(* Setting a text.                                                         *)
Written(str) == IF str = Null THEN <<>> ELSE str
TookText(e, d, str) ==
  /\ e \in Structures /\ IsText(e.sbuf) /\ e.append = d.append
  /\ \/ e.data = "sbuf" /\ e.free_proc = "static" /\ e.live = d.live /\ e.sbuf = Written(str)
     \/ /\ e.data = "given" /\ IsText(e.given) /\ e.given = Written(str)
        /\ e.live = IF e.free_proc = "static" THEN d.live ELSE d.live + 1

LEMMA TakenFacts ==
  ASSUME NEW d \in Structures, IsText(d.sbuf), NEW str, IsText(str) \/ str = Null, NEW fp \in FreeProcs
  PROVE  TookText(Taken(d, str, fp), d, str)
<1> DEFINE e == Taken(d, str, fp)
<1> SUFFICES TookText(e, d, str)
  OBVIOUS
<1>1. /\ d.sbuf \in Seq(Bytes) /\ d.given \in Seq(Bytes) /\ d.append \in Seq(Bytes) /\ <<>> \in Seq(Bytes)
      /\ d.append_used \in Counts /\ d.live \in Counts /\ d.live + 1 \in Counts
  BY FieldTypes
<1>2. "sbuf" \in Datas /\ "given" \in Datas /\ "static" \in FreeProcs /\ "dynamic" \in FreeProcs
  BY DEF Datas, FreeProcs
<1>3. CASE str = Null
  <2>1. e = Structure("sbuf", "static", <<>>, d.given, d.append, d.append_used, d.live)
    BY <1>3 DEF Taken, Structures, Structure
  <2>2. e \in Structures
    BY <1>1, <1>2, <2>1, StructureType
  <2>3. QED BY <1>3, <2>1, <2>2, StructureFields, EmptyText DEF TookText, Written
<1>4. CASE str # Null
  <2>1. IsText(str) /\ str \in Seq(Bytes) /\ Len(str) \in Nat /\ ARG_DSTR_SIZE \in Nat
    BY <1>4, TextFacts
  <2>2. CASE fp = "volatile" /\ Len(str) <= ARG_DSTR_SIZE
    <3>1. e = Structure("sbuf", "static", str, d.given, d.append, d.append_used, d.live)
      <4>1. ~(Len(str) > ARG_DSTR_SIZE)
        BY <2>1, <2>2
      <4>2. e = [d EXCEPT !.data = "sbuf", !.free_proc = "static", !.sbuf = str]
        BY <1>4, <2>2, <4>1 DEF Taken
      <4>3. QED BY <4>2 DEF Structures, Structure
    <3>2. e \in Structures
      BY <1>1, <1>2, <2>1, <3>1, StructureType
    <3>3. QED BY <1>4, <2>1, <3>1, <3>2, StructureFields DEF TookText, Written
  <2>3. CASE fp = "volatile" /\ Len(str) > ARG_DSTR_SIZE
    <3>1. e = Structure("given", "dynamic", d.sbuf, str, d.append, d.append_used, d.live + 1)
      <4>1. ~(Len(str) <= ARG_DSTR_SIZE)
        BY <2>1, <2>3
      <4>2. e = [d EXCEPT !.data = "given", !.given = str, !.free_proc = "dynamic", !.live = @ + 1]
        BY <1>4, <2>3, <4>1 DEF Taken
      <4>3. QED BY <4>2 DEF Structures, Structure
    <3>2. e \in Structures
      BY <1>1, <1>2, <2>1, <3>1, StructureType
    <3>3. QED BY <1>4, <2>1, <3>1, <3>2, StructureFields DEF TookText, Written
  <2>4. CASE fp # "volatile"
    <3> DEFINE live == IF fp = "static" THEN d.live ELSE d.live + 1
    <3>1. e = Structure("given", fp, d.sbuf, str, d.append, d.append_used, live)
      BY <1>4, <2>4 DEF Taken, Structures, Structure
    <3>2. live \in Counts
      BY <1>1
    <3>3. e \in Structures
      <4> HIDE DEF live
      <4> QED BY <1>1, <1>2, <2>1, <3>1, <3>2, StructureType
    <3>4. /\ e.data = "given" /\ e.free_proc = fp /\ e.sbuf = d.sbuf /\ e.given = str
          /\ e.append = d.append /\ e.live = live
      <4> HIDE DEF live
      <4> QED BY <3>1, StructureFields
    <3>5. QED BY <1>4, <2>1, <3>3, <3>4 DEF TookText, Written
  <2>5. QED BY <2>1, <2>2, <2>3, <2>4
<1>5. QED BY <1>3, <1>4

LEMMA SetSound ==
  ASSUME NEW d, Sound(d), NEW str, IsText(str) \/ str = Null, NEW fp \in FreeProcs
  PROVE  Sound(Set(d, str, fp)) /\ CStr(Set(d, str, fp)) = Written(str)
<1> DEFINE e == Taken(d, str, fp)
<1> DEFINE f == IF d.free_proc = "static" THEN e ELSE [e EXCEPT !.live = @ - 1]
<1>1. /\ d \in Structures /\ IsText(d.sbuf)
      /\ d.live = (IF d.append = <<>> THEN 0 ELSE 1) + (IF d.free_proc = "static" THEN 0 ELSE 1)
  BY LiveFacts DEF Sound
<1>2. /\ e \in Structures /\ IsText(e.sbuf) /\ e.append = d.append
      /\ \/ e.data = "sbuf" /\ e.free_proc = "static" /\ e.live = d.live /\ e.sbuf = Written(str)
         \/ /\ e.data = "given" /\ IsText(e.given) /\ e.given = Written(str)
            /\ e.live = IF e.free_proc = "static" THEN d.live ELSE d.live + 1
  <2>1. TookText(e, d, str)
    BY <1>1, TakenFacts
  <2> HIDE DEF e
  <2>2. QED BY <2>1 DEF TookText
<1>3. Set(d, str, fp) = DropAppend(f)
  BY DEF Set
<1> HIDE DEF e
<1>4. /\ f \in Structures /\ f.sbuf = e.sbuf /\ f.append = e.append /\ f.data = e.data /\ f.given = e.given
      /\ f.free_proc = e.free_proc
      /\ f.live = IF d.free_proc = "static" THEN e.live ELSE e.live - 1
  <2>1. CASE d.free_proc = "static"
    BY <1>2, <2>1
  <2>2. CASE d.free_proc # "static"
    <3>1. f = Structure(e.data, e.free_proc, e.sbuf, e.given, e.append, e.append_used, e.live - 1)
      BY <1>2, <2>2 DEF Structures, Structure
    <3>2. /\ e.data \in Datas /\ e.free_proc \in FreeProcs /\ e.sbuf \in Seq(Bytes)
          /\ e.given \in Seq(Bytes) /\ e.append \in Seq(Bytes)
          /\ e.append_used \in Counts /\ e.live - 1 \in Counts
      BY <1>2, FieldTypes
    <3>3. f \in Structures
      BY <3>1, <3>2, StructureType
    <3>4. QED BY <2>2, <3>1, <3>3, StructureFields
  <2>3. QED BY <2>1, <2>2
<1> HIDE DEF f
<1> DEFINE g == DropAppend(f)
<1>5. /\ g \in Structures /\ g.append = <<>> /\ g.free_proc = e.free_proc /\ g.sbuf = e.sbuf /\ g.data = e.data
      /\ g.given = e.given /\ g.live = IF d.append = <<>> THEN f.live ELSE f.live - 1
  BY <1>2, <1>4, DropFacts
<1> HIDE DEF g
<1>6. g.live = IF g.data = "sbuf" \/ g.free_proc = "static" THEN 0 ELSE 1
  BY <1>1, <1>2, <1>4, <1>5
<1>7. Sound(g)
  BY <1>2, <1>5, <1>6 DEF Sound, Small, Given
<1>8. CStr(g) = Written(str)
  BY <1>2, <1>5, NotNull DEF CStr, Dangling
<1>9. QED BY <1>3, <1>7, <1>8 DEF g
-----------------------------------------------------------------------------
(* Growing a text.                                                         *)

(* CStr looks at four fields.                                              *)
LEMMA SameText ==
  ASSUME NEW d, NEW e, e.data = d.data, e.sbuf = d.sbuf, e.given = d.given, e.append = d.append
  PROVE  CStr(e) = CStr(d)
  BY DEF CStr, Dangling

(* append_used is a lower bound of the length until it is measured.        *)
LEMMA MeasuredFacts ==
  ASSUME NEW d, Sound(d)
  PROVE  Measured(d) = Structure(d.data, d.free_proc, d.sbuf, d.given, d.append, Len(CStr(d)), d.live)
<1>1. d \in Structures
  BY DEF Sound
<1>2. CASE d.data # "append"
  <2>1. d.append = <<>> /\ ~(Len(d.append) > BigSpace)
    BY <1>2, EmptyText DEF Sound, Small, Given, Appended
  <2>2. Measured(d) = [d EXCEPT !.append_used = Len(CStr(d))]
    BY <1>2, <2>1 DEF Measured
  <2>3. QED BY <1>1, <2>2 DEF Structures, Structure
<1>3. CASE d.data = "append"
  <2>1. PICK n : Appended(d, n)
    BY <1>3 DEF Sound, Small, Given
  <2>2. Len(CStr(d)) = n /\ n \in Nat /\ n < Len(d.append) /\ d.append_used \in 0..n
    BY <2>1, CStrText DEF Appended, Holds
  <2>3. CASE d.append[d.append_used + 1] = NUL
    <3>1. d.append_used + 1 \in 1..Len(d.append)
      BY <2>2, TextOfBuffer, <2>1 DEF Appended
    <3>2. d.append_used = n
      BY <2>1, <2>2, <2>3, <3>1 DEF Appended, Holds
    <3>3. Measured(d) = d
      BY <1>3, <2>3 DEF Measured
    <3>4. d = [d EXCEPT !.append_used = Len(CStr(d))]
      BY <1>1, <2>2, <3>2 DEF Structures
    <3>5. QED BY <1>1, <3>3, <3>4 DEF Structures, Structure
  <2>4. CASE d.append[d.append_used + 1] # NUL
    <3>1. Measured(d) = [d EXCEPT !.append_used = Len(CStr(d))]
      BY <1>3, <2>4 DEF Measured
    <3>2. QED BY <1>1, <3>1 DEF Structures, Structure
  <2>5. QED BY <2>3, <2>4
<1>4. QED BY <1>2, <1>3

(* An append buffer with the text in it and space behind it.               *)
Roomy(e, text, space) ==
  /\ e \in Structures /\ IsText(e.sbuf) /\ Appended(e, Len(text))
  /\ TextOf(e.append) = text /\ Len(text) + space < Len(e.append)

LEMMA SizeFits ==
  ASSUME NEW total \in Nat \ {0}
  PROVE  (IF total < SmallSpace THEN FirstSpace ELSE 2 * total) \in Nat
         /\ total < (IF total < SmallSpace THEN FirstSpace ELSE 2 * total)
  OBVIOUS

LEMMA PaddedText ==
  ASSUME NEW t, IsText(t), NEW size \in Nat, Len(t) < size
  PROVE  TextOf(Padded(t, size)) = t
<1> DEFINE b == Padded(t, size)
<1>1. Holds(b, Len(t)) /\ Len(t) \in Nat /\ t \in Seq(Bytes)
  BY PaddedHolds, TextFacts
<1>2. TextOf(b) \in Seq(Bytes) /\ Len(TextOf(b)) = Len(t) /\ \A i \in 1..Len(t) : TextOf(b)[i] = b[i]
  <2> HIDE DEF b
  <2> QED BY <1>1, TextOfBuffer
<1>3. \A i \in 1..Len(t) : b[i] = t[i]
  BY <1>1 DEF Padded
<1> HIDE DEF b
<1>4. \A i \in 1..Len(TextOf(b)) : TextOf(b)[i] = t[i]
  BY <1>2, <1>3
<1>5. TextOf(b) = t
  BY <1>1, <1>2, <1>4, SeqEqual
<1>6. QED BY <1>5 DEF b

(* The last lines of setup_append_buf: whoever held the text is freed.     *)
Over(e, r, n) == e \in Structures /\ IsText(e.sbuf) /\ Appended(e, n) /\ e.append = r.append

LEMMA TakenOver ==
  ASSUME NEW r \in Structures, IsText(r.sbuf), NEW n, Holds(r.append, n), r.append_used = n,
         r.live = IF r.free_proc = "static" THEN 1 ELSE 2
  PROVE  Over([Free(r) EXCEPT !.data = "append"], r, n)
<1> DEFINE f == Free(r)
<1> DEFINE e == [f EXCEPT !.data = "append"]
<1>1. /\ f \in Structures /\ f.free_proc = "static" /\ f.append = r.append /\ f.sbuf = r.sbuf
      /\ f.append_used = r.append_used /\ f.live = 1
  BY FreeFacts
<1>2. SUFFICES Over(e, r, n)
  OBVIOUS
<1> HIDE DEF f
<1>3. e = Structure("append", "static", r.sbuf, f.given, r.append, r.append_used, 1)
  <2> DEFINE D == {"data", "free_proc", "sbuf", "given", "append", "append_used", "live"}
  <2>1. f = [x \in D |-> f[x]]
    BY <1>1 DEF Structures
  <2>2. e = Structure("append", f.free_proc, f.sbuf, f.given, f.append, f.append_used, f.live)
    BY <2>1 DEF Structure
  <2> HIDE DEF e
  <2>3. QED BY <1>1, <2>2
<1> HIDE DEF e
<1>4. "append" \in Datas /\ "static" \in FreeProcs /\ 1 \in Counts
  BY DEF Datas, FreeProcs, Counts
<1>5. r.sbuf \in Seq(Bytes) /\ f.given \in Seq(Bytes) /\ r.append \in Seq(Bytes) /\ r.append_used \in Counts
  BY <1>1, FieldTypes
<1>6. e \in Structures
  BY <1>3, <1>4, <1>5, StructureType
<1>7. /\ e.data = "append" /\ e.free_proc = "static" /\ e.sbuf = r.sbuf /\ e.append = r.append
      /\ e.append_used = r.append_used /\ e.live = 1
  BY <1>3, StructureFields
<1>8. n \in 0..n
  BY DEF Holds
<1>9. QED BY <1>6, <1>7, <1>8 DEF Appended, Over

LEMMA SetupReady ==
  ASSUME NEW d, Sound(d), NEW space \in Nat \ {0}
  PROVE  Roomy(SetupAppendBuf(d, space), CStr(d), space)
<1> DEFINE text == CStr(d)
<1> DEFINE n == Len(text)
<1> DEFINE m == Measured(d)
<1> DEFINE total == space + n
<1> DEFINE size == IF total < SmallSpace THEN FirstSpace ELSE 2 * total
<1> DEFINE buf == Padded(text, size)
<1> DEFINE grown == [m EXCEPT !.append = buf, !.live = IF m.append = <<>> THEN @ + 1 ELSE @]
<1> DEFINE live == IF d.append = <<>> THEN d.live + 1 ELSE d.live
<1>1. /\ d \in Structures /\ IsText(d.sbuf)
      /\ d.live = (IF d.append = <<>> THEN 0 ELSE 1) + (IF d.free_proc = "static" THEN 0 ELSE 1)
      /\ d.append # <<>> => d.free_proc = "static"
  BY LiveFacts DEF Sound
<1>2. IsText(text) /\ n \in Nat
  BY CStrText, TextFacts
<1>3. m = Structure(d.data, d.free_proc, d.sbuf, d.given, d.append, n, d.live)
  BY MeasuredFacts
<1>4. /\ m.data = d.data /\ m.free_proc = d.free_proc /\ m.sbuf = d.sbuf /\ m.given = d.given
      /\ m.append = d.append /\ m.append_used = n /\ m.live = d.live
  <2> HIDE DEF m, n
  <2> QED BY <1>3, StructureFields
<1>5. CStr(m) = text
  BY <1>4, SameText
<1>6. size \in Nat /\ total < size /\ total \in Nat
  <2>1. total \in Nat \ {0}
    BY <1>2
  <2>2. QED BY <2>1, SizeFits
<1>7. Holds(buf, n) /\ Len(buf) = size /\ TextOf(buf) = text
  <2>1. n < size
    BY <1>2, <1>6
  <2> HIDE DEF text, size
  <2>2. QED BY <1>2, <1>6, <2>1, PaddedHolds, PaddedText
<1>8. /\ d.data \in Datas /\ d.free_proc \in FreeProcs /\ d.sbuf \in Seq(Bytes) /\ d.given \in Seq(Bytes)
      /\ d.append \in Seq(Bytes) /\ d.live \in Counts /\ d.live + 1 \in Counts /\ n \in Counts
  BY <1>1, <1>2, FieldTypes DEF Counts
<1>9. CASE total >= Len(d.append)
  <2>1. SetupAppendBuf(d, space) = [Free(grown) EXCEPT !.data = "append"]
    <3> HIDE DEF n
    <3> QED BY <1>4, <1>5, <1>9 DEF SetupAppendBuf
  <2> HIDE DEF m, n, buf, text
  <2>2. grown = Structure(d.data, d.free_proc, d.sbuf, d.given, buf, n, live)
    <3>1. CASE d.append = <<>>
      <4>1. grown = [m EXCEPT !.append = buf, !.live = @ + 1]
        BY <1>4, <3>1
      <4>2. live = d.live + 1
        BY <3>1
      <4> HIDE DEF grown, live
      <4>3. QED BY <1>3, <4>1, <4>2 DEF Structure
    <3>2. CASE d.append # <<>>
      <4>1. grown = [m EXCEPT !.append = buf]
        BY <1>3, <1>4, <3>2 DEF Structure
      <4>2. QED BY <1>3, <1>4, <3>2, <4>1 DEF Structure
    <3>3. QED BY <3>1, <3>2
  <2>3. buf \in Seq(Bytes) /\ live \in Counts
    BY <1>7, <1>8 DEF Holds
  <2> HIDE DEF grown
  <2>4. /\ grown.free_proc = d.free_proc /\ grown.sbuf = d.sbuf /\ grown.append = buf
        /\ grown.append_used = n /\ grown.live = live
    <3> HIDE DEF live
    <3> QED BY <2>2, StructureFields
  <2>5. grown \in Structures
    <3> HIDE DEF live
    <3> QED BY <1>8, <2>2, <2>3, StructureType
  <2>6. grown.live = IF grown.free_proc = "static" THEN 1 ELSE 2
    BY <1>1, <2>4
  <2> HIDE DEF live
  <2>7. Over(SetupAppendBuf(d, space), grown, n)
    BY <1>1, <1>7, <2>1, <2>4, <2>5, <2>6, TakenOver
  <2>8. TextOf(buf) = text /\ n + space < Len(buf)
    BY <1>2, <1>6, <1>7
  <2>9. QED BY <2>4, <2>7, <2>8 DEF Roomy, Over, n, text
<1>10. CASE ~(total >= Len(d.append))
  <2>1. d.append # <<>> /\ total < Len(d.append)
    BY <1>1, <1>6, <1>10, EmptyText, LenProperties DEF Structures
  <2>2. Appended(d, n) /\ TextOf(d.append) = text
    BY <2>1, CStrText DEF Sound, Small, Given
  <2>3. SetupAppendBuf(d, space) = [Free(m) EXCEPT !.data = "append"]
    <3>1. m.data = "append"
      BY <1>4, <2>2 DEF Appended
    <3> HIDE DEF n
    <3>2. QED BY <1>4, <1>10, <3>1 DEF SetupAppendBuf
  <2> HIDE DEF m, n, text
  <2>4. m \in Structures
    BY <1>3, <1>8, StructureType
  <2>5. m.live = IF m.free_proc = "static" THEN 1 ELSE 2
    BY <1>1, <1>4, <2>1
  <2>6. Holds(m.append, n) /\ IsText(m.sbuf)
    BY <1>1, <1>4, <2>2 DEF Appended
  <2>7. Over(SetupAppendBuf(d, space), m, n)
    BY <1>4, <2>3, <2>4, <2>5, <2>6, TakenOver
  <2>8. n + space < Len(d.append)
    BY <1>2, <2>1
  <2>9. QED BY <1>4, <2>2, <2>7, <2>8 DEF Roomy, Over, n, text
<1>11. QED BY <1>9, <1>10

(* The characters that are copied end before the buffer does, so that what *)
(* is behind them stays zero.                                              *)
LEMMA CopiedSound ==
  ASSUME NEW e, NEW text, IsText(text), NEW str, IsText(str), NEW space \in Nat, Len(str) <= space,
         Roomy(e, text, space)
  PROVE  Sound(Copied(e, str)) /\ CStr(Copied(e, str)) = text \o str
<1> DEFINE n == Len(text)
<1> DEFINE b == e.append
<1> DEFINE c == [i \in DOMAIN b |-> IF i - n \in DOMAIN str THEN str[i - n] ELSE b[i]]
<1>1. /\ n \in Nat /\ Len(str) \in Nat /\ DOMAIN str = 1..Len(str)
      /\ \A i \in 1..Len(str) : str[i] \in Bytes /\ str[i] # NUL
  BY TextFacts DEF Bytes
<1>2. /\ e \in Structures /\ IsText(e.sbuf) /\ Appended(e, n) /\ TextOf(b) = text /\ n + space < Len(b)
  BY DEF Roomy
<1>3. /\ Holds(b, n) /\ Len(b) \in Nat /\ DOMAIN b = 1..Len(b) /\ b \in Seq(Bytes)
      /\ \A i \in 1..Len(b) : b[i] \in Bytes
  <2>1. Holds(b, n) /\ b \in Seq(Bytes)
    BY <1>2 DEF Appended, Holds
  <2> HIDE DEF b
  <2>2. QED BY <2>1, TextOfBuffer, ElementOfSeq
<1>4. Len(CStr(e)) = n
  <2>1. Sound(e)
    BY <1>2 DEF Sound
  <2>2. QED BY <1>2, <2>1, CStrText
<1>5. Copied(e, str) = [e EXCEPT !.append = c]
  BY <1>4 DEF Copied
<1>6. c \in Seq(Bytes) /\ Len(c) = Len(b)
  <2>1. c \in [1..Len(b) -> Bytes]
    BY <1>1, <1>3
  <2> HIDE DEF c, b
  <2>2. QED BY <1>3, <2>1
<1>7. \A i \in 1..Len(b) : c[i] = IF i - n \in 1..Len(str) THEN str[i - n] ELSE b[i]
  BY <1>1, <1>3
<1>8. Holds(c, n + Len(str))
  <2> HIDE DEF b, c
  <2>1. n + Len(str) \in Nat /\ n + Len(str) < Len(b)
    BY <1>1, <1>2, <1>3
  <2>2. \A i \in 1..Len(b) : (i <= n => b[i] # NUL) /\ (i > n => b[i] = NUL)
    BY <1>3 DEF Holds
  <2> HIDE DEF n
  <2>3. ASSUME NEW i \in 1..Len(b)
        PROVE  (i <= n + Len(str) => c[i] # NUL) /\ (i > n + Len(str) => c[i] = NUL)
    <3>1. CASE i - n \in 1..Len(str)
      BY <1>1, <1>7, <3>1
    <3>2. CASE ~(i - n \in 1..Len(str))
      <4>1. c[i] = b[i]
        BY <1>7, <3>2
      <4>2. i <= n \/ i > n + Len(str)
        BY <1>1, <3>2
      <4>3. QED BY <1>1, <2>2, <4>1, <4>2
    <3>3. QED BY <3>1, <3>2
  <2>4. QED BY <1>6, <2>1, <2>3 DEF Holds
<1> HIDE DEF c, b
<1>9. Copied(e, str) = Structure(e.data, e.free_proc, e.sbuf, e.given, c, e.append_used, e.live)
  BY <1>2, <1>5 DEF Structures, Structure
<1> DEFINE d == Copied(e, str)
<1> HIDE DEF d
<1>10. d \in Structures
  <2>1. /\ e.data \in Datas /\ e.free_proc \in FreeProcs /\ e.sbuf \in Seq(Bytes)
        /\ e.given \in Seq(Bytes) /\ e.append_used \in Counts /\ e.live \in Counts
    BY <1>2, FieldTypes
  <2>2. QED BY <1>6, <1>9, <2>1, StructureType DEF d
<1>11. /\ d.data = e.data /\ d.free_proc = e.free_proc /\ d.sbuf = e.sbuf /\ d.append = c
       /\ d.append_used = e.append_used /\ d.live = e.live
  <2>1. d = Structure(e.data, e.free_proc, e.sbuf, e.given, c, e.append_used, e.live)
    BY <1>9 DEF d
  <2>2. QED BY <2>1, StructureFields
<1>12. d.append_used \in 0..(n + Len(str))
  BY <1>1, <1>2, <1>11 DEF Appended
<1>13. Appended(d, n + Len(str))
  BY <1>2, <1>8, <1>11, <1>12 DEF Appended
<1>14. Sound(d)
  BY <1>2, <1>10, <1>11, <1>13 DEF Sound
<1>15. CStr(d) = TextOf(c)
  BY <1>11, <1>13, <1>14, CStrText
<1>16. TextOf(c) = text \o str
  <2> DEFINE s == TextOf(c)
  <2> DEFINE r == text \o str
  <2>1. s \in Seq(Bytes) /\ Len(s) = n + Len(str) /\ \A i \in 1..(n + Len(str)) : s[i] = c[i]
    BY <1>8, TextOfBuffer
  <2>2. text \in Seq(Bytes) /\ str \in Seq(Bytes)
    BY TextFacts
  <2>3. /\ r \in Seq(Bytes) /\ Len(r) = n + Len(str)
        /\ \A i \in 1..(n + Len(str)) : r[i] = IF i <= n THEN text[i] ELSE str[i - n]
    BY <2>2, ConcatProperties
  <2>4. \A i \in 1..n : text[i] = b[i]
    BY <1>2, <1>3, TextOfBuffer
  <2>5. n + Len(str) < Len(b)
    BY <1>1, <1>2, <1>3
  <2> HIDE DEF s, r, n
  <2>6. ASSUME NEW i \in 1..(n + Len(str)) PROVE s[i] = r[i]
    <3>1. i \in 1..Len(b)
      BY <1>1, <1>3, <2>5
    <3>2. CASE i <= n
      <4>1. ~(i - n \in 1..Len(str)) /\ i \in 1..n
        BY <1>1, <3>2
      <4>2. QED BY <1>7, <2>1, <2>3, <2>4, <3>1, <3>2, <4>1
    <3>3. CASE ~(i <= n)
      <4>1. i - n \in 1..Len(str)
        BY <1>1, <3>3
      <4>2. QED BY <1>7, <2>1, <2>3, <3>1, <3>3, <4>1
    <3>4. QED BY <3>2, <3>3
  <2>7. s = r
    BY <2>1, <2>3, <2>6, SeqEqual
  <2>8. QED BY <2>7 DEF s, r
<1>17. QED BY <1>14, <1>15, <1>16 DEF d

LEMMA CatSound ==
  ASSUME NEW d, Sound(d), NEW str, IsText(str)
  PROVE  Sound(Cat(d, str)) /\ CStr(Cat(d, str)) = CStr(d) \o str
<1>1. Len(str) \in Nat /\ IsText(CStr(d))
  BY TextFacts, CStrText
<1>2. Roomy(SetupAppendBuf(d, Len(str) + 1), CStr(d), Len(str) + 1)
  <2>1. Len(str) + 1 \in Nat \ {0}
    BY <1>1
  <2>2. QED BY <2>1, SetupReady
<1>3. Len(str) + 1 \in Nat /\ Len(str) <= Len(str) + 1
  BY <1>1
<1>4. QED BY <1>1, <1>2, <1>3, CopiedSound DEF Cat

LEMMA CatcSound ==
  ASSUME NEW d, Sound(d), NEW c \in Chars
  PROVE  Sound(Catc(d, c)) /\ CStr(Catc(d, c)) = CStr(d) \o <<c>>
<1>1. IsText(<<c>>) /\ Len(<<c>>) <= 2 /\ IsText(CStr(d))
  BY CStrText DEF IsText
<1>2. Roomy(SetupAppendBuf(d, 2), CStr(d), 2)
  BY SetupReady
<1>3. QED BY <1>1, <1>2, CopiedSound DEF Catc

(* The second guess of arg_dstr_catf is large enough, whatever the format   *)
(* makes of its arguments: vsnprintf cuts nothing off.                      *)
LEMMA MaxIs ==
  ASSUME NEW x \in Nat, NEW y \in Nat
  PROVE  Max({x, y}) \in Nat /\ Max({x, y}) >= y
<1>1. CASE x <= y
  <2>1. y \in {x, y} /\ \A z \in {x, y} : z <= y
    BY <1>1
  <2>2. QED BY <2>1 DEF Max
<1>2. CASE ~(x <= y)
  <2>1. x \in {x, y} /\ \A z \in {x, y} : z <= x
    BY <1>2
  <2>2. QED BY <2>1 DEF Max
<1>3. QED BY <1>1, <1>2

LEMMA LesserIs ==
  ASSUME NEW x \in Nat, NEW y \in Nat
  PROVE  Min({x, y}) = IF x <= y THEN x ELSE y
<1>1. CASE x <= y
  <2>1. {x, y} \subseteq Int /\ x \in {x, y} /\ \A z \in {x, y} : x <= z
    BY <1>1
  <2>2. QED BY <1>1, <2>1, MinIs
<1>2. CASE ~(x <= y)
  <2>1. {x, y} \subseteq Int /\ y \in {x, y} /\ \A z \in {x, y} : y <= z
    BY <1>2
  <2>2. Min({x, y}) = y
    BY <2>1, MinIs
  <2>3. QED BY <1>2, <2>2
<1>3. QED BY <1>1, <1>2

LEMMA FormatFits ==
  ASSUME NEW fmt \in Nat, NEW length \in Nat
  PROVE  FormatSize(fmt, length) \in Nat /\ length <= FormatSize(fmt, length)
<1> DEFINE first == Max({2 * fmt, START_VSNBUFF})
<1>1. first \in Nat /\ first > 0
  <2>1. START_VSNBUFF \in Nat \ {0} /\ 2 * fmt \in Nat
    OBVIOUS
  <2>2. QED BY <2>1, MaxIs
<1>2. FormatSize(fmt, length) = Round(Round(first, length), length)
  BY DEF FormatSize
<1> HIDE DEF first
<1>3. ASSUME NEW k \in Nat, k > 0
      PROVE  Round(k, length) = IF length < k THEN k ELSE IF length > k THEN length ELSE k + k
  <2>1. Min({length, k}) = IF length <= k THEN length ELSE k
    BY LesserIs
  <2>2. Fits(k, length) <=> length < k
    BY <2>1 DEF Fits
  <2>3. QED BY <2>2 DEF Round, Larger
<1> DEFINE second == Round(first, length)
<1>4. second \in Nat /\ second > 0 /\ length <= second
  BY <1>1, <1>3
<1> HIDE DEF second
<1>5. Round(second, length) \in Nat /\ length <= Round(second, length)
  BY <1>3, <1>4
<1>6. QED BY <1>2, <1>5 DEF second

LEMMA CatfSound ==
  ASSUME NEW d, Sound(d), NEW fmt \in Nat, NEW output, IsText(output)
  PROVE  Sound(Catf(d, fmt, output)) /\ CStr(Catf(d, fmt, output)) = CStr(d) \o output
<1> DEFINE length == Len(output)
<1> DEFINE size == FormatSize(fmt, length)
<1>1. length \in Nat /\ output \in Seq(Chars)
  BY TextFacts DEF IsText
<1>2. size \in Nat /\ length <= size
  BY <1>1, FormatFits
<1>3. Min({size, length}) = length
  <2> HIDE DEF size, length
  <2>1. Min({size, length}) = IF size <= length THEN size ELSE length
    BY <1>1, <1>2, LesserIs
  <2>2. QED BY <1>1, <1>2, <2>1
<1>4. Catf(d, fmt, output) = Cat(d, SubSeq(output, 1, Min({size, length})))
  BY DEF Catf
<1> HIDE DEF size
<1>5. SubSeq(output, 1, length) = output
  <2>1. \A i \in 1..length : output[i] \in Chars
    BY <1>1, ElementOfSeq
  <2>2. /\ SubSeq(output, 1, length) \in Seq(Chars) /\ Len(SubSeq(output, 1, length)) = length
        /\ \A i \in 1..length : SubSeq(output, 1, length)[i] = output[i]
    BY <1>1, <2>1, SubSeqProperties
  <2>3. QED BY <1>1, <2>2, SeqEqual
<1>6. Catf(d, fmt, output) = Cat(d, output)
  <2> HIDE DEF length
  <2>1. QED BY <1>3, <1>4, <1>5
<1>7. QED BY <1>6, CatSound
-----------------------------------------------------------------------------
(* The application.                                                        *)
SInv == Sound(ds) /\ IsText(module_name)

LEMMA InitSInv == Init => SInv
<1> SUFFICES ASSUME Init PROVE SInv
  OBVIOUS
<1>1. IsText(Unnamed)
  BY CallsAssumption DEF Unnamed, IsText
<1>2. QED BY <1>1, CreatedSound DEF Init, SInv

(* What a command does to the string is what it means for the text.        *)
PerformedAs(d, c, a) == Sound(d) /\ CStr(d) = Meaning(c, a, CStr(ds), module_name)

LEMMA PerformedFacts ==
  ASSUME SInv, NEW c \in Values, NEW a \in Calls
  PROVE  PerformedAs(Performed(c, a), c, a)
<1> DEFINE text == CStr(ds)
<1>1. Sound(ds) /\ IsText(module_name) /\ IsText(text)
  BY CStrText DEF SInv
<1>2. /\ a.do \in {"set", "own", "cat", "catc", "catf", "help", "reset"} /\ a.fmt \in Nat /\ a.free_proc \in FreeProcs
      /\ IsText(a.text) \/ (a.do = "set" /\ a.text = Null)
      /\ c \in Chars
  BY CallsAssumption DEF IsText
<1>3. a.do # "set" => IsText(a.text) /\ a.text # Null
  BY <1>2, NotNull
<1> HIDE DEF text
<1> SUFFICES Sound(Performed(c, a)) /\ CStr(Performed(c, a)) = Meaning(c, a, text, module_name)
  BY DEF PerformedAs, text
<1>4. CASE a.do = "set"
  <2>1. Performed(c, a) = Set(ds, a.text, a.free_proc)
    BY <1>4 DEF Performed
  <2>2. Meaning(c, a, text, module_name) = Written(a.text)
    BY <1>4 DEF Meaning, Written
  <2>3. QED BY <1>1, <1>2, <2>1, <2>2, SetSound
<1>5. CASE a.do = "own"
  <2>1. Performed(c, a) = Set(ds, text, "volatile")
    BY <1>5 DEF Performed, text
  <2>2. "volatile" \in FreeProcs /\ text # Null
    BY <1>1, NotNull DEF FreeProcs
  <2>3. Meaning(c, a, text, module_name) = Written(text)
    BY <1>3, <1>5, <2>2 DEF Meaning, Written
  <2>4. QED BY <1>1, <2>1, <2>2, <2>3, SetSound
<1>6. CASE a.do = "cat"
  <2>1. Performed(c, a) = Cat(ds, a.text)
    BY <1>6 DEF Performed
  <2>2. Meaning(c, a, text, module_name) = text \o a.text
    BY <1>3, <1>6 DEF Meaning
  <2>3. QED BY <1>1, <1>2, <1>6, <2>1, <2>2, CatSound DEF text
<1>7. CASE a.do = "catc"
  <2>1. Performed(c, a) = Catc(ds, c)
    BY <1>7 DEF Performed
  <2>2. Meaning(c, a, text, module_name) = Append(text, c)
    BY <1>3, <1>7 DEF Meaning
  <2>3. Append(text, c) = text \o <<c>>
    BY <1>1, <1>2, AppendIsConcat DEF IsText
  <2>4. QED BY <1>1, <1>2, <2>1, <2>2, <2>3, CatcSound DEF text
<1>8. CASE a.do = "catf"
  <2>1. Performed(c, a) = Catf(ds, a.fmt, a.text)
    BY <1>8 DEF Performed
  <2>2. Meaning(c, a, text, module_name) = text \o a.text
    BY <1>3, <1>8 DEF Meaning
  <2>3. a.fmt \in Nat /\ IsText(a.text) /\ Sound(ds)
    BY <1>1, <1>2, <1>8
  <2>4. Sound(Catf(ds, a.fmt, a.text)) /\ CStr(Catf(ds, a.fmt, a.text)) = CStr(ds) \o a.text
    BY <2>3, CatfSound
  <2>5. QED BY <2>1, <2>2, <2>4 DEF text
<1>9. CASE a.do = "help"
  <2>1. Performed(c, a) = Catf(ds, 4, Greeting(module_name))
    BY <1>9 DEF Performed
  <2>2. IsText(Greeting(module_name))
    <3>1. <<"v">> \in Seq(Chars)
      BY CallsAssumption
    <3>2. QED BY <1>1, <3>1, ConcatProperties DEF Greeting, IsText
  <2>3. Meaning(c, a, text, module_name) = text \o Greeting(module_name)
    BY <1>3, <1>9 DEF Meaning
  <2>4. 4 \in Nat /\ Sound(ds)
    BY <1>1
  <2>5. /\ Sound(Catf(ds, 4, Greeting(module_name)))
        /\ CStr(Catf(ds, 4, Greeting(module_name))) = CStr(ds) \o Greeting(module_name)
    BY <2>2, <2>4, CatfSound
  <2>6. QED BY <2>1, <2>3, <2>5 DEF text
<1>10. CASE a.do = "reset"
  <2>1. Performed(c, a) = Reset(ds)
    BY <1>10 DEF Performed
  <2>2. Meaning(c, a, text, module_name) = <<>>
    BY <1>3, <1>10 DEF Meaning
  <2>3. QED BY <1>1, <2>1, <2>2, ResetSound
<1>11. QED BY <1>2, <1>4, <1>5, <1>6, <1>7, <1>8, <1>9, <1>10

LEMMA DispatchStep ==
  ASSUME SInv, NEW n \in Keys, NEW a \in Calls, Dispatch(n, a)
  PROVE  SInv'
<1>1. PICK c \in Values : ds' = Performed(c, a)
  BY DEF Dispatch
<1>2. Sound(Performed(c, a))
  BY PerformedFacts DEF PerformedAs
<1>3. QED BY <1>1, <1>2 DEF Dispatch, SInv

(* The caller destroys its result: no block is left, none was freed twice. *)
LEMMA AnotherResultIs ==
  ASSUME SInv, AnotherResult
  PROVE  ds' = Created
<1>1. Reset(ds).live = 0
  BY ResetSound DEF SInv
<1>2. ds' = [Created EXCEPT !.live = 0]
  BY <1>1 DEF AnotherResult
<1>3. QED BY <1>2 DEF Created

LEMMA AnotherResultStep ==
  ASSUME SInv, AnotherResult, module_name' = module_name
  PROVE  SInv'
BY AnotherResultIs, CreatedSound DEF SInv

LEMMA SetModuleNameStep ==
  ASSUME SInv, NEW name \in ModuleNames, SetModuleName(name)
  PROVE  SInv'
<1>1. IsText(Unnamed) /\ IsText(name)
  BY CallsAssumption DEF Unnamed, IsText
<1>2. QED BY <1>1 DEF SetModuleName, SInv

LEMMA NextSInv == SInv /\ [Next]_vars => SInv'
<1> SUFFICES ASSUME SInv, [Next]_vars PROVE SInv'
  OBVIOUS
<1>1. ASSUME UNCHANGED others PROVE SInv'
  BY <1>1 DEF others, SInv
<1>2. ASSUME UNCHANGED <<ds, module_name>> PROVE SInv'
  BY <1>2 DEF SInv
<1>3. ASSUME NEW n \in Keys, NEW c \in Values, Register(n, c) \/ ChangeCommand(n, c) PROVE SInv'
  BY <1>1, <1>3 DEF Register, ChangeCommand
<1>4. ASSUME NEW n \in Keys, Unregister(n) \/ WalkTo(n) \/ DispatchUnknown(n) PROVE SInv'
  BY <1>1, <1>2, <1>4 DEF Unregister, WalkTo, DispatchUnknown
<1>5. CASE Walk \/ Serve \/ CmdInit
  BY <1>1, <1>2, <1>5 DEF Walk, Serve, CmdInit
<1>6. CASE NewResult \/ CmdUninit
  BY <1>6, AnotherResultStep DEF NewResult, CmdUninit
<1>7. CASE UNCHANGED vars
  BY <1>1, <1>7 DEF vars
<1>8. QED BY <1>3, <1>4, <1>5, <1>6, <1>7, DispatchStep, SetModuleNameStep DEF Next

(* A sound string is in order.                                             *)
LEMMA SoundInOrder == SInv => StringInOrder
<1> SUFFICES ASSUME SInv PROVE StringInOrder
  OBVIOUS
<1>1. /\ ds.live = (IF ds.append = <<>> THEN 0 ELSE 1) + (IF ds.free_proc = "static" THEN 0 ELSE 1)
      /\ ~Dangling(ds)
  BY LiveFacts, CStrText DEF SInv
<1>2. ds.free_proc # "static" => ds.data = "given"
  BY DEF SInv, Sound, Small, Given, Appended
<1>3. ASSUME ds.append # <<>>
      PROVE  /\ ds.data = "append" /\ Len(CStr(ds)) < Len(ds.append)
             /\ \A i \in DOMAIN ds.append : i > Len(CStr(ds)) => ds.append[i] = NUL
  <2>1. PICK n : Appended(ds, n)
    BY <1>3 DEF SInv, Sound, Small, Given
  <2>2. Len(CStr(ds)) = n
    BY <2>1, CStrText DEF SInv
  <2>3. DOMAIN ds.append = 1..Len(ds.append) /\ Holds(ds.append, n)
    BY <2>1, TextOfBuffer DEF Appended
  <2>4. QED BY <2>1, <2>2, <2>3 DEF Appended, Holds
<1>4. QED BY <1>1, <1>2, <1>3 DEF StringInOrder

(* After any calls of any application the result string answers for exactly *)
(* the heap blocks it can reach, its text is in none that was freed, and an *)
(* append buffer ends in zeros (arg_dstr.c: arg_dstr_set, _cat, _catf,      *)
(* setup_append_buf, arg_dstr_reset).                                       *)
THEOREM StringKept == Spec => []StringInOrder
  BY InitSInv, NextSInv, SoundInOrder, PTL DEF Spec

-----------------------------------------------------------------------------
(* The registry as a dictionary.                                           *)
Registered == [k \in {k \in Keys : Search(k) # NULL} |-> Search(k)]
Answers == Registered = DirectoryOf(EntriesOf(table))

LEMMA ReadyAnswers == Ready => Answers
<1> SUFFICES ASSUME Ready PROVE Answers
  OBVIOUS
<1>1. Registered = Listed(table, TableLength)
  BY SearchFound DEF Registered, Listed, Chain
<1>2. TableLength \in Sizes /\ Sorted(table, TableLength)
  BY LengthIs DEF Ready, TableLength
<1>3. QED BY <1>1, <1>2, ListedIs DEF Answers

LEMMA InvAnswers == HInv => Answers
BY ReadyAnswers, HInvFacts

LEMMA Answered ==
  ASSUME HInv, HInv'
  PROVE  /\ Registered = DirectoryOf(EntriesOf(table)) /\ Single(EntriesOf(table))
         /\ Registered' = DirectoryOf(EntriesOf(table'))
<1>1. Registered = DirectoryOf(EntriesOf(table))
  BY InvAnswers DEF Answers
<1>2. Single(EntriesOf(table))
  BY HInvFacts, EntryKeys
<1>3. (HInv => Answers)'
  BY InvAnswers, PTL
<1>4. QED BY <1>1, <1>2, <1>3 DEF Answers

(* The registered commands after each operation of the table.              *)
LEMMA ReplaceRegistered ==
  ASSUME HInv, HInv', NEW k \in Keys, NEW v \in Values, Replace(k, v)
  PROVE  Registered' = [m \in DOMAIN Registered \cup {k} |-> IF m = k THEN v ELSE Registered[m]]
<1>1. Ready /\ KeysOf(table) \subseteq Keys
  BY HInvFacts
<1>2. Sorted(Without(table, k), TableLength) /\ KeysOf(Without(table, k)) = KeysOf(table) \ {k}
  BY <1>1, WithoutSorted
<1>3. EntriesOf(Without(table, k)) = Others(EntriesOf(table), k)
  BY <1>1, WithoutEntries
<1>4. InsertInto(Without(table, k), IF Has(k) THEN entrycount - 1 ELSE entrycount, k, v)
  BY DEF Replace
<1>5. k \notin KeysOf(Without(table, k))
  BY <1>2
<1>6. EntriesOf(table') = EntriesOf(Without(table, k)) \cup {[k |-> k, v |-> v]}
  BY <1>1, <1>2, <1>4, <1>5, InsertEntries
<1>7. Single(EntriesOf(table)) /\ Registered = DirectoryOf(EntriesOf(table)) /\ Registered' = DirectoryOf(EntriesOf(table'))
  BY Answered
<1>8. DirectoryOf(Others(EntriesOf(table), k) \cup {[k |-> k, v |-> v]}) =
         [m \in DOMAIN DirectoryOf(EntriesOf(table)) \cup {k} |-> IF m = k THEN v ELSE DirectoryOf(EntriesOf(table))[m]]
  BY <1>7, DirectoryMore
<1>9. QED BY <1>3, <1>6, <1>7, <1>8

LEMMA ChangeRegistered ==
  ASSUME HInv, HInv', NEW k \in Keys, NEW v \in Values, Change(k, v)
  PROVE  Registered' = [m \in DOMAIN Registered \cup {k} |-> IF m = k THEN v ELSE Registered[m]]
<1>1. EntriesOf(table') = Others(EntriesOf(table), k) \cup {[k |-> k, v |-> v]}
  BY HInvFacts, ChangeEntries
<1>2. Single(EntriesOf(table)) /\ Registered = DirectoryOf(EntriesOf(table)) /\ Registered' = DirectoryOf(EntriesOf(table'))
  BY Answered
<1>3. DirectoryOf(Others(EntriesOf(table), k) \cup {[k |-> k, v |-> v]}) =
         [m \in DOMAIN DirectoryOf(EntriesOf(table)) \cup {k} |-> IF m = k THEN v ELSE DirectoryOf(EntriesOf(table))[m]]
  BY <1>2, DirectoryMore
<1>4. QED BY <1>1, <1>2, <1>3

LEMMA RemoveRegistered ==
  ASSUME HInv, HInv', NEW k \in Keys, EntriesOf(table') = Others(EntriesOf(table), k)
  PROVE  Registered' = [m \in DOMAIN Registered \ {k} |-> Registered[m]]
BY Answered, DirectoryLess

LEMMA RemoveKeyRegistered ==
  ASSUME HInv, HInv', NEW k \in Keys, RemoveKey(k)
  PROVE  Registered' = [m \in DOMAIN Registered \ {k} |-> Registered[m]]
<1>1. EntriesOf(table') = Others(EntriesOf(table), k)
  BY HInvFacts, WithoutEntries DEF RemoveKey
<1>2. QED BY <1>1, RemoveRegistered

LEMMA EmptyRegistered ==
  ASSUME HInv, HInv', table' = EmptyTable(Primes[1])
  PROVE  Registered' = <<>>
<1>1. Primes[1] \in Sizes
  BY TableAssumption, LengthIs, LenProperties, EmptySeq
<1>2. \E size \in Sizes : Sorted(table', size) /\ KeysOf(table') = {}
  BY <1>1, EmptySorted
<1>3. EntriesOf(table') = {}
  BY <1>2, EntryKeys
<1>4. QED BY <1>3, Answered, DirectoryNone

LEMMA SameRegistered ==
  ASSUME UNCHANGED <<table, primeindex>>
  PROVE  Registered' = Registered
BY DEF Registered, Search, Has, Place, Chain, TableLength

LEMMA SearchRegistered ==
  ASSUME NEW k \in Keys, NEW v \in Values, Search(k) = v
  PROVE  k \in DOMAIN Registered /\ Registered[k] = v
BY TableAssumption DEF Registered, NULL

(* What the steps of the dictionary are, seen from here.                   *)
Answering == Open \/ Serving
Dictionary == IF Answering THEN Registered ELSE <<>>

LEMMA PromiseInit == Init => Promise!Init
<1> SUFFICES ASSUME Init PROVE Promise!Init
  OBVIOUS
<1>1. Open /\ CStr(ds) = <<>>
  BY CreatedText DEF Init, Open
<1>2. Ready /\ table = EmptyTable(Primes[1])
  BY InitHInv, HInvFacts DEF Init, HashInit
<1>3. Primes[1] \in Sizes
  BY TableAssumption, LengthIs, LenProperties, EmptySeq
<1>4. EntriesOf(table) = {}
  <2>1. Sorted(table, Primes[1]) /\ KeysOf(table) = {}
    BY <1>2, <1>3, EmptySorted
  <2>2. KeysOf(table) = {x.k : x \in EntriesOf(table)}
    BY <1>3, <2>1, EntryKeys
  <2>3. QED BY <2>1, <2>2
<1>5. Registered = <<>>
  BY <1>2, <1>4, ReadyAnswers, DirectoryNone DEF Answers
<1>6. QED BY <1>1, <1>5 DEF Promise!Init, Registered

Silent == UNCHANGED <<Dictionary, CStr(ds), Answering>>

LEMMA PromiseRename == Silent => Promise!Rename
BY DEF Silent, Dictionary, Answering, Registered, Promise!Rename

LEMMA PromiseRegister ==
  ASSUME NEW n \in Keys, NEW c \in Values, Open, UNCHANGED others,
         Registered' = [m \in DOMAIN Registered \cup {n} |-> IF m = n THEN c ELSE Registered[m]]
  PROVE  Promise!Register(n, c)
<1>1. UNCHANGED <<CStr(ds), module_name, status>>
  BY DEF others
<1>2. QED BY <1>1 DEF Open, Serving, Registered, Promise!Register

LEMMA PromiseUnregister ==
  ASSUME NEW n \in Keys, Open, UNCHANGED others,
         Registered' = [m \in DOMAIN Registered \ {n} |-> Registered[m]]
  PROVE  Promise!Unregister(n)
<1>1. UNCHANGED <<CStr(ds), module_name, status>>
  BY DEF others
<1>2. QED BY <1>1 DEF Open, Serving, Registered, Promise!Unregister

LEMMA PromiseDispatch ==
  ASSUME SInv, NEW n \in Keys, NEW a \in Calls, Dispatch(n, a)
  PROVE  Promise!Dispatch
<1>1. PICK c \in Values : Search(n) = c /\ ds' = Performed(c, a)
  BY DEF Dispatch
<1>2. CStr(ds') = Meaning(c, a, CStr(ds), module_name)
  BY <1>1, PerformedFacts DEF PerformedAs
<1>3. Serving /\ UNCHANGED <<table, primeindex, module_name, status>>
  BY DEF Dispatch, hashvars
<1>4. n \in DOMAIN Registered /\ Registered[n] = c /\ Registered' = Registered
  BY <1>1, <1>3, SearchRegistered, SameRegistered
<1>5. UNCHANGED <<Dictionary, Answering>> /\ Dictionary = Registered
  BY <1>3, <1>4 DEF Dictionary, Answering, Open, Serving
<1>6. CStr(ds)' = Meaning(Dictionary[n], a, CStr(ds), module_name) /\ n \in DOMAIN Dictionary
  BY <1>2, <1>4, <1>5
<1>7. QED BY <1>3, <1>5, <1>6 DEF Dictionary, Answering, Registered, Promise!Dispatch

LEMMA PromiseNewText ==
  ASSUME SInv, HInv, NewResult
  PROVE  Promise!NewText
<1>1. CStr(ds') = <<>>
  BY AnotherResultIs, CreatedText DEF NewResult
<1>2. UNCHANGED <<table, primeindex, module_name, status>>
  BY DEF NewResult, hashvars
<1>3. UNCHANGED <<Dictionary, Answering>>
  BY <1>2, SameRegistered DEF Dictionary, Answering, Open, Serving
<1>4. CStr(ds)' = <<>>
  BY <1>1
<1>5. QED BY <1>2, <1>3, <1>4 DEF Dictionary, Answering, Registered, Promise!NewText

LEMMA PromiseClose ==
  ASSUME SInv, CmdUninit \/ \E n \in Keys : DispatchUnknown(n)
  PROVE  Promise!Close
<1>1. Answering /\ ~Answering' /\ UNCHANGED module_name
  BY DEF CmdUninit, DispatchUnknown, Answering, Open, Serving
<1>2. CStr(ds)' \in {CStr(ds), <<>>}
  <2>1. CASE CmdUninit
    BY <2>1, AnotherResultIs, CreatedText DEF CmdUninit
  <2>2. CASE \E n \in Keys : DispatchUnknown(n)
    BY <2>2 DEF DispatchUnknown
  <2>3. QED BY <2>1, <2>2
<1>3. Dictionary' = <<>>
  BY <1>1 DEF Dictionary
<1>4. QED BY <1>1, <1>2, <1>3 DEF Dictionary, Answering, Registered, Promise!Close

LEMMA PromiseOpen ==
  ASSUME HInv, HInv', CmdInit
  PROVE  Promise!Open
<1>1. ~Answering /\ Answering' /\ UNCHANGED <<CStr(ds), module_name>>
  BY DEF CmdInit, Answering, Open, Serving
<1>2. Registered' = <<>>
  BY EmptyRegistered DEF CmdInit
<1>3. Dictionary = <<>> /\ Dictionary' = <<>>
  BY <1>1, <1>2 DEF Dictionary
<1>4. QED BY <1>1, <1>3 DEF Dictionary, Answering, Registered, Promise!Open

(* Every operation of the registry is a step of the dictionary, or none.   *)
LEMMA PromiseNext ==
  ASSUME HInv, HInv', SInv, [Next]_vars
  PROVE  [Promise!Next]_(Promise!vars)
<1>1. ASSUME NEW n \in Keys, NEW c \in Values, Register(n, c) \/ ChangeCommand(n, c)
      PROVE  Promise!Register(n, c)
  <2>1. Open /\ UNCHANGED others
    BY <1>1 DEF Register, ChangeCommand
  <2>2. Registered' = [m \in DOMAIN Registered \cup {n} |-> IF m = n THEN c ELSE Registered[m]]
    BY <1>1, ReplaceRegistered, ChangeRegistered DEF Register, ChangeCommand
  <2>3. QED BY <2>1, <2>2, PromiseRegister
<1>2. ASSUME NEW n \in Keys, Unregister(n)
      PROVE  Promise!Unregister(n)
  BY <1>2, RemoveKeyRegistered, PromiseUnregister DEF Unregister
<1>3. ASSUME Open, ItrRemove, UNCHANGED others
      PROVE  \E n \in Keys : Promise!Unregister(n)
  BY <1>3, ItrRemoveEntries, RemoveRegistered, PromiseUnregister
<1>4. ASSUME UNCHANGED <<table, primeindex, ds>>, Answering' = Answering
      PROVE  Promise!Rename
  <2>1. Silent
    BY <1>4, SameRegistered DEF Silent, Dictionary
  <2>2. QED BY <2>1, PromiseRename
<1>5. ASSUME UNCHANGED <<table, primeindex, others>>
      PROVE  Promise!Rename
  <2>1. Answering' = Answering
    BY <1>5 DEF others, Answering, Open, Serving
  <2>2. QED BY <1>4, <1>5, <2>1 DEF others
<1>6. ASSUME Walk
      PROVE  Promise!Rename \/ \E n \in Keys : Promise!Unregister(n)
  BY <1>3, <1>5, <1>6 DEF Walk, ItrCreate, ItrDestroy, ItrAdvance
<1>7. ASSUME NEW n \in Keys, WalkTo(n)
      PROVE  Promise!Rename
  BY <1>5, <1>7 DEF WalkTo, ItrSearch
<1>8. ASSUME Serve
      PROVE  Promise!Rename
  BY <1>4, <1>8 DEF Serve, hashvars, Answering, Open, Serving
<1>9. ASSUME NEW name \in ModuleNames, SetModuleName(name)
      PROVE  Promise!Rename
  BY <1>4, <1>9 DEF SetModuleName, hashvars, Answering, Open, Serving
<1>10. ASSUME UNCHANGED vars
       PROVE  Promise!Rename
  BY <1>5, <1>10 DEF vars, hashvars
<1>11. Promise!Next
  BY <1>1, <1>2, <1>6, <1>7, <1>8, <1>9, <1>10, PromiseDispatch, PromiseNewText, PromiseClose, PromiseOpen
     DEF Next, Promise!Next
<1>12. QED BY <1>11

(* For every hash function, list of table lengths, size of buffers and set  *)
(* of calls: whatever is registered, replaced, removed (by name or through  *)
(* an iterator) and dispatched, the registry of arg_cmd.c answers like a    *)
(* dictionary, in which no name is lost or found with another's command,    *)
(* and its result reads like a string that is set and appended to.          *)
THEOREM RegistryImplementsDirectory == Spec => ImplementsDirectory
<1>1. Init => Promise!Init
  BY PromiseInit
<1>2. HInv /\ HInv' /\ SInv /\ [Next]_vars => [Promise!Next]_(Promise!vars)
  BY PromiseNext
<1>3. Spec => []HInv
  BY TableInvariant
<1>4. Spec => []SInv
  BY InitSInv, NextSInv, PTL DEF Spec
<1>5. QED BY <1>1, <1>2, <1>3, <1>4, PTL DEF Spec, ImplementsDirectory, Promise!Spec
=====
