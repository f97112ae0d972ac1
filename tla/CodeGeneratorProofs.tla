-------------------------- MODULE CodeGeneratorProofs --------------------------
(***************************************************************************)
(* What the code generator preserves, whatever the code: the operations of *)
(* CodeGenerator keep the lists linked and their targets in range, and     *)
(* take nothing away that a suspended activation of the parser counts on.  *)
(* Before that, facts about numbers and sequences that the proofs need.    *)
(***************************************************************************)
EXTENDS Compiler, SequenceTheorems, FiniteSetTheorems, WellFoundedInduction, TLAPS

-----------------------------------------------------------------------------
(* Numbers: the smallest and the largest of a set.                         *)
LEMMA Smallest ==
  ASSUME NEW T, T \subseteq Nat, T # {}
  PROVE  \E x \in T : \A y \in T : x <= y
<1> DEFINE R == OpToRel(<, Nat)
<1>1. IsWellFoundedOn(R, Nat)
  BY NatLessThanWellFounded
<1>2. \A x, y \in Nat : x < y => <<x, y>> \in R
  BY DEF OpToRel
<1> HIDE DEF R
<1>3. PICK x \in T : \A y \in T : ~ (<<y, x>> \in R)
  BY <1>1, WFMin
<1>4. \A y \in T : ~ (y < x)
  BY <1>2, <1>3
<1>5. QED
  BY <1>4

LEMMA Largest ==
  ASSUME NEW T, T \subseteq Int, T # {}, NEW n \in Int, \A x \in T : x <= n
  PROVE  Max(T) \in T /\ \A y \in T : y <= Max(T)
<1> DEFINE U == {u \in Nat : n - u \in T}
<1>1. U # {}
  <2>1. PICK x \in T : TRUE
    OBVIOUS
  <2>2. n - x \in Nat /\ n - (n - x) = x
    BY <2>1
  <2>3. QED
    BY <2>1, <2>2
<1>2. PICK u \in U : \A v \in U : u <= v
  BY <1>1, Smallest
<1>3. \A y \in T : y <= n - u
  <2> TAKE y \in T
  <2>1. n - y \in Nat /\ n - (n - y) = y
    OBVIOUS
  <2>2. n - y \in U
    BY <2>1
  <2>3. u <= n - y
    BY <1>2, <2>2
  <2>4. u \in Nat /\ y \in Int
    BY <1>2
  <2>5. QED
    BY <2>3, <2>4
<1>4. n - u \in T
  BY <1>2
<1>5. QED
  BY <1>3, <1>4 DEF Max

LEMMA Bounded ==
  ASSUME NEW T, T \subseteq Nat, IsFiniteSet(T)
  PROVE  \E n \in Nat : \A x \in T : x <= n
<1>0. PICK m \in Nat : ExistsSurjection(1 .. m, T)
  BY FS_NatSurjection
<1>1. PICK f \in [1 .. m -> T] : \A x \in T : \E i \in 1 .. m : f[i] = x
  BY <1>0 DEF ExistsSurjection, Surjection
<1> DEFINE P(k) == \E n \in Nat : \A i \in 1 .. k : f[i] <= n
           U == {k \in 0 .. m : ~ P(k)}
<1>2. P(0)
  BY DEF P
<1>3. ASSUME NEW k \in 1 .. m, P(k - 1) PROVE P(k)
  <2>1. PICK n \in Nat : \A i \in 1 .. k - 1 : f[i] <= n
    BY <1>3
  <2>2. f[k] \in Nat
    BY <1>3
  <2>3. PICK b \in Nat : n <= b /\ f[k] <= b
    BY <2>1, <2>2
  <2>4. \A i \in 1 .. k : f[i] <= b
    <3> TAKE i \in 1 .. k
    <3>1. i \in 1 .. m /\ (i = k \/ i \in 1 .. k - 1)
      OBVIOUS
    <3>2. f[i] \in Nat
      BY <3>1
    <3> QED BY <2>1, <2>3, <3>1, <3>2
  <2>5. QED
    BY <2>4
<1>4. U = {}
  <2>1. SUFFICES ASSUME U # {} PROVE FALSE
    OBVIOUS
  <2>2. U \subseteq Nat
    OBVIOUS
  <2> HIDE DEF P
  <2>3. PICK k \in U : \A v \in U : k <= v
    <3> HIDE DEF U
    <3> QED BY <2>1, <2>2, Smallest
  <2>4. k \in 1 .. m
    BY <1>2, <2>3
  <2>5. k - 1 \in 0 .. m /\ k - 1 \notin U
    BY <2>3, <2>4
  <2>6. P(k - 1)
    BY <2>5
  <2>7. QED
    BY <1>3, <2>3, <2>4, <2>6
<1>5. P(m)
  <2> HIDE DEF P
  <2> QED BY <1>4
<1>6. PICK n \in Nat : \A i \in 1 .. m : f[i] <= n
  BY <1>5
<1>7. QED
  BY <1>1, <1>6

-----------------------------------------------------------------------------
(* Sequences, whatever their elements are.                                 *)
IsSequence(s) == s \in Seq(Range(s))

LEMMA SequenceIs ==
  ASSUME NEW S, NEW s \in Seq(S)
  PROVE  IsSequence(s) /\ Len(s) \in Nat /\ DOMAIN s = 1 .. Len(s)
<1>1. Len(s) \in Nat /\ DOMAIN s = 1 .. Len(s) /\ s \in [1 .. Len(s) -> S]
  BY LenProperties
<1>2. \A i \in 1 .. Len(s) : s[i] \in Range(s)
  BY <1>1 DEF Range
<1>3. s \in [1 .. Len(s) -> Range(s)]
  BY <1>1, <1>2
<1>4. QED
  BY <1>1, <1>3, SeqDef DEF IsSequence

LEMMA SequenceProperties ==
  ASSUME NEW s, IsSequence(s)
  PROVE  /\ Len(s) \in Nat
         /\ DOMAIN s = 1 .. Len(s)
         /\ s # <<>> <=> Len(s) > 0
         /\ \A i \in 1 .. Len(s) : s[i] \in Range(s)
<1>1. Len(s) \in Nat /\ DOMAIN s = 1 .. Len(s)
  BY LenProperties DEF IsSequence
<1>2. s # <<>> <=> Len(s) > 0
  BY EmptySeq DEF IsSequence
<1>3. QED
  BY <1>1, <1>2 DEF Range

\* Two sequences, and an element, over one set.
LEMMA CommonSet ==
  ASSUME NEW s, NEW t, NEW x, IsSequence(s), IsSequence(t)
  PROVE  LET S == Range(s) \cup Range(t) \cup {x} IN s \in Seq(S) /\ t \in Seq(S) /\ x \in S
<1> DEFINE S == Range(s) \cup Range(t) \cup {x}
<1>1. Range(s) \subseteq S /\ Range(t) \subseteq S /\ x \in S
  OBVIOUS
<1>2. s \in Seq(S)
  <2> HIDE DEF S
  <2> QED BY <1>1, SeqMonotonic DEF IsSequence
<1>3. t \in Seq(S)
  <2> HIDE DEF S
  <2> QED BY <1>1, SeqMonotonic DEF IsSequence
<1>4. QED
  BY <1>1, <1>2, <1>3

LEMMA AppendSequence ==
  ASSUME NEW s, NEW x, IsSequence(s)
  PROVE  /\ IsSequence(Append(s, x))
         /\ Len(Append(s, x)) = Len(s) + 1
         /\ \A i \in 1 .. Len(s) : Append(s, x)[i] = s[i]
         /\ Append(s, x)[Len(s) + 1] = x
<1> DEFINE S == Range(s) \cup Range(s) \cup {x}
<1>1. s \in Seq(S) /\ x \in S
  BY CommonSet
<1> HIDE DEF S
<1>2. /\ Append(s, x) \in Seq(S)
      /\ Len(Append(s, x)) = Len(s) + 1
      /\ \A i \in 1 .. Len(s) : Append(s, x)[i] = s[i]
      /\ Append(s, x)[Len(s) + 1] = x
  BY <1>1, AppendProperties
<1>3. IsSequence(Append(s, x))
  BY <1>2, SequenceIs
<1>4. QED
  BY <1>2, <1>3

LEMMA ExceptSequence ==
  ASSUME NEW s, NEW x, IsSequence(s), NEW i \in DOMAIN s
  PROVE  /\ IsSequence([s EXCEPT ![i] = x])
         /\ Len([s EXCEPT ![i] = x]) = Len(s)
         /\ \A j \in 1 .. Len(s) : [s EXCEPT ![i] = x][j] = IF j = i THEN x ELSE s[j]
<1> DEFINE S == Range(s) \cup Range(s) \cup {x}
<1>1. s \in Seq(S) /\ x \in S
  BY CommonSet
<1>2. i \in 1 .. Len(s)
  BY SequenceProperties
<1> HIDE DEF S
<1>3. /\ [s EXCEPT ![i] = x] \in Seq(S)
      /\ Len([s EXCEPT ![i] = x]) = Len(s)
      /\ \A j \in 1 .. Len(s) : [s EXCEPT ![i] = x][j] = IF j = i THEN x ELSE s[j]
  BY <1>1, <1>2, ExceptSeq
<1>4. IsSequence([s EXCEPT ![i] = x])
  BY <1>3, SequenceIs
<1>5. QED
  BY <1>3, <1>4

LEMMA ConcatSequence ==
  ASSUME NEW s, NEW t, IsSequence(s), IsSequence(t)
  PROVE  /\ IsSequence(s \o t)
         /\ Len(s \o t) = Len(s) + Len(t)
         /\ \A i \in 1 .. Len(s) : (s \o t)[i] = s[i]
         /\ \A i \in 1 .. Len(t) : (s \o t)[Len(s) + i] = t[i]
<1> DEFINE S == Range(s) \cup Range(t) \cup {0}
<1>1. s \in Seq(S) /\ t \in Seq(S)
  BY CommonSet
<1>2. Len(s) \in Nat /\ Len(t) \in Nat
  BY SequenceProperties
<1> HIDE DEF S
<1>3. s \o t \in Seq(S) /\ Len(s \o t) = Len(s) + Len(t)
      /\ \A i \in 1 .. Len(s) + Len(t) : (s \o t)[i] = IF i <= Len(s) THEN s[i] ELSE t[i - Len(s)]
  BY <1>1, ConcatProperties
<1>4. \A i \in 1 .. Len(t) : (s \o t)[Len(s) + i] = t[i]
  <2> TAKE i \in 1 .. Len(t)
  <2>1. Len(s) + i \in 1 .. Len(s) + Len(t) /\ ~ (Len(s) + i <= Len(s)) /\ Len(s) + i - Len(s) = i
    BY <1>2
  <2> QED BY <1>3, <2>1
<1>5. IsSequence(s \o t)
  BY <1>3, SequenceIs
<1>6. QED
  BY <1>2, <1>3, <1>4, <1>5

LEMMA TailSequence ==
  ASSUME NEW s, IsSequence(s), s # <<>>
  PROVE  /\ IsSequence(Tail(s))
         /\ Len(Tail(s)) = Len(s) - 1
         /\ \A i \in 1 .. Len(s) - 1 : Tail(s)[i] = s[i + 1]
<1>1. Tail(s) \in Seq(Range(s)) /\ Len(Tail(s)) = Len(s) - 1
      /\ \A i \in 1 .. Len(Tail(s)) : Tail(s)[i] = s[i + 1]
  BY HeadTailProperties DEF IsSequence
<1>2. QED
  BY <1>1, SequenceIs

\* Front is SubSeq, which drop_domain is.
LEMMA FrontSequence ==
  ASSUME NEW s, IsSequence(s), s # <<>>
  PROVE  /\ IsSequence(Front(s))
         /\ Len(Front(s)) = Len(s) - 1
         /\ \A i \in 1 .. Len(s) - 1 : Front(s)[i] = s[i]
<1>1. Len(s) \in Nat \ {0} /\ \A i \in 1 .. Len(s) : s[i] \in Range(s)
  BY SequenceProperties
<1>2. Front(s) = SubSeq(s, 1, Len(s) - 1)
  BY DEF Front
<1> DEFINE n == Len(s) - 1
<1>3. n \in Nat /\ \A i \in 1 .. n : s[i] \in Range(s)
  BY <1>1
<1>4. SubSeq(s, 1, n) \in Seq(Range(s)) /\ Len(SubSeq(s, 1, n)) = (IF 1 <= n THEN n - 1 + 1 ELSE 0)
      /\ \A i \in 1 .. n - 1 + 1 : SubSeq(s, 1, n)[i] = s[1 + i - 1]
  <2> HIDE DEF n
  <2> QED BY <1>3, SubSeqProperties
<1>5. IsSequence(SubSeq(s, 1, n))
  BY <1>4, SequenceIs
<1>6. Len(SubSeq(s, 1, n)) = n /\ \A i \in 1 .. n : SubSeq(s, 1, n)[i] = s[i]
  <2> HIDE DEF n
  <2> QED BY <1>3, <1>4
<1>7. QED
  BY <1>2, <1>5, <1>6

LEMMA ShortSequences ==
  ASSUME NEW a, NEW b, NEW c
  PROVE  IsSequence(<<>>) /\ IsSequence(<<a>>) /\ IsSequence(<<a, b>>) /\ IsSequence(<<a, b, c>>)
<1>1. <<>> \in Seq({a}) /\ <<a>> \in Seq({a}) /\ <<a, b>> \in Seq({a, b}) /\ <<a, b, c>> \in Seq({a, b, c})
  OBVIOUS
<1>2. QED
  BY <1>1, SequenceIs

-----------------------------------------------------------------------------
(* Instruction lists.                                                      *)
Node(op, arg, next) == [op |-> op, arg |-> arg, next |-> next]

\* A target is one of the first n instructions.
NodeOK(x, n) ==
  /\ x = Node(x.op, x.arg, x.next)
  /\ x.next \in 0 .. n
  /\ x.op = "CALL" => x.arg \in 0 .. n
  /\ x.op \in {"JMP", "JF"} => x.arg \in {Unset} \cup 1 .. n

\* i ends the list being built: every list that ended before has an end
\* before it.
IsLast(c, i) == i \in DOMAIN c /\ c[i].next = NULL /\ \A j \in i + 1 .. Len(c) : c[j].next # NULL

CodeOK(c, n) ==
  /\ IsSequence(c) /\ n \in Nat /\ Len(c) <= n
  /\ \A i \in DOMAIN c : NodeOK(c[i], n)
  /\ c # <<>> => \E i \in DOMAIN c : IsLast(c, i)

\* An instruction of the list being built, which the end of it follows.
Reached(c, i) == i \in DOMAIN c /\ (c[i].next # NULL \/ i = LastInstruction(c))

\* What a step of the generator leaves as it was.
Continues(c, d) ==
  /\ Len(c) <= Len(d)
  /\ \A i \in DOMAIN c :
       /\ d[i].op = c[i].op
       /\ c[i].next # NULL => d[i].next # NULL
       /\ Reached(c, i) => Reached(d, i)

\* The two ways the code changes: an instruction behind b, an argument set.
After(c, b, op, arg) ==
  Append([c EXCEPT ![b].next = Len(c) + 1], Node(op, arg, c[b].next))
WithArgument(c, i, arg) == [c EXCEPT ![i].arg = arg]

LEMMA NodeFields ==
  ASSUME NEW op, NEW arg, NEW next
  PROVE  /\ Node(op, arg, next).op = op /\ Node(op, arg, next).arg = arg
         /\ Node(op, arg, next).next = next
         /\ \A m : [Node(op, arg, next) EXCEPT !.next = m] = Node(op, arg, m)
         /\ \A a : [Node(op, arg, next) EXCEPT !.arg = a] = Node(op, a, next)
  BY DEF Node

LEMMA NodeMonotonic ==
  ASSUME NEW x, NEW n \in Nat, NEW m \in Nat, n <= m, NodeOK(x, n)
  PROVE  NodeOK(x, m)
  BY DEF NodeOK

LEMMA LastIs ==
  ASSUME NEW c, NEW i, IsSequence(c), IsLast(c, i)
  PROVE  LastInstruction(c) = i
<1>1. DOMAIN c = 1 .. Len(c) /\ Len(c) \in Nat
  BY SequenceProperties
<1>2. \A j \in DOMAIN c : IsLast(c, j) => j = i
  BY <1>1 DEF IsLast
<1>3. LastInstruction(c) = CHOOSE j \in DOMAIN c : IsLast(c, j)
  BY DEF LastInstruction, IsLast
<1>4. QED
  BY <1>2, <1>3 DEF IsLast

LEMMA LastExists ==
  ASSUME NEW c, NEW n, CodeOK(c, n), c # <<>>
  PROVE  IsLast(c, LastInstruction(c)) /\ Reached(c, LastInstruction(c))
<1>1. PICK i \in DOMAIN c : IsLast(c, i)
  BY DEF CodeOK
<1>2. LastInstruction(c) = i
  BY <1>1, LastIs DEF CodeOK
<1>3. QED
  BY <1>1, <1>2 DEF Reached

LEMMA ContinuesReflexive == \A c : IsSequence(c) => Continues(c, c)
  BY SequenceProperties DEF Continues

LEMMA ContinuesTransitive ==
  ASSUME NEW c, NEW d, NEW e, IsSequence(c), IsSequence(d), IsSequence(e),
         Continues(c, d), Continues(d, e)
  PROVE  Continues(c, e)
  BY SequenceProperties DEF Continues

(* insert_instruction: the list goes on as it did, with one more           *)
(* instruction behind one that was in it; behind its end, it has a new end. *)
LEMMA InsertedAfter ==
  ASSUME NEW c, NEW n, CodeOK(c, n), NEW b, Reached(c, b), NEW op, NEW arg,
         NEW m \in Nat, n <= m, Len(c) + 1 <= m,
         NodeOK(Node(op, arg, c[b].next), m)
  PROVE  /\ CodeOK(After(c, b, op, arg), m)
         /\ Continues(c, After(c, b, op, arg))
         /\ Len(After(c, b, op, arg)) = Len(c) + 1
         /\ After(c, b, op, arg)[Len(c) + 1] = Node(op, arg, c[b].next)
         /\ c[b].next = NULL => IsLast(After(c, b, op, arg), Len(c) + 1)
<1> DEFINE l == Len(c) + 1
           x == Node(c[b].op, c[b].arg, l)
           new == Node(op, arg, c[b].next)
           e == [c EXCEPT ![b] = x]
           d == Append(e, new)
<1>1. IsSequence(c) /\ Len(c) \in Nat /\ DOMAIN c = 1 .. Len(c) /\ b \in DOMAIN c /\ n \in Nat
  BY SequenceProperties DEF CodeOK, Reached
<1>2. NodeOK(c[b], n) /\ c[b] = Node(c[b].op, c[b].arg, c[b].next)
  BY <1>1 DEF CodeOK, NodeOK
<1>3. [c EXCEPT ![b].next = Len(c) + 1] = e
  <2>1. [c[b] EXCEPT !.next = l] = x
    BY <1>2, NodeFields
  <2>2. QED
    BY <2>1
<1>4. IsSequence(e) /\ Len(e) = Len(c) /\ \A j \in 1 .. Len(c) : e[j] = IF j = b THEN x ELSE c[j]
  <2> HIDE DEF x
  <2> QED BY <1>1, ExceptSequence
<1>5. /\ IsSequence(d) /\ Len(d) = l /\ d[l] = new
      /\ \A j \in 1 .. Len(c) : d[j] = IF j = b THEN x ELSE c[j]
  <2> HIDE DEF e, new, x
  <2> QED BY <1>4, AppendSequence
<1>6. DOMAIN d = 1 .. l /\ l \in Nat
  BY <1>1, <1>5, SequenceProperties
<1>7. x.op = c[b].op /\ x.arg = c[b].arg /\ x.next = l /\ new.next = c[b].next
  BY NodeFields
<1> HIDE DEF e, d
<1>8. \A j \in DOMAIN d : NodeOK(d[j], m)
  <2> TAKE j \in DOMAIN d
  <2>1. CASE j = l
    BY <1>5, <2>1
  <2>2. CASE j = b
    <3>1. NodeOK(x, m)
      BY <1>1, <1>2, <1>7 DEF NodeOK
    <3>2. QED
      BY <1>1, <1>5, <2>2, <3>1
  <2>3. CASE j # l /\ j # b
    <3>1. j \in DOMAIN c /\ d[j] = c[j]
      BY <1>1, <1>5, <1>6, <2>3
    <3>2. QED
      BY <1>1, <3>1, NodeMonotonic DEF CodeOK
  <2>4. QED BY <2>1, <2>2, <2>3
<1>9. c[b].next = NULL => IsLast(d, l)
  BY <1>5, <1>6, <1>7 DEF IsLast
<1>10. c[b].next # NULL => \A i \in DOMAIN c : IsLast(c, i) => IsLast(d, i)
  BY <1>1, <1>5, <1>6, <1>7 DEF IsLast, NULL
<1>11. \E i \in DOMAIN d : IsLast(d, i)
  <2>1. CASE c[b].next = NULL
    BY <1>6, <1>9, <2>1 DEF IsLast
  <2>2. CASE c[b].next # NULL
    <3>1. PICK i \in DOMAIN c : IsLast(c, i)
      BY <1>1, SequenceProperties DEF CodeOK
    <3>2. QED
      BY <1>10, <2>2, <3>1 DEF IsLast
  <2>3. QED BY <2>1, <2>2
<1>12. CodeOK(d, m)
  BY <1>1, <1>5, <1>8, <1>11 DEF CodeOK
<1>13. Continues(c, d)
  <2>1. \A i \in DOMAIN c : d[i].op = c[i].op /\ (c[i].next # NULL => d[i].next # NULL)
    BY <1>1, <1>5, <1>7 DEF NULL
  <2>2. ASSUME NEW i \in DOMAIN c, Reached(c, i) PROVE Reached(d, i)
    <3>1. i \in DOMAIN d
      BY <1>1, <1>6
    <3>2. CASE c[i].next # NULL
      BY <2>1, <3>1, <3>2 DEF Reached
    <3>3. CASE c[i].next = NULL
      <4>1. i = LastInstruction(c) /\ IsLast(c, i)
        BY <2>2, <3>3, <1>1, LastExists, SequenceProperties DEF Reached
      <4>2. CASE c[b].next # NULL
        BY <4>1, <4>2, <1>5, <1>10, <3>1, LastIs DEF Reached
      <4>3. CASE c[b].next = NULL
        <5>1. b = i
          BY <4>1, <4>3 DEF Reached
        <5>2. QED
          BY <5>1, <3>1, <1>1, <1>5, <1>7 DEF Reached, NULL
      <4>4. QED BY <4>2, <4>3
    <3>4. QED BY <3>2, <3>3
  <2>3. QED
    BY <1>1, <1>5, <2>1, <2>2 DEF Continues
<1>14. QED
  BY <1>3, <1>5, <1>9, <1>12, <1>13 DEF d, After

Listed(c) == CodeOK(c, Len(c)) /\ c # <<>>
Generated(c, d) == Listed(d) /\ Continues(c, d)
ArgOK(op, arg, n) ==
  /\ op = "CALL" => arg \in 0 .. n
  /\ op \in {"JMP", "JF"} => arg \in {Unset} \cup 1 .. n

LEMMA Added ==
  ASSUME NEW c, NEW n, CodeOK(c, n), c # <<>>, NEW op, NEW arg,
         NEW m \in Nat, n <= m, Len(c) + 1 <= m, ArgOK(op, arg, m)
  PROVE  LET d == AddInstruction(c, op, arg)
         IN  CodeOK(d, m) /\ Continues(c, d) /\ Len(d) = Len(c) + 1 /\ IsLast(d, Len(d))
             /\ d[Len(d)].op = op
<1> DEFINE b == LastInstruction(c)
           d == After(c, b, op, arg)
<1>1. IsLast(c, b) /\ Reached(c, b)
  BY LastExists
<1>2. c[b].next = NULL
  BY <1>1 DEF IsLast
<1>3. NodeOK(Node(op, arg, c[b].next), m)
  BY <1>2, NodeFields DEF NodeOK, ArgOK, NULL
<1>4. AddInstruction(c, op, arg) = d
  BY <1>2 DEF AddInstruction, Instruction, Node, After
<1> HIDE DEF b
<1>5. CodeOK(d, m) /\ Continues(c, d) /\ Len(d) = Len(c) + 1
      /\ d[Len(c) + 1] = Node(op, arg, c[b].next) /\ IsLast(d, Len(c) + 1)
  BY <1>1, <1>2, <1>3, InsertedAfter
<1> HIDE DEF d
<1>6. QED
  BY <1>4, <1>5, NodeFields

LEMMA ListedNat ==
  ASSUME NEW c, Listed(c)
  PROVE  IsSequence(c) /\ Len(c) \in Nat \ {0} /\ DOMAIN c = 1 .. Len(c)
  BY SequenceProperties DEF Listed, CodeOK

LEMMA GeneratedTransitive ==
  ASSUME NEW c, NEW d, NEW e, Listed(c), Generated(c, d), Generated(d, e)
  PROVE  Generated(c, e)
  BY ContinuesTransitive, ListedNat DEF Generated

LEMMA GeneratedReflexive ==
  ASSUME NEW c, Listed(c)
  PROVE  Generated(c, c)
  BY ContinuesReflexive, ListedNat DEF Generated

LEMMA AddGenerates ==
  ASSUME NEW c, Listed(c), NEW op, NEW arg, ArgOK(op, arg, Len(c) + 1)
  PROVE  LET d == AddInstruction(c, op, arg)
         IN  Generated(c, d) /\ Len(d) = Len(c) + 1 /\ d[Len(d)].op = op
<1> DEFINE d == AddInstruction(c, op, arg)
<1>1. Len(c) \in Nat /\ Len(c) + 1 \in Nat
  BY ListedNat
<1>2. CodeOK(d, Len(c) + 1) /\ Continues(c, d) /\ Len(d) = Len(c) + 1 /\ d[Len(d)].op = op
  <2> HIDE DEF d
  <2> QED BY <1>1, Added DEF Listed, d
<1>3. d # <<>>
  <2> HIDE DEF d
  <2>1. IsSequence(d)
    BY <1>2 DEF CodeOK
  <2>2. QED
    BY <1>1, <1>2, <2>1, SequenceProperties
<1>4. QED
  BY <1>2, <1>3 DEF Generated, Listed

\* Those that are neither calls nor jumps.
LEMMA AddPlain ==
  ASSUME NEW c, Listed(c), NEW op, NEW arg, op \notin {"CALL", "JMP", "JF"}
  PROVE  Generated(c, AddInstruction(c, op, arg))
  BY AddGenerates DEF ArgOK

LEMMA InsertGenerates ==
  ASSUME NEW c, Listed(c), NEW b, Reached(c, b), NEW op, op \notin {"CALL", "JMP", "JF"}
  PROVE  Generated(c, InsertInstruction(c, b, op))
<1> DEFINE m == Len(c) + 1
           new == Node(op, Unset, c[b].next)
           d == After(c, b, op, Unset)
<1>1. Len(c) \in Nat /\ m \in Nat /\ Len(c) <= m
  BY ListedNat
<1>2. b \in DOMAIN c /\ c[b].next \in 0 .. m
  BY <1>1, ListedNat DEF Reached, Listed, CodeOK, NodeOK
<1>3. NodeOK(new, m)
  BY <1>1, <1>2, NodeFields DEF NodeOK
<1>4. CodeOK(d, m) /\ Continues(c, d) /\ Len(d) = m
  BY <1>1, <1>3, InsertedAfter DEF Listed
<1>5. InsertInstruction(c, b, op) = d
  BY DEF InsertInstruction, Node, After
<1>6. d # <<>>
  <2> HIDE DEF d
  <2>1. IsSequence(d)
    BY <1>4 DEF CodeOK
  <2>2. QED
    BY <1>1, <1>4, <2>1, SequenceProperties
<1> HIDE DEF d
<1>7. QED
  BY <1>4, <1>5, <1>6 DEF Generated, Listed

LEMMA InsertConversionGenerates ==
  ASSUME NEW c, Listed(c), NEW b, Reached(c, b), NEW t, NEW u
  PROVE  Generated(c, InsertConversion(c, b, t, u))
<1>1. CASE t.base = "int" /\ u.base = "double"
  BY <1>1, InsertGenerates DEF InsertConversion
<1>2. CASE t.base = "double" /\ u.base = "int"
  BY <1>2, InsertGenerates DEF InsertConversion
<1>3. CASE ~ (t.base = "int" /\ u.base = "double") /\ ~ (t.base = "double" /\ u.base = "int")
  BY <1>3, GeneratedReflexive DEF InsertConversion
<1>4. QED
  BY <1>1, <1>2, <1>3

LEMMA ConvertLastGenerates ==
  ASSUME NEW c, Listed(c), NEW t, NEW u
  PROVE  Generated(c, ConvertLast(c, t, u))
<1>1. Reached(c, LastInstruction(c))
  BY LastExists DEF Listed
<1>2. QED
  BY <1>1, InsertConversionGenerates DEF ConvertLast

LEMMA AddRvalGenerates ==
  ASSUME NEW c, Listed(c), NEW v
  PROVE  Generated(c, AddRval(c, v))
<1>1. CASE v.lval /\ v.type.base \in {"int", "char"}
  BY <1>1, AddPlain DEF AddRval
<1>2. CASE v.lval /\ v.type.base = "double"
  BY <1>2, AddPlain DEF AddRval
<1>3. CASE ~ (v.lval /\ v.type.base \in {"int", "char"}) /\ ~ (v.lval /\ v.type.base = "double")
  BY <1>3, GeneratedReflexive DEF AddRval
<1>4. QED
  BY <1>1, <1>2, <1>3

\* A value that is loaded and converted.
LEMMA LoadGenerates ==
  ASSUME NEW c, Listed(c), NEW v, NEW t, NEW u
  PROVE  Generated(c, ConvertLast(AddRval(c, v), t, u))
<1>1. Generated(c, AddRval(c, v))
  BY AddRvalGenerates
<1>2. Generated(AddRval(c, v), ConvertLast(AddRval(c, v), t, u))
  BY <1>1, ConvertLastGenerates DEF Generated
<1>3. QED
  BY <1>1, <1>2, GeneratedTransitive

\* The argument of one instruction set: to a target among the first m.
LEMMA ArgumentSet ==
  ASSUME NEW c, NEW n, CodeOK(c, n), NEW i \in DOMAIN c, NEW arg,
         NEW m \in Nat, n <= m, ArgOK(c[i].op, arg, m)
  PROVE  /\ CodeOK(WithArgument(c, i, arg), m)
         /\ Continues(c, WithArgument(c, i, arg))
         /\ Len(WithArgument(c, i, arg)) = Len(c)
<1> DEFINE x == Node(c[i].op, arg, c[i].next)
           d == [c EXCEPT ![i] = x]
<1>1. IsSequence(c) /\ Len(c) \in Nat /\ DOMAIN c = 1 .. Len(c) /\ n \in Nat /\ Len(c) <= n
  BY SequenceProperties DEF CodeOK
<1>2. [c EXCEPT ![i].arg = arg] = d
  <2>1. c[i] = Node(c[i].op, c[i].arg, c[i].next)
    BY DEF CodeOK, NodeOK
  <2>2. [c[i] EXCEPT !.arg = arg] = x
    BY <2>1, NodeFields
  <2>3. QED
    BY <2>2
<1>3. x.op = c[i].op /\ x.next = c[i].next /\ x.arg = arg
  BY NodeFields
<1>4. IsSequence(d) /\ Len(d) = Len(c) /\ \A j \in 1 .. Len(c) : d[j] = IF j = i THEN x ELSE c[j]
  <2> HIDE DEF x
  <2> QED BY <1>1, ExceptSequence
<1>5. DOMAIN d = 1 .. Len(c)
  BY <1>1
<1> HIDE DEF d
<1>6. \A j \in DOMAIN c : d[j].op = c[j].op /\ d[j].next = c[j].next
  BY <1>1, <1>3, <1>4
<1>7. \A j : IsLast(c, j) <=> IsLast(d, j)
  BY <1>1, <1>4, <1>5, <1>6 DEF IsLast
<1>8. \A j \in DOMAIN d : NodeOK(d[j], m)
  <2> TAKE j \in DOMAIN d
  <2>1. NodeOK(c[j], m)
    BY <1>1, <1>5, NodeMonotonic DEF CodeOK
  <2>2. NodeOK(x, m)
    BY <1>1, <1>3 , NodeMonotonic DEF CodeOK, NodeOK, ArgOK
  <2>3. QED
    BY <1>1, <1>4, <1>5, <2>1, <2>2
<1>9. CodeOK(d, m)
  <2>1. d # <<>> => \E j \in DOMAIN d : IsLast(d, j)
    BY <1>1, <1>4, <1>5, <1>7, SequenceProperties DEF CodeOK
  <2>2. QED
    BY <1>1, <1>4, <1>8, <2>1 DEF CodeOK
<1>10. Continues(c, d)
  <2>1. LastInstruction(d) = LastInstruction(c)
    <3>1. c # <<>>
      BY <1>1, SequenceProperties
    <3>2. IsLast(d, LastInstruction(c))
      BY <1>7, <3>1, LastExists
    <3>3. QED
      BY <1>4, <3>2, LastIs
  <2>2. QED
    BY <1>1, <1>4, <1>5, <1>6, <2>1 DEF Continues, Reached
<1>11. QED
  BY <1>2, <1>4, <1>9, <1>10 DEF WithArgument

LEMMA JumpGenerates ==
  ASSUME NEW c, Listed(c), NEW j \in DOMAIN c
  PROVE  Generated(c, JumpToNop(c, j))
<1> DEFINE m == Len(c) + 1
           e == WithArgument(c, j, m)
           d == AddInstruction(e, "NOP", Unset)
<1>1. Len(c) \in Nat /\ m \in Nat /\ Len(c) <= m /\ IsSequence(c) /\ c # <<>>
  BY ListedNat DEF Listed
<1>2. CodeOK(e, m) /\ Continues(c, e) /\ Len(e) = Len(c)
  <2>1. ArgOK(c[j].op, m, m)
    BY <1>1 DEF ArgOK
  <2>2. QED
    BY <1>1, <2>1, ArgumentSet DEF Listed
<1>3. IsSequence(e)
  BY <1>2 DEF CodeOK
<1> HIDE DEF e
<1>4. e # <<>>
  BY <1>1, <1>2, <1>3, SequenceProperties
<1>5. ArgOK("NOP", Unset, m)
  BY DEF ArgOK
<1>6. CodeOK(d, m) /\ Continues(e, d) /\ Len(d) = m
  BY <1>1, <1>2, <1>4, <1>5, Added
<1> HIDE DEF d
<1>7. IsSequence(d)
  BY <1>6 DEF CodeOK
<1>8. Continues(c, d) /\ d # <<>>
  BY <1>1, <1>2, <1>3, <1>6, <1>7, ContinuesTransitive, SequenceProperties
<1>9. JumpToNop(c, j) = d
  BY DEF JumpToNop, WithArgument, d, e
<1>10. QED
  BY <1>6, <1>8, <1>9 DEF Generated, Listed

\* A new list begins: there may be none before it.
LEMMA StartGenerates ==
  ASSUME NEW c, CodeOK(c, Len(c)), NEW op, NEW arg, op \notin {"CALL", "JMP", "JF"}
  PROVE  LET d == StartList(c, op, arg)
         IN  Listed(d) /\ Len(d) = Len(c) + 1 /\ d[Len(d)].op = op
<1> DEFINE d == Append(c, Node(op, arg, NULL))
           m == Len(c) + 1
<1>1. IsSequence(c) /\ Len(c) \in Nat /\ DOMAIN c = 1 .. Len(c)
  BY SequenceProperties DEF CodeOK
<1>2. IsSequence(d) /\ Len(d) = m /\ (\A i \in 1 .. Len(c) : d[i] = c[i]) /\ d[m] = Node(op, arg, NULL)
  BY <1>1, AppendSequence
<1>3. StartList(c, op, arg) = d
  BY DEF StartList, Instruction, Node
<1> HIDE DEF d
<1>4. DOMAIN d = 1 .. m
  BY <1>2, SequenceProperties
<1>5. \A i \in DOMAIN d : NodeOK(d[i], m)
  <2> TAKE i \in DOMAIN d
  <2>1. CASE i = m
    BY <1>1, <1>2, <2>1, NodeFields DEF NodeOK, NULL
  <2>2. CASE i # m
    BY <1>1, <1>2, <1>4, <2>2, NodeMonotonic DEF CodeOK
  <2>3. QED BY <2>1, <2>2
<1>6. IsLast(d, m)
  BY <1>1, <1>2, <1>4, NodeFields DEF IsLast
<1>7. QED
  BY <1>1, <1>2, <1>3, <1>4, <1>5, <1>6, NodeFields, SequenceProperties DEF Listed, CodeOK
=============================================================================
