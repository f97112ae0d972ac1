---------------------------- MODULE CompilerProofs ----------------------------
(***************************************************************************)
(* The compiler's type invariant, for every source, every set of names and *)
(* literals and every template: an inductive invariant that also says what *)
(* each suspended activation of the parser holds, where on the stack of    *)
(* activations it can be, and how many domains are open.  One lemma per    *)
(* action; before them, what they share: steps of expressions, of          *)
(* statements, of the global level, and steps that change the symbol       *)
(* table.                                                                  *)
(***************************************************************************)
EXTENDS Bytecode, CodeGeneratorProofs

-----------------------------------------------------------------------------
(* The inductive invariant.  Its parts are about the values of variables,  *)
(* so that they can be stated of the values after a step as well.          *)
Bases == Arithmetic \cup {"void", "struct"}

\* A type that refers to one of the first ns structs.
Proper(t, ns) ==
  /\ t \in [base : Bases, sym : 0 .. ns, dim : Int]
  /\ t.base = "struct" => t.sym > 0
TypeList(s, ns) == IsSequence(s) /\ \A i \in DOMAIN s : Proper(s[i], ns)

OwnerOK(o, nf, ns) ==
  o \in {Nobody} \cup [kind : {"fn"}, no : 1 .. nf] \cup [kind : {"struct"}, no : 1 .. ns]

SymbolOK(s, nf, ns, ng) ==
  /\ s.name \in Names /\ Proper(s.type, ns) /\ OwnerOK(s.owner, nf, ns)
  /\ s.kind = "fn" => s.no \in 1 .. nf
  /\ s.kind = "struct" => s.type = StructT(s.no) /\ s.no \in 1 .. ns
  /\ s.kind = "variable" /\ s.owner = Nobody => s.no \in 1 .. ng

Fn(type, params, locals, declaration, extern, first) ==
  [type |-> type, params |-> params, locals |-> locals,
   declaration |-> declaration, extern |-> extern, first |-> first]
FnOK(f, ns, nc) ==
  /\ f = Fn(f.type, f.params, f.locals, f.declaration, f.extern, f.first)
  /\ Proper(f.type, ns) /\ TypeList(f.params, ns) /\ TypeList(f.locals, ns)
  /\ f.first \in 0 .. nc

\* Struct k has members of types that were there when it was begun.
StructOK(members, k) == IsSequence(members) /\ \A i \in DOMAIN members : Proper(members[i].type, k)

SymbolsOK(ds, nf, ns, ng) ==
  /\ IsSequence(ds) /\ ds # <<>>
  /\ \A d \in DOMAIN ds : \A s \in ds[d] : SymbolOK(s, nf, ns, ng)
FnsOK(fs, ns, nc) == IsSequence(fs) /\ \A f \in DOMAIN fs : FnOK(fs[f], ns, nc)
StructsOK(ss) == IsSequence(ss) /\ \A k \in DOMAIN ss : StructOK(ss[k], k)
TableOK(ds, fs, ss, gs, nc) ==
  /\ SymbolsOK(ds, Len(fs), Len(ss), Len(gs))
  /\ FnsOK(fs, Len(ss), nc) /\ StructsOK(ss) /\ IsSequence(gs)

\* What the C locals of a suspended activation hold.
Declarator(do, for, type, name) == [do |-> do, for |-> for, type |-> type, name |-> name]
Passing(fn, no) == [do |-> "argument", fn |-> fn, no |-> no]
Declaring == {"array", "dimension", "endArray", "declaration", "variable", "parameter", "cast"}
WithType == Declaring \cup {"name", "initializer", "declarators", "initialize", "convert", "index"}
ItemOK(x, nf, ns, c, g) ==
  /\ x.do \in {"type", "structName", "structTag"} => x.for \in {"unit", "variable", "parameter", "cast"}
  /\ x.do = "structTag" => x.name \in Names
  /\ x.do = "name" => x.for \in {"unit", "variable", "parameter"}
  /\ x.do \in Declaring =>
       /\ x = Declarator(x.do, x.for, x.type, x.name)
       /\ x.for \in {"variable", "parameter", "cast"}
       /\ x.for # "cast" => x.name \in Names
       /\ x.do \in {"variable", "parameter", "cast"} => x.for = x.do
       /\ x.do = "declaration" => x.for = "variable"
  /\ x.do \in WithType => Proper(x.type, ns)
  /\ x.do = "operand" => x = Operand(x.cast)
  /\ x.do = "binary" => Proper(x.left, ns) /\ (g => Reached(c, x.last))
  /\ x.do = "assign" => Proper(x.to.type, ns)
  /\ x.do \in {"arguments", "argument", "call"} => x.fn \in 1 .. nf
  /\ x.do = "argument" => x = Passing(x.fn, x.no)
  /\ x.do = "endFunction" => x.enter \in DOMAIN c /\ c[x.enter].op = "ENTER"
  /\ x.do = "condition" => Reached(c, x.before)
  /\ x.do \in {"endThen", "endWhile"} => x.jf \in DOMAIN c
  /\ x.do = "endWhile" => x.before \in DOMAIN c /\ c[x.before].next # NULL
  /\ x.do = "endIf" => x.jmp \in DOMAIN c

(* Where an activation can be: unit is the outermost, above it is what the *)
(* global level is doing; parameters are declared inside a heading,        *)
(* statements are inside a function's body.                                *)
Owning == {"members", "endStruct", "parameters", "moreParameters", "body", "endFunction"}
InHeading == {"parameters", "moreParameters", "body"}
Reading == {"type", "structName", "structTag", "name"}
AtTop(x) == x.do \in Owning \cup {"declaration"} \/ (x.do \in Reading /\ x.for = "unit")
Heading(x) ==
  \/ x.do = "parameter"
  \/ x.do \in Reading \cup {"array", "dimension", "endArray"} /\ x.for = "parameter"
Inside(x) ==
  x.do \in {"block", "stm", "return", "condition", "endThen", "endIf", "endWhile",
            "endExpression", "returnValue"}

Base(s) == IF Len(s) > 1 THEN s[Len(s) - 1].do ELSE "unit"
Placed(s) ==
  /\ IsSequence(s) /\ s # <<>>
  /\ \A k \in DOMAIN s :
       /\ s[k].do = "unit" <=> k = Len(s)
       /\ AtTop(s[k]) => k = Len(s) - 1
       /\ Heading(s[k]) => k < Len(s) - 1 /\ Base(s) = "moreParameters"
       /\ Inside(s[k]) => k < Len(s) - 1 /\ Base(s) = "endFunction"
       /\ Base(s) \in InHeading /\ k < Len(s) - 1 => Heading(s[k]) \/ s[k].do = "token"

\* Whose the domain is that is being filled.
OwnerFits(base, o, nf, ns) ==
  /\ base \in {"members", "endStruct"} => ns > 0 /\ o = [kind |-> "struct", no |-> ns]
  /\ base \in InHeading \cup {"endFunction"} => o \in [kind : {"fn"}, no : 1 .. nf]
  /\ base \notin Owning => o = Nobody

\* The blocks that have a domain of their own, which are those within another.
Opens(x) == x.do = "block" /\ x.domain
Opened(s) == Cardinality({k \in DOMAIN s : Opens(s[k])})
Nested(ds, o, s) == Len(ds) = 1 + Opened(s) + (IF o = Nobody THEN 0 ELSE 1)

ValueOK(v, ns) == v = Value(v.type, v.lval) /\ Proper(v.type, ns) /\ v.lval \in BOOLEAN

IInv ==
  /\ status \in {"parsing", "done", "error", "undefined"}
  /\ free \in Nat
  /\ ValueOK(r, Len(structs))
  /\ OwnerOK(owner, Len(fns), Len(structs))
  /\ TableOK(domains, fns, structs, globals, Len(code))
  /\ CodeOK(code, Len(code))
  /\ status = "parsing" =>
       /\ Placed(todo)
       /\ OwnerFits(Base(todo), owner, Len(fns), Len(structs))
       /\ Nested(domains, owner, todo)
       /\ \A k \in DOMAIN todo : ItemOK(todo[k], Len(fns), Len(structs), code, Generating)

-----------------------------------------------------------------------------
(* What grows keeps its types.                                             *)
LEMMA ProperMonotonic ==
  ASSUME NEW t, NEW n \in Nat, NEW m \in Nat, n <= m, Proper(t, n)
  PROVE  Proper(t, m)
  BY DEF Proper

LEMMA TypeListMonotonic ==
  ASSUME NEW s, NEW n \in Nat, NEW m \in Nat, n <= m, TypeList(s, n)
  PROVE  TypeList(s, m)
  BY ProperMonotonic DEF TypeList

LEMMA OwnerMonotonic ==
  ASSUME NEW o, NEW nf \in Nat, NEW ns \in Nat, NEW mf \in Nat, NEW ms \in Nat,
         nf <= mf, ns <= ms, OwnerOK(o, nf, ns)
  PROVE  OwnerOK(o, mf, ms)
  BY DEF OwnerOK

LEMMA SymbolMonotonic ==
  ASSUME NEW s, NEW nf \in Nat, NEW ns \in Nat, NEW ng \in Nat,
         NEW mf \in Nat, NEW ms \in Nat, NEW mg \in Nat,
         nf <= mf, ns <= ms, ng <= mg, SymbolOK(s, nf, ns, ng)
  PROVE  SymbolOK(s, mf, ms, mg)
  BY ProperMonotonic, OwnerMonotonic DEF SymbolOK

LEMMA FnMonotonic ==
  ASSUME NEW f, NEW ns \in Nat, NEW nc \in Nat, NEW ms \in Nat, NEW mc \in Nat,
         ns <= ms, nc <= mc, FnOK(f, ns, nc)
  PROVE  FnOK(f, ms, mc)
<1>1. Proper(f.type, ms) /\ TypeList(f.params, ms) /\ TypeList(f.locals, ms)
  BY ProperMonotonic, TypeListMonotonic DEF FnOK
<1>2. f.first \in 0 .. mc
  BY DEF FnOK
<1>3. QED
  BY <1>1, <1>2 DEF FnOK

LEMMA FnsMonotonic ==
  ASSUME NEW fs, NEW ns \in Nat, NEW nc \in Nat, NEW ms \in Nat, NEW mc \in Nat,
         ns <= ms, nc <= mc, FnsOK(fs, ns, nc)
  PROVE  FnsOK(fs, ms, mc)
  BY FnMonotonic DEF FnsOK

LEMMA SymbolsMonotonic ==
  ASSUME NEW ds, NEW nf \in Nat, NEW ns \in Nat, NEW ng \in Nat,
         NEW mf \in Nat, NEW ms \in Nat, NEW mg \in Nat,
         nf <= mf, ns <= ms, ng <= mg, SymbolsOK(ds, nf, ns, ng)
  PROVE  SymbolsOK(ds, mf, ms, mg)
  BY SymbolMonotonic DEF SymbolsOK

LEMMA TableMonotonic ==
  ASSUME NEW ds, NEW fs, NEW ss, NEW gs, NEW nc \in Nat, NEW mc \in Nat, nc <= mc,
         TableOK(ds, fs, ss, gs, nc)
  PROVE  TableOK(ds, fs, ss, gs, mc)
<1>1. Len(ss) \in Nat
  BY SequenceProperties DEF TableOK, StructsOK
<1>2. FnsOK(fs, Len(ss), mc)
  BY <1>1, FnsMonotonic DEF TableOK
<1>3. QED
  BY <1>2 DEF TableOK

\* A suspended activation finds what it needs after any step that keeps the
\* owner's kind, or generates no code for it.
LEMMA ItemKept ==
  ASSUME NEW x, NEW nf \in Nat, NEW ns \in Nat, NEW c, NEW g,
         NEW mf \in Nat, NEW ms \in Nat, NEW d, NEW h,
         nf <= mf, ns <= ms, IsSequence(c), IsSequence(d), Continues(c, d), h => g,
         ItemOK(x, nf, ns, c, g)
  PROVE  ItemOK(x, mf, ms, d, h)
<1>1. DOMAIN c \subseteq DOMAIN d
  BY SequenceProperties DEF Continues
<1>2. \A t : Proper(t, ns) => Proper(t, ms)
  BY ProperMonotonic
<1>3. \A i : Reached(c, i) => Reached(d, i)
  BY DEF Continues, Reached
<1>4. x.do = "endFunction" => x.enter \in DOMAIN d /\ d[x.enter].op = "ENTER"
  BY <1>1 DEF ItemOK, Continues
<1>5. x.do = "endWhile" => x.before \in DOMAIN d /\ d[x.before].next # NULL
  BY <1>1 DEF ItemOK, Continues
<1>6. x.do \in {"arguments", "argument", "call"} => x.fn \in 1 .. mf
  BY DEF ItemOK
<1>7. QED
  BY <1>1, <1>2, <1>3, <1>4, <1>5, <1>6 DEF ItemOK

-----------------------------------------------------------------------------
(* The stack of activations.                                               *)

\* An activation y that may take the place of x, or lie above it.
Sibling(x, y) ==
  /\ y.do # "unit" /\ ~ AtTop(y)
  /\ Heading(y) => Heading(x)
  /\ Inside(y) => Inside(x)
  /\ Heading(x) \/ x.do = "token" => Heading(y) \/ y.do = "token"

\* The same beneath, or nobody owning a domain as before.
SameBase(s, t) == Base(t) = Base(s) \/ (Base(t) \notin Owning /\ Base(s) \notin Owning)

\* t is s with items in the place of its head.
Exchanged(s, items, t) ==
  LET n == Len(items) IN
  /\ IsSequence(t) /\ Len(t) = n + Len(s) - 1
  /\ \A k \in 1 .. n : t[k] = items[k]
  /\ \A k \in n + 1 .. Len(t) : t[k] = s[k - n + 1] /\ k - n + 1 \in 2 .. Len(s)

LEMMA Replaced ==
  ASSUME NEW s, Placed(s), NEW items, IsSequence(items)
  PROVE  Exchanged(s, items, items \o Tail(s))
<1> DEFINE n == Len(items)
           u == Tail(s)
           t == items \o u
<1>1. IsSequence(s) /\ s # <<>> /\ Len(s) \in Nat /\ n \in Nat /\ Len(s) > 0
  BY SequenceProperties DEF Placed
<1>2. IsSequence(u) /\ Len(u) = Len(s) - 1 /\ \A i \in 1 .. Len(s) - 1 : u[i] = s[i + 1]
  BY <1>1, TailSequence
<1> HIDE DEF u
<1>3. /\ IsSequence(t) /\ Len(t) = n + Len(u)
      /\ \A i \in 1 .. n : t[i] = items[i]
      /\ \A i \in 1 .. Len(u) : t[n + i] = u[i]
  <2>1. IsSequence(items) /\ IsSequence(u)
    BY <1>2
  <2>2. IsSequence(t) /\ Len(t) = n + Len(u)
    BY <2>1, ConcatSequence
  <2>3. \A i \in 1 .. n : t[i] = items[i]
    BY <2>1, ConcatSequence
  <2>4. \A i \in 1 .. Len(u) : t[n + i] = u[i]
    BY <2>1, ConcatSequence
  <2>5. QED
    BY <2>2, <2>3, <2>4
<1> HIDE DEF t
<1>4. ASSUME NEW k \in n + 1 .. Len(t) PROVE t[k] = s[k - n + 1] /\ k - n + 1 \in 2 .. Len(s)
  <2>1. k - n \in 1 .. Len(u) /\ n + (k - n) = k /\ k - n \in 1 .. Len(s) - 1
    BY <1>1, <1>2, <1>3
  <2>2. t[k] = u[k - n]
    BY <1>3, <2>1
  <2>3. u[k - n] = s[k - n + 1]
    BY <1>2, <2>1
  <2>4. QED
    BY <1>1, <2>1, <2>2, <2>3
<1>5. QED
  BY <1>1, <1>2, <1>3, <1>4 DEF t, u, Exchanged

Siblings(x, items) == \A k \in DOMAIN items : Sibling(x, items[k])

(* An activation below the global level gives way to its siblings.         *)
LEMMA Swapped ==
  ASSUME NEW s, Placed(s), s[1].do # "unit", ~ AtTop(s[1]),
         NEW items, IsSequence(items), Siblings(s[1], items)
  PROVE  Placed(items \o Tail(s)) /\ SameBase(s, items \o Tail(s))
<1> DEFINE n == Len(items)
           m == Len(s)
           t == items \o Tail(s)
<1>1. IsSequence(s) /\ s # <<>> /\ m \in Nat /\ n \in Nat /\ m > 0
      /\ DOMAIN s = 1 .. m /\ DOMAIN items = 1 .. n
  BY SequenceProperties DEF Placed
<1>2. /\ IsSequence(t) /\ Len(t) = n + m - 1
      /\ \A k \in 1 .. n : t[k] = items[k]
      /\ \A k \in n + 1 .. Len(t) : t[k] = s[k - n + 1] /\ k - n + 1 \in 2 .. m
  BY Replaced DEF Exchanged
<1> HIDE DEF t
<1>3. DOMAIN t = 1 .. Len(t) /\ Len(t) > 0 /\ t # <<>>
  <2>1. m > 1
    BY <1>1 DEF Placed
  <2>2. QED
    BY <1>1, <1>2, <2>1, SequenceProperties
<1>4. m > 1
  BY <1>1 DEF Placed
<1>5. CASE m > 2
  <2>1. Base(t) = Base(s)
    <3>1. m - 1 > 1 /\ Len(t) > 1 /\ Len(t) - 1 \in n + 1 .. Len(t) /\ Len(t) - 1 - n + 1 = m - 1
      BY <1>1, <1>2, <1>5
    <3>2. t[Len(t) - 1] = s[m - 1]
      BY <1>2, <3>1
    <3>3. QED
      BY <1>4, <3>1, <3>2 DEF Base
  <2>2. ASSUME NEW k \in DOMAIN t
        PROVE  /\ t[k].do = "unit" <=> k = Len(t)
               /\ AtTop(t[k]) => k = Len(t) - 1
               /\ Heading(t[k]) => k < Len(t) - 1 /\ Base(t) = "moreParameters"
               /\ Inside(t[k]) => k < Len(t) - 1 /\ Base(t) = "endFunction"
               /\ Base(t) \in InHeading /\ k < Len(t) - 1 => Heading(t[k]) \/ t[k].do = "token"
    <3>1. CASE k \in 1 .. n
      <4>1. t[k] = items[k] /\ Sibling(s[1], items[k]) /\ k < Len(t) - 1
        BY <1>1, <1>2, <1>5, <3>1 DEF Siblings
      <4>2. 1 \in DOMAIN s /\ 1 < m - 1
        BY <1>1, <1>5
      <4>3. QED
        BY <2>1, <4>1, <4>2 DEF Sibling, Placed
    <3>2. CASE k \in n + 1 .. Len(t)
      <4>1. k - n + 1 \in DOMAIN s /\ t[k] = s[k - n + 1]
        BY <1>1, <1>2, <3>2
      <4>2. (k - n + 1 = m <=> k = Len(t)) /\ (k - n + 1 = m - 1 <=> k = Len(t) - 1)
            /\ (k - n + 1 < m - 1 <=> k < Len(t) - 1)
        <5>1. k \in Int /\ n \in Int /\ m \in Int /\ Len(t) = n + m - 1
          BY <1>1, <1>2, <3>2
        <5> HIDE DEF n, m
        <5>2. QED
          BY <5>1
      <4>3. QED
        BY <2>1, <4>1, <4>2 DEF Placed
    <3>3. QED
      BY <1>1, <1>2, <1>3, <3>1, <3>2
  <2>3. QED
    BY <1>2, <1>3, <2>1, <2>2 DEF Placed, SameBase, t
<1>6. CASE m = 2
  <2>1. Base(s) = s[1].do /\ 1 \in DOMAIN s /\ ~ (1 < m - 1)
    BY <1>1, <1>6 DEF Base
  <2>2. ~ Heading(s[1]) /\ ~ Inside(s[1]) /\ s[1].do \notin Owning
    BY <2>1 DEF Placed, AtTop
  <2>3. Len(t) = n + 1 /\ t[n + 1].do = "unit"
    <3>1. n + 1 \in n + 1 .. Len(t) /\ n + 1 - n + 1 = 2 /\ Len(t) = n + 1
      BY <1>1, <1>2, <1>6
    <3>2. t[n + 1] = s[2] /\ 2 \in DOMAIN s
      BY <1>1, <1>2, <1>6, <3>1
    <3>3. QED
      BY <1>6, <3>1, <3>2 DEF Placed
  <2>4. \A k \in 1 .. n : /\ t[k].do # "unit" /\ ~ AtTop(t[k]) /\ ~ Heading(t[k]) /\ ~ Inside(t[k])
    BY <1>1, <1>2, <2>2 DEF Siblings, Sibling
  <2>5. Base(t) \notin Owning
    <3>1. CASE n = 0
      BY <2>3, <3>1 DEF Base, Owning
    <3>2. CASE n > 0
      <4>1. Base(t) = t[n].do /\ n \in 1 .. n
        BY <1>1, <2>3, <3>2 DEF Base
      <4>2. QED
        BY <2>4, <4>1 DEF AtTop
    <3>3. QED BY <1>1, <3>1, <3>2
  <2>6. Base(t) \notin InHeading
    BY <2>5 DEF Owning, InHeading
  <2>7. \A k \in DOMAIN t : k = n + 1 \/ k \in 1 .. n
    BY <1>1, <1>3, <2>3
  <2>8. ~ AtTop(t[n + 1]) /\ ~ Heading(t[n + 1]) /\ ~ Inside(t[n + 1])
    BY <2>3 DEF AtTop, Heading, Inside, Owning, Reading
  <2>9. QED
    BY <1>1, <1>2, <1>3, <2>1, <2>2, <2>3, <2>4, <2>5, <2>6, <2>7, <2>8 DEF Placed, SameBase, t
<1>7. QED
  BY <1>1, <1>4, <1>5, <1>6

(* What the global level does next.                                        *)
Loose(x) == x.do # "unit" /\ ~ AtTop(x) /\ ~ Heading(x) /\ ~ Inside(x)

\* y may lie above what the global level is doing.
Above(z, y) ==
  /\ y.do # "unit" /\ ~ AtTop(y)
  /\ Heading(y) => z.do = "moreParameters"
  /\ Inside(y) => z.do = "endFunction"
  /\ z.do \in InHeading => Heading(y) \/ y.do = "token"

\* There is nothing but the unit below it.
LEMMA OnTop ==
  ASSUME NEW s, Placed(s)
  PROVE  /\ s[1].do = "unit" => Len(s) = 1
         /\ AtTop(s[1]) => Len(s) = 2 /\ s[2].do = "unit"
         /\ Len(s) \in Nat \ {0} /\ DOMAIN s = 1 .. Len(s) /\ IsSequence(s)
<1>1. Len(s) \in Nat /\ Len(s) > 0 /\ DOMAIN s = 1 .. Len(s) /\ IsSequence(s)
  BY SequenceProperties DEF Placed
<1>2. 1 \in DOMAIN s
  BY <1>1
<1>3. AtTop(s[1]) => Len(s) = 2
  BY <1>1, <1>2 DEF Placed
<1>4. QED
  BY <1>1, <1>2, <1>3 DEF Placed

LEMMA UnitIsNoOther ==
  ASSUME NEW x, x.do = "unit"
  PROVE  ~ AtTop(x) /\ ~ Heading(x) /\ ~ Inside(x)
  BY DEF AtTop, Heading, Inside, Owning, Reading

LEMMA OnePlaced ==
  ASSUME NEW t, IsSequence(t), Len(t) = 1, t[1].do = "unit"
  PROVE  Placed(t) /\ Base(t) = "unit"
<1>1. DOMAIN t = 1 .. 1 /\ t # <<>>
  BY SequenceProperties
<1>2. QED
  BY <1>1, UnitIsNoOther DEF Placed, Base

LEMMA TwoPlaced ==
  ASSUME NEW t, IsSequence(t), Len(t) = 2, t[2].do = "unit", AtTop(t[1]) \/ Loose(t[1])
  PROVE  Placed(t) /\ Base(t) = t[1].do
<1>1. DOMAIN t = {1, 2} /\ t # <<>>
  BY SequenceProperties
<1>2. ~ Heading(t[1]) /\ ~ Inside(t[1]) /\ t[1].do # "unit"
  BY DEF AtTop, Loose, Heading, Inside, Owning, Reading
<1>3. QED
  BY <1>1, <1>2, UnitIsNoOther DEF Placed, Base

LEMMA ThreePlaced ==
  ASSUME NEW t, IsSequence(t), Len(t) = 3, t[3].do = "unit", AtTop(t[2]), Above(t[2], t[1])
  PROVE  Placed(t) /\ Base(t) = t[2].do
<1>1. DOMAIN t = {1, 2, 3} /\ t # <<>>
  BY SequenceProperties
<1>2. ~ Heading(t[2]) /\ ~ Inside(t[2]) /\ t[2].do # "unit"
  BY DEF AtTop, Heading, Inside, Owning, Reading
<1>3. Base(t) = t[2].do
  BY DEF Base
<1>4. QED
  BY <1>1, <1>2, <1>3, UnitIsNoOther DEF Placed, Above

\* The global level goes on.
LEMMA TopOver ==
  ASSUME NEW s, Placed(s), AtTop(s[1])
  PROVE  Placed(<<>> \o Tail(s)) /\ Base(<<>> \o Tail(s)) = "unit"
<1> DEFINE t == <<>> \o Tail(s)
<1>1. Len(s) = 2 /\ s[2].do = "unit"
  BY OnTop
<1>2. IsSequence(t) /\ Len(t) = 1 /\ t[1].do = "unit"
  <2>1. IsSequence(<<>>) /\ Len(<<>>) = 0
    BY ShortSequences
  <2> DEFINE items == <<>>
  <2>0. Exchanged(s, items, t)
    BY <2>1, Replaced
  <2>2. IsSequence(t) /\ Len(t) = 0 + 2 - 1 /\ \A k \in 0 + 1 .. Len(t) : t[k] = s[k - 0 + 1]
    BY <1>1, <2>0, <2>1 DEF Exchanged
  <2> HIDE DEF t
  <2>3. t[1] = s[2]
    BY <2>2
  <2>4. QED
    BY <1>1, <2>2, <2>3
<1> HIDE DEF t
<1>3. QED
  BY <1>2, OnePlaced DEF t

LEMMA TopNext ==
  ASSUME NEW s, Placed(s), AtTop(s[1]), NEW y, AtTop(y) \/ Loose(y)
  PROVE  Placed(<<y>> \o Tail(s)) /\ Base(<<y>> \o Tail(s)) = y.do
<1> DEFINE t == <<y>> \o Tail(s)
<1>1. Len(s) = 2 /\ s[2].do = "unit"
  BY OnTop
<1>2. IsSequence(t) /\ Len(t) = 2 /\ t[1] = y /\ t[2].do = "unit"
  <2>1. IsSequence(<<y>>) /\ Len(<<y>>) = 1 /\ <<y>>[1] = y
    BY ShortSequences
  <2> DEFINE items == <<y>>
  <2>0. Exchanged(s, items, t)
    BY <2>1, Replaced
  <2>2. IsSequence(t) /\ Len(t) = 1 + 2 - 1 /\ (\A k \in 1 .. 1 : t[k] = <<y>>[k])
        /\ \A k \in 1 + 1 .. Len(t) : t[k] = s[k - 1 + 1]
    BY <1>1, <2>0, <2>1 DEF Exchanged
  <2> HIDE DEF t
  <2>3. t[1] = y /\ t[2] = s[2]
    BY <2>1, <2>2
  <2>4. QED
    BY <1>1, <2>2, <2>3
<1> HIDE DEF t
<1>3. QED
  BY <1>2, TwoPlaced DEF t

LEMMA TopCalls ==
  ASSUME NEW s, Placed(s), AtTop(s[1]), NEW y, NEW z, AtTop(z), Above(z, y)
  PROVE  Placed(<<y, z>> \o Tail(s)) /\ Base(<<y, z>> \o Tail(s)) = z.do
<1> DEFINE t == <<y, z>> \o Tail(s)
<1>1. Len(s) = 2 /\ s[2].do = "unit"
  BY OnTop
<1>2. IsSequence(t) /\ Len(t) = 3 /\ t[1] = y /\ t[2] = z /\ t[3].do = "unit"
  <2>1. IsSequence(<<y, z>>) /\ Len(<<y, z>>) = 2 /\ <<y, z>>[1] = y /\ <<y, z>>[2] = z
    BY ShortSequences
  <2> DEFINE items == <<y, z>>
  <2>0. Exchanged(s, items, t)
    BY <2>1, Replaced
  <2>2. IsSequence(t) /\ Len(t) = 2 + 2 - 1 /\ (\A k \in 1 .. 2 : t[k] = <<y, z>>[k])
        /\ \A k \in 2 + 1 .. Len(t) : t[k] = s[k - 2 + 1]
    BY <1>1, <2>0, <2>1 DEF Exchanged
  <2> HIDE DEF t
  <2>3. t[1] = y /\ t[2] = z /\ t[3] = s[2]
    BY <2>1, <2>2
  <2>4. QED
    BY <1>1, <2>2, <2>3
<1> HIDE DEF t
<1>3. QED
  BY <1>2, ThreePlaced DEF t

LEMMA TopBegins ==
  ASSUME NEW s, Placed(s), s[1].do = "unit", NEW y, AtTop(y)
  PROVE  Placed(<<y, s[1]>> \o Tail(s)) /\ Base(<<y, s[1]>> \o Tail(s)) = y.do
<1> DEFINE u == s[1]
           t == <<y, u>> \o Tail(s)
<1>1. Len(s) = 1
  BY OnTop
<1>2. IsSequence(t) /\ Len(t) = 2 /\ t[1] = y /\ t[2] = u
  <2>1. IsSequence(<<y, u>>) /\ Len(<<y, u>>) = 2 /\ <<y, u>>[1] = y /\ <<y, u>>[2] = u
    BY ShortSequences
  <2> DEFINE items == <<y, u>>
  <2>0. Exchanged(s, items, t)
    BY <2>1, Replaced
  <2>2. IsSequence(t) /\ Len(t) = 2 + 1 - 1 /\ (\A k \in 1 .. 2 : t[k] = <<y, u>>[k])
    BY <1>1, <2>0, <2>1 DEF Exchanged
  <2> HIDE DEF t
  <2>3. QED
    BY <2>1, <2>2
<1> HIDE DEF t
<1>3. QED
  BY <1>2, TwoPlaced DEF t

-----------------------------------------------------------------------------
(* The domains that are open.                                              *)
LEMMA OpenedFinite ==
  ASSUME NEW s, IsSequence(s)
  PROVE  /\ IsFiniteSet({k \in DOMAIN s : Opens(s[k])}) /\ Opened(s) \in Nat
         /\ (\A k \in DOMAIN s : ~ Opens(s[k])) => Opened(s) = 0
         /\ \A j \in DOMAIN s : Opens(s[j]) /\ (\A k \in DOMAIN s : Opens(s[k]) => k = j) => Opened(s) = 1
<1> DEFINE S == {k \in DOMAIN s : Opens(s[k])}
<1>1. Len(s) \in Nat /\ DOMAIN s = 1 .. Len(s)
  BY SequenceProperties
<1>2. IsFiniteSet(1 .. Len(s)) /\ S \in SUBSET (1 .. Len(s))
  BY <1>1, FS_Interval
<1>3. IsFiniteSet(S)
  <2> HIDE DEF S
  <2> QED BY <1>2, FS_Subset
<1>4. Cardinality(S) \in Nat
  BY <1>3, FS_CardinalityType
<1>5. (\A k \in DOMAIN s : ~ Opens(s[k])) => S = {}
  OBVIOUS
<1>6. \A j \in DOMAIN s : Opens(s[j]) /\ (\A k \in DOMAIN s : Opens(s[k]) => k = j) => S = {j}
  OBVIOUS
<1>7. QED
  BY <1>3, <1>4, <1>5, <1>6, FS_EmptySet, FS_Singleton DEF Opened

\* An activation replaced: what it opened is closed, what its successors
\* open is open.
LEMMA Counted ==
  ASSUME NEW s, Placed(s), NEW items, IsSequence(items)
  PROVE  /\ Opened(items \o Tail(s)) = Opened(items) + Opened(s) - (IF Opens(s[1]) THEN 1 ELSE 0)
         /\ Opened(items) \in Nat /\ Opened(s) \in Nat
         /\ Opens(s[1]) => Opened(s) > 0
<1> DEFINE t == items \o Tail(s)
           n == Len(items)
           m == Len(s)
           A == {k \in DOMAIN items : Opens(items[k])}
           S == {k \in DOMAIN s : Opens(s[k])}
           R == S \ {1}
           B == {k \in n + 1 .. Len(t) : Opens(t[k])}
           T == {k \in DOMAIN t : Opens(t[k])}
<1>1. IsSequence(s) /\ m \in Nat /\ m > 0 /\ DOMAIN s = 1 .. m /\ n \in Nat /\ DOMAIN items = 1 .. n
  BY OnTop, SequenceProperties
<1>2. Exchanged(s, items, t)
  BY Replaced
<1>3. IsSequence(t) /\ Len(t) = n + m - 1 /\ (\A k \in 1 .. n : t[k] = items[k])
      /\ \A k \in n + 1 .. Len(t) : t[k] = s[k - n + 1] /\ k - n + 1 \in 2 .. m
  BY <1>2 DEF Exchanged
<1> HIDE DEF t
<1>4. DOMAIN t = 1 .. Len(t)
  BY <1>3, SequenceProperties
<1>5. T = A \cup B /\ A \cap B = {}
  <2>1. \A k \in 1 .. Len(t) : k \in 1 .. n \/ k \in n + 1 .. Len(t)
    BY <1>1, <1>3
  <2>2. 1 .. n \subseteq 1 .. Len(t) /\ n + 1 .. Len(t) \subseteq 1 .. Len(t)
    BY <1>1, <1>3
  <2>3. \A k \in 1 .. n : k \notin n + 1 .. Len(t)
    BY <1>1, <1>3
  <2>4. T \subseteq A \cup B
    BY <1>1, <1>3, <1>4, <2>1
  <2>5. A \subseteq T /\ B \subseteq T
    BY <1>1, <1>3, <1>4, <2>2
  <2>6. A \cap B = {}
    BY <1>1, <2>3
  <2>7. QED
    BY <2>4, <2>5, <2>6
<1>6. IsFiniteSet(A) /\ IsFiniteSet(S) /\ IsFiniteSet(T)
  BY <1>1, <1>3, OpenedFinite
<1>7. IsFiniteSet(R) /\ Cardinality(R) = IF 1 \in S THEN Cardinality(S) - 1 ELSE Cardinality(S)
  <2> HIDE DEF S
  <2> QED BY <1>6, FS_RemoveElement
<1>8. IsFiniteSet(B) /\ Cardinality(B) = Cardinality(R)
  <2> DEFINE f == [k \in R |-> k + n - 1]
  <2>1. \A k \in R : k + n - 1 \in B
    <3> TAKE k \in R
    <3>1. k \in 2 .. m /\ Opens(s[k])
      BY <1>1
    <3>2. k + n - 1 \in n + 1 .. Len(t) /\ (k + n - 1) - n + 1 = k
      BY <1>1, <1>3, <3>1
    <3>3. t[k + n - 1] = s[k]
      BY <1>3, <3>2
    <3>4. QED
      BY <3>1, <3>2, <3>3
  <2>2. \A k \in B : k - n + 1 \in R /\ (k - n + 1) + n - 1 = k
    <3> TAKE k \in B
    <3>1. k \in n + 1 .. Len(t) /\ Opens(t[k])
      OBVIOUS
    <3>2. k - n + 1 \in 2 .. m /\ t[k] = s[k - n + 1]
      BY <1>3, <3>1
    <3>3. (k - n + 1) + n - 1 = k /\ k - n + 1 # 1 /\ k - n + 1 \in 1 .. m
      BY <1>1, <3>1, <3>2
    <3>4. QED
      BY <1>1, <3>1, <3>2, <3>3
  <2>3. R \subseteq Int
    BY <1>1
  <2> HIDE DEF R, B
  <2>4. f \in Bijection(R, B)
    <3>1. f \in [R -> B]
      BY <2>1
    <3>2. \A j, k \in R : f[j] = f[k] => j = k
      BY <1>1, <2>3
    <3>3. \A k \in B : \E j \in R : f[j] = k
      BY <2>2
    <3> HIDE DEF f
    <3>4. QED
      BY <3>1, <3>2, <3>3 DEF Bijection, Injection, Surjection, IsInjective
  <2>5. ExistsBijection(R, B)
    BY <2>4 DEF ExistsBijection
  <2>6. QED
    BY <1>7, <2>5, FS_Bijection
<1>9. Cardinality(T) = Cardinality(A) + Cardinality(B)
  <2>1. IsFiniteSet(A \cap B) /\ Cardinality(A \cap B) = 0
    BY <1>5, FS_EmptySet
  <2>2. Cardinality(A \cup B) = Cardinality(A) + Cardinality(B) - Cardinality(A \cap B)
    <3> HIDE DEF A, B
    <3> QED BY <1>6, <1>8, FS_Union
  <2>3. Cardinality(A) \in Nat /\ Cardinality(B) \in Nat
    BY <1>6, <1>8, FS_CardinalityType
  <2>4. Cardinality(T) = Cardinality(A \cup B)
    BY <1>5
  <2> HIDE DEF A, B, T
  <2>5. QED
    BY <2>1, <2>2, <2>3, <2>4
<1>10. Opened(t) = Cardinality(T) /\ Opened(items) = Cardinality(A) /\ Opened(s) = Cardinality(S)
  BY DEF Opened
<1>11. 1 \in S <=> Opens(s[1])
  BY <1>1
<1>12. Cardinality(A) \in Nat /\ Cardinality(S) \in Nat /\ Cardinality(R) \in Nat
  BY <1>6, <1>7, FS_CardinalityType
<1> HIDE DEF A, S, R, B, T
<1>13. Opened(t) = Opened(items) + Opened(s) - (IF Opens(s[1]) THEN 1 ELSE 0)
  BY <1>7, <1>8, <1>9, <1>10, <1>11, <1>12
<1>14. Opens(s[1]) => Opened(s) > 0
  BY <1>7, <1>10, <1>11, <1>12
<1>15. QED
  BY <1>10, <1>12, <1>13, <1>14 DEF t

-----------------------------------------------------------------------------
(* What a step does to the invariant.                                      *)
Lens == Len(fns) \in Nat /\ Len(structs) \in Nat /\ Len(globals) \in Nat /\ Len(code) \in Nat

LEMMA LensNat ==
  ASSUME IInv
  PROVE  Lens /\ IsSequence(code) /\ IsSequence(fns) /\ IsSequence(structs)
         /\ DOMAIN fns = 1 .. Len(fns) /\ DOMAIN structs = 1 .. Len(structs)
         /\ DOMAIN code = 1 .. Len(code) /\ DOMAIN globals = 1 .. Len(globals)
  BY SequenceProperties DEF IInv, TableOK, FnsOK, StructsOK, CodeOK, Lens

LEMMA UnitItem ==
  ASSUME NEW x, x.do = "unit", NEW nf, NEW ns, NEW c, NEW g
  PROVE  ItemOK(x, nf, ns, c, g)
  BY DEF ItemOK, Declaring, WithType

\* The parser has come to an end.
LEMMA Ended ==
  ASSUME IInv, NEW s \in {"done", "error", "undefined"}, End(s)
  PROVE  IInv'
<1>1. UNCHANGED <<free, r, domains, owner, fns, structs, globals, code>> /\ status' = s
  BY DEF End, input, table
<1>2. QED
  BY <1>1 DEF IInv, Generating

LEMMA Failed ==
  ASSUME IInv, Fail
  PROVE  IInv'
  BY Ended DEF Fail

LEMMA ReadFree ==
  ASSUME IInv, NEW items, Accept(items) \/ GoOn(items)
  PROVE  free' \in Nat /\ todo' = items \o Tail(todo)
<1>1. free \in Nat
  BY DEF IInv
<1>2. CASE Accept(items)
  BY <1>1, <1>2 DEF Accept, Read, Then
<1>3. CASE GoOn(items)
  BY <1>1, <1>3 DEF GoOn, Then, input
<1>4. QED
  BY <1>2, <1>3

\* The values after a step are of their types.
StateOK ==
  /\ free \in Nat /\ ValueOK(r, Len(structs)) /\ OwnerOK(owner, Len(fns), Len(structs))
  /\ TableOK(domains, fns, structs, globals, Len(code)) /\ CodeOK(code, Len(code))

\* Nothing that a suspended activation counts on is gone.
Keeping ==
  /\ Len(fns) <= Len(fns') /\ Len(structs) <= Len(structs')
  /\ Continues(code, code') /\ (Generating' => Generating)

LEMMA Step ==
  ASSUME IInv, status = "parsing", status' = "parsing", StateOK',
         NEW items, IsSequence(items), todo' = items \o Tail(todo), Placed(todo'),
         OwnerFits(Base(todo'), owner', Len(fns'), Len(structs')), Nested(domains', owner', todo'),
         \A k \in DOMAIN items : ItemOK(items[k], Len(fns'), Len(structs'), code', Generating'),
         Keeping \/ AtTop(Item)
  PROVE  IInv'
<1> DEFINE n == Len(items)
<1>1. Placed(todo) /\ \A k \in DOMAIN todo : ItemOK(todo[k], Len(fns), Len(structs), code, Generating)
  BY DEF IInv
<1>2. n \in Nat /\ DOMAIN items = 1 .. n /\ DOMAIN todo = 1 .. Len(todo) /\ DOMAIN todo' = 1 .. Len(todo')
  BY <1>1, SequenceProperties DEF Placed
<1>3. Exchanged(todo, items, todo')
  BY <1>1, Replaced
<1>4. ASSUME NEW k \in DOMAIN todo'
      PROVE  ItemOK(todo'[k], Len(fns'), Len(structs'), code', Generating')
  <2>1. CASE k \in 1 .. n
    BY <1>2, <1>3, <2>1 DEF Exchanged
  <2>2. CASE k \in n + 1 .. Len(todo')
    <3> DEFINE j == k - n + 1
    <3>1. todo'[k] = todo[j] /\ j \in 2 .. Len(todo)
      BY <1>3, <2>2 DEF Exchanged
    <3>2. CASE AtTop(Item)
      <4>1. todo[j].do = "unit"
        <5>1. Len(todo) = 2 /\ todo[2].do = "unit"
          BY <1>1, <3>2, OnTop DEF Item
        <5>2. j = 2
          BY <3>1, <5>1
        <5>3. QED
          BY <5>1, <5>2
      <4>2. QED
        BY <3>1, <4>1, UnitItem
    <3>3. CASE Keeping
      <4>1. j \in DOMAIN todo
        BY <1>2, <3>1
      <4>2. ItemOK(todo[j], Len(fns), Len(structs), code, Generating)
        BY <1>1, <4>1
      <4>3. /\ IsSequence(code) /\ IsSequence(code')
            /\ Len(fns) \in Nat /\ Len(structs) \in Nat /\ Len(fns') \in Nat /\ Len(structs') \in Nat
        BY LensNat, SequenceProperties DEF Lens, StateOK, CodeOK, TableOK, FnsOK, StructsOK
      <4>4. ItemOK(todo[j], Len(fns'), Len(structs'), code', Generating')
        <5> HIDE DEF j
        <5> QED BY <3>3, <4>2, <4>3, ItemKept DEF Keeping
      <4>5. QED
        BY <3>1, <4>4
    <3>4. QED
      BY <3>2, <3>3
  <2>3. QED
    BY <1>2, <2>1, <2>2
<1>5. QED
  BY <1>4 DEF IInv, StateOK

\* No block begins or ends.
LEMMA NestedAlike ==
  ASSUME IInv, status = "parsing", Item.do # "block",
         NEW items, IsSequence(items), \A k \in DOMAIN items : ~ Opens(items[k]),
         todo' = items \o Tail(todo)
  PROVE  Opened(todo') = Opened(todo) /\ Opened(todo) \in Nat
<1>1. Placed(todo) /\ ~ Opens(todo[1])
  BY DEF IInv, Opens, Item
<1>2. Opened(items) = 0
  BY OpenedFinite
<1>3. Opened(items \o Tail(todo)) = Opened(items) + Opened(todo) - 0 /\ Opened(todo) \in Nat
  BY <1>1, Counted
<1>4. QED
  BY <1>2, <1>3

\* What an activation that is not the global level's puts in its place.
Fit(y, c) ==
  Sibling(Item, y) /\ ItemOK(y, Len(fns), Len(structs), c, Generating) /\ y.do # "block"
Ready(items, c) == IsSequence(items) /\ \A k \in DOMAIN items : Fit(items[k], c)

LEMMA ReadyShort ==
  ASSUME NEW c
  PROVE  /\ Ready(<<>>, c)
         /\ \A y : Fit(y, c) => Ready(<<y>>, c)
         /\ \A y, z : Fit(y, c) /\ Fit(z, c) => Ready(<<y, z>>, c)
         /\ \A y, z, u : Fit(y, c) /\ Fit(z, c) /\ Fit(u, c) => Ready(<<y, z, u>>, c)
<1>1. Ready(<<>>, c)
  <2>0. IsSequence(<<>>)
    BY ShortSequences
  <2>1. IsSequence(<<>>) /\ DOMAIN <<>> = {}
    BY <2>0
  <2> DEFINE s == <<>>
  <2> HIDE DEF s
  <2>2. IsSequence(s) /\ DOMAIN s = {}
    BY <2>1 DEF s
  <2>3. Ready(s, c)
    BY <2>2 DEF Ready
  <2>4. QED
    BY <2>3 DEF s
<1>2. ASSUME NEW y, Fit(y, c) PROVE Ready(<<y>>, c)
  <2>0. IsSequence(<<y>>)
    BY ShortSequences
  <2>1. IsSequence(<<y>>) /\ DOMAIN <<y>> = {1} /\ <<y>>[1] = y
    BY <2>0
  <2> DEFINE s == <<y>>
  <2> HIDE DEF s
  <2>2. IsSequence(s) /\ DOMAIN s = {1} /\ s[1] = y
    BY <2>1 DEF s
  <2>3. Ready(s, c)
    BY <1>2, <2>2 DEF Ready
  <2>4. QED
    BY <2>3 DEF s
<1>3. ASSUME NEW y, NEW z, Fit(y, c), Fit(z, c) PROVE Ready(<<y, z>>, c)
  <2>0. IsSequence(<<y, z>>)
    BY ShortSequences
  <2>1. IsSequence(<<y, z>>) /\ DOMAIN <<y, z>> = {1, 2} /\ <<y, z>>[1] = y /\ <<y, z>>[2] = z
    BY <2>0
  <2> DEFINE s == <<y, z>>
  <2> HIDE DEF s
  <2>2. IsSequence(s) /\ DOMAIN s = {1, 2} /\ s[1] = y /\ s[2] = z
    BY <2>1 DEF s
  <2>3. Ready(s, c)
    BY <1>3, <2>2 DEF Ready
  <2>4. QED
    BY <2>3 DEF s
<1>4. ASSUME NEW y, NEW z, NEW u, Fit(y, c), Fit(z, c), Fit(u, c) PROVE Ready(<<y, z, u>>, c)
  <2>0. IsSequence(<<y, z, u>>)
    BY ShortSequences
  <2>1. IsSequence(<<y, z, u>>) /\ DOMAIN <<y, z, u>> = {1, 2, 3}
        /\ <<y, z, u>>[1] = y /\ <<y, z, u>>[2] = z /\ <<y, z, u>>[3] = u
    BY <2>0
  <2> DEFINE s == <<y, z, u>>
  <2> HIDE DEF s
  <2>2. IsSequence(s) /\ DOMAIN s = {1, 2, 3} /\ s[1] = y /\ s[2] = z /\ s[3] = u
    BY <2>1 DEF s
  <2>3. Ready(s, c)
    BY <1>4, <2>2 DEF Ready
  <2>4. QED
    BY <2>3 DEF s
<1>5. QED
  BY <1>1, <1>2, <1>3, <1>4

\* The symbol table stays as it is: expressions, statements, declarators.
LEMMA LooseStep ==
  ASSUME IInv, status = "parsing", Item.do \notin {"unit", "block"}, ~ AtTop(Item),
         NEW items, Accept(items) \/ GoOn(items), Ready(items, code'),
         UNCHANGED table, UNCHANGED status,
         ValueOK(r', Len(structs)), CodeOK(code', Len(code')), Continues(code, code')
  PROVE  IInv'
<1>1. Placed(todo) /\ OwnerFits(Base(todo), owner, Len(fns), Len(structs))
  BY DEF IInv
<1>2. free' \in Nat /\ todo' = items \o Tail(todo)
  BY ReadFree
<1>3. UNCHANGED <<domains, owner, fns, structs, globals, Generating>>
  BY DEF table, Generating
<1>4. IsSequence(items) /\ Siblings(todo[1], items)
  BY DEF Ready, Fit, Siblings, Item
<1>5. Placed(todo') /\ SameBase(todo, todo')
  BY <1>1, <1>2, <1>4, Swapped DEF Item
<1>6. OwnerFits(Base(todo'), owner', Len(fns'), Len(structs'))
  <2>1. UNCHANGED <<owner, Len(fns), Len(structs)>>
    BY <1>3
  <2>2. QED
    BY <1>1, <1>5, <2>1 DEF OwnerFits, SameBase, Owning, InHeading
<1>7. Len(code) \in Nat /\ Len(code') \in Nat /\ Len(code) <= Len(code')
  BY LensNat DEF Lens, CodeOK, Continues
<1>8. StateOK'
  <2>1. TableOK(domains, fns, structs, globals, Len(code'))
    BY <1>7, TableMonotonic DEF IInv
  <2>2. QED
    BY <1>2, <1>3, <2>1 DEF IInv, StateOK
<1>9. Keeping
  BY <1>3, LensNat DEF Keeping, Lens
<1>10. \A k \in DOMAIN items : ItemOK(items[k], Len(fns'), Len(structs'), code', Generating')
  BY <1>3 DEF Ready, Fit
<1>11. Nested(domains', owner', todo')
  <2>1. \A k \in DOMAIN items : ~ Opens(items[k])
    BY DEF Ready, Fit, Opens
  <2>2. Opened(todo') = Opened(todo)
    BY <1>2, <1>4, <2>1, NestedAlike
  <2>3. Nested(domains, owner, todo)
    BY DEF IInv
  <2>4. QED
    BY <1>3, <2>2, <2>3 DEF Nested
<1>12. QED
  BY <1>2, <1>4, <1>5, <1>6, <1>8, <1>9, <1>10, <1>11, Step

\* Nor is code generated.
LEMMA ParserStep ==
  ASSUME IInv, status = "parsing", Item.do \notin {"unit", "block"}, ~ AtTop(Item),
         NEW items, Accept(items) \/ GoOn(items), Ready(items, code), ParserOnly
  PROVE  IInv'
<1>1. UNCHANGED table /\ UNCHANGED status /\ r' = r /\ code' = code
  BY DEF ParserOnly
<1>2. ValueOK(r', Len(structs)) /\ CodeOK(code', Len(code')) /\ Continues(code, code')
  BY <1>1, ContinuesReflexive, LensNat DEF IInv
<1>3. Ready(items, code')
  BY <1>1
<1>4. QED
  BY <1>1, <1>2, <1>3, LooseStep
-----------------------------------------------------------------------------
(* What the activations put on the stack.                                  *)

\* Those whose place any expression or declarator may take.
Plain(x) == x.do \notin {"unit", "token", "block"} /\ ~ AtTop(x) /\ ~ Heading(x)

\* Those that keep nothing that could go wrong.
Simple == {"token", "postfix", "field", "endParen", "unary", "endExpression", "stm", "return",
           "returnValue", "paren", "identifier", "block", "parameters", "moreParameters",
           "body", "members", "endStruct"}

LEMMA SimpleOK ==
  ASSUME NEW x, x.do \in Simple, NEW nf, NEW ns, NEW c, NEW g
  PROVE  ItemOK(x, nf, ns, c, g)
  BY DEF ItemOK, Simple, Declaring, WithType

LEMMA OperandOK ==
  ASSUME NEW b, NEW nf, NEW ns, NEW c, NEW g
  PROVE  ItemOK(Operand(b), nf, ns, c, g)
  BY DEF ItemOK, Operand, Declaring, WithType

LEMMA PlainFits ==
  ASSUME Plain(Item), NEW c, NEW y, Loose(y) \/ y.do = "token",
         ItemOK(y, Len(fns), Len(structs), c, Generating)
  PROVE  Fit(y, c)
<1>1. Loose(y)
  BY DEF Loose, AtTop, Heading, Inside, Owning, Reading
<1>2. QED
  BY <1>1 DEF Plain, Loose, Fit, Sibling, Inside

\* A statement's parts go where the statement was.
LEMMA InsideFits ==
  ASSUME Inside(Item), Plain(Item), NEW c, NEW y, Inside(y), y.do # "block",
         ItemOK(y, Len(fns), Len(structs), c, Generating)
  PROVE  Fit(y, c)
<1>1. y.do # "unit" /\ ~ AtTop(y) /\ ~ Heading(y)
  BY DEF Inside, AtTop, Heading, Owning, Reading
<1>2. QED
  BY <1>1 DEF Plain, Fit, Sibling

LEMMA ExprFits ==
  ASSUME Plain(Item), NEW c, NEW b
  PROVE  Fit(Operand(b), c)
<1>1. Loose(Operand(b))
  BY DEF Loose, AtTop, Heading, Inside, Operand, Owning, Reading
<1>2. QED
  BY <1>1, OperandOK, PlainFits

LEMMA DoFits ==
  ASSUME Plain(Item), NEW c, NEW what \in {"postfix", "field", "endParen", "unary"}
  PROVE  Fit(Do(what), c)
<1>1. Do(what).do = what
  BY DEF Do
<1>2. Loose(Do(what)) /\ Do(what).do \in Simple
  BY <1>1 DEF Loose, AtTop, Heading, Inside, Owning, Reading, Simple
<1>3. QED
  BY <1>2, SimpleOK, PlainFits

LEMMA TokenFits ==
  ASSUME Plain(Item), NEW c, NEW t
  PROVE  Fit(ReadToken(t), c)
<1>1. ReadToken(t).do = "token" /\ "token" \in Simple
  BY DEF ReadToken, Simple
<1>2. QED
  BY <1>1, SimpleOK, PlainFits

LEMMA PlainIs ==
  ASSUME Plain(Item)
  PROVE  Item.do \notin {"unit", "block"} /\ ~ AtTop(Item)
  BY DEF Plain

\* In a body, code is being generated for a function; and code is generated
\* for an expression in a body only.
LEMMA Compiling ==
  ASSUME IInv, status = "parsing", Plain(Item), Generating
  PROVE  Listed(code) /\ owner.no \in DOMAIN fns
<1>1. Placed(todo) /\ OwnerFits(Base(todo), owner, Len(fns), Len(structs))
  BY DEF IInv
<1>2. Len(todo) \in Nat \ {0} /\ DOMAIN todo = 1 .. Len(todo)
  BY <1>1, OnTop
<1>3. 1 \in DOMAIN todo /\ 1 # Len(todo)
  BY <1>1, <1>2 DEF Placed, Plain, Item
<1>4. Len(todo) > 1 /\ Len(todo) - 1 \in DOMAIN todo /\ Base(todo) = todo[Len(todo) - 1].do
  BY <1>2, <1>3 DEF Base
<1>5. owner.kind = "fn"
  BY DEF Generating
<1>6. Base(todo) \in InHeading \cup {"endFunction"}
  <2>1. Base(todo) \in Owning
    BY <1>1, <1>5 DEF OwnerFits, Nobody
  <2>2. Base(todo) \notin {"members", "endStruct"}
    BY <1>1, <1>5 DEF OwnerFits
  <2>3. QED
    BY <2>1, <2>2 DEF Owning, InHeading
<1>7. Base(todo) \notin InHeading
  <2>1. SUFFICES ASSUME Base(todo) \in InHeading PROVE FALSE
    OBVIOUS
  <2>2. 1 = Len(todo) - 1
    BY <1>1, <1>2, <1>3, <2>1 DEF Placed, Plain, Item
  <2>3. AtTop(Item)
    BY <1>4, <2>1, <2>2 DEF AtTop, Item, InHeading, Owning
  <2>4. QED
    BY <2>3 DEF Plain
<1>8. todo[Len(todo) - 1].do = "endFunction"
  BY <1>4, <1>6, <1>7
<1>9. ItemOK(todo[Len(todo) - 1], Len(fns), Len(structs), code, Generating)
  BY <1>4 DEF IInv
<1>10. todo[Len(todo) - 1].enter \in DOMAIN code
  BY <1>8, <1>9 DEF ItemOK
<1>11. code # <<>>
  BY <1>10, LensNat DEF Lens
<1>12. owner.no \in 1 .. Len(fns)
  BY <1>1, <1>4, <1>8 DEF OwnerFits
<1>13. QED
  BY <1>11, <1>12, LensNat DEF IInv, Listed

LEMMA InsideCompiles ==
  ASSUME IInv, status = "parsing", Inside(Item), Item.do # "block"
  PROVE  Generating /\ Plain(Item)
<1>1. Placed(todo) /\ OwnerFits(Base(todo), owner, Len(fns), Len(structs))
  BY DEF IInv
<1>2. 1 \in DOMAIN todo
  BY <1>1, OnTop
<1>3. Base(todo) = "endFunction"
  BY <1>1, <1>2 DEF Placed, Item
<1>4. owner.kind = "fn"
  BY <1>1, <1>3 DEF OwnerFits
<1>5. QED
  BY <1>4 DEF Generating, Plain, Inside, AtTop, Heading, Owning, Reading

\* An expression's step: code is generated in functions only.
LEMMA ExprStep ==
  ASSUME IInv, status = "parsing", Plain(Item),
         NEW items, Accept(items) \/ GoOn(items), Ready(items, code'),
         UNCHANGED table, UNCHANGED status, ValueOK(r', Len(structs)),
         NEW e, Generating => Generated(code, e), code' = Gen(e)
  PROVE  IInv'
<1>1. CodeOK(code', Len(code')) /\ Continues(code, code')
  <2>1. CASE Generating
    BY <2>1 DEF Gen, Generated, Listed
  <2>2. CASE ~ Generating
    BY <2>2, ContinuesReflexive, LensNat DEF Gen, IInv
  <2>3. QED BY <2>1, <2>2
<1>2. QED
  BY <1>1, PlainIs, LooseStep

\* A statement's step.
LEMMA BodyStep ==
  ASSUME IInv, status = "parsing", Plain(Item),
         NEW items, Accept(items) \/ GoOn(items), Ready(items, code'),
         CodeOnly, Generated(code, code')
  PROVE  IInv'
<1>1. UNCHANGED table /\ UNCHANGED status /\ ValueOK(r', Len(structs))
  BY DEF CodeOnly, IInv
<1>2. CodeOK(code', Len(code')) /\ Continues(code, code')
  BY DEF Generated, Listed
<1>3. QED
  BY <1>1, <1>2, PlainIs, LooseStep
-----------------------------------------------------------------------------
(* Values, types and symbols.                                              *)
LEMMA ItemIs ==
  ASSUME IInv, status = "parsing"
  PROVE  ItemOK(Item, Len(fns), Len(structs), code, Generating)
<1>1. 1 \in DOMAIN todo
  BY OnTop DEF IInv
<1>2. QED
  BY <1>1 DEF IInv, Item

LEMMA ItemAgain ==
  ASSUME IInv, status = "parsing", Plain(Item), NEW c, IsSequence(c), Continues(code, c)
  PROVE  Fit(Item, c)
<1>1. ItemOK(Item, Len(fns), Len(structs), code, Generating)
  BY ItemIs
<1>2. ItemOK(Item, Len(fns), Len(structs), c, Generating)
  BY <1>1, LensNat, ItemKept DEF Lens
<1>3. QED
  BY <1>2 DEF Fit, Sibling, Plain

LEMMA TypeProper ==
  ASSUME NEW n \in Nat
  PROVE  /\ \A b \in Arithmetic \cup {"void"} : Proper(Type(b), n)
         /\ \A k \in 1 .. n : Proper(StructT(k), n)
         /\ Proper(IntT, n) /\ Proper(DoubleT, n) /\ Proper(CharT, n) /\ Proper(VoidT, n)
  BY DEF Proper, Type, StructT, IntT, DoubleT, CharT, VoidT, Arithmetic, Bases

LEMMA ValueProper ==
  ASSUME NEW t, NEW n \in Nat, Proper(t, n), NEW b \in BOOLEAN
  PROVE  ValueOK(Value(t, b), n)
  BY DEF ValueOK, Value

LEMMA ArithmeticProper ==
  ASSUME NEW t, NEW u, HaveArithmeticType(t, u), NEW n \in Nat
  PROVE  Proper(ArithmeticType(t, u), n)
  BY TypeProper DEF HaveArithmeticType, CanBeScalar, ArithmeticType

LEMMA CurrentProper ==
  ASSUME IInv
  PROVE  Proper(r.type, Len(structs)) /\ r.lval \in BOOLEAN /\ ValueOK(r, Len(structs))
         /\ Len(structs) \in Nat /\ Len(fns) \in Nat /\ Len(code) \in Nat
  BY LensNat DEF IInv, ValueOK, Lens

\* find_symbol finds a symbol of the table.
LEMMA Found ==
  ASSUME IInv, NEW name, Visible(name)
  PROVE  /\ FindSymbol(name).name = name
         /\ SymbolOK(FindSymbol(name), Len(fns), Len(structs), Len(globals))
         /\ \E d \in DOMAIN domains : FindSymbol(name) \in domains[d]
<1> DEFINE Of == {e \in DOMAIN domains : \E s \in domains[e] : s.name = name}
           d == Max(Of)
<1>1. DOMAIN domains = 1 .. Len(domains) /\ Len(domains) \in Nat
  BY SequenceProperties DEF IInv, TableOK, SymbolsOK
<1>2. Of # {} /\ Of \subseteq Int /\ \A e \in Of : e <= Len(domains)
  BY <1>1 DEF Visible
<1>3. d \in Of
  <2> HIDE DEF Of
  <2>1. Len(domains) \in Int
    BY <1>1
  <2>2. Max(Of) \in Of
    BY <1>2, <2>1, Largest
  <2>3. QED
    BY <2>2
<1> HIDE DEF d
<1>4. PICK s \in domains[d] : s.name = name
  BY <1>3
<1>5. FindSymbol(name) = CHOOSE u \in domains[d] : u.name = name
  BY DEF FindSymbol, d
<1>6. FindSymbol(name) \in domains[d] /\ FindSymbol(name).name = name
  BY <1>4, <1>5
<1>7. d \in DOMAIN domains
  BY <1>3
<1>8. \A e \in DOMAIN domains : \A u \in domains[e] : SymbolOK(u, Len(fns), Len(structs), Len(globals))
  BY DEF IInv, TableOK, SymbolsOK
<1>9. QED
  BY <1>6, <1>7, <1>8

LEMMA PlainDo ==
  ASSUME Item.do \in Waiting \cup {"operand", "paren", "cast", "postfix", "field", "identifier",
                                   "arguments", "call", "variable", "initializer", "declarators"}
  PROVE  Plain(Item)
  BY DEF Waiting, Plain, AtTop, Heading, Owning, Reading

LEMMA Emitted ==
  ASSUME IInv, status = "parsing", Plain(Item), NEW e, Generating => Generated(code, e)
  PROVE  /\ CodeOK(Gen(e), Len(Gen(e))) /\ Continues(code, Gen(e)) /\ IsSequence(Gen(e))
         /\ Generating => Listed(Gen(e)) /\ Gen(e) = e
<1>1. CASE Generating
  BY <1>1 DEF Gen, Generated, Listed, CodeOK
<1>2. CASE ~ Generating
  BY <1>2, ContinuesReflexive, LensNat DEF Gen, IInv
<1>3. QED
  BY <1>1, <1>2

-----------------------------------------------------------------------------
(* Expressions, action by action.                                          *)
LEMMA OperatorStep ==
  ASSUME IInv, Operator
  PROVE  IInv'
<1> DEFINE e == IF tk \in Computing THEN AddRval(code, r) ELSE code
           c == Gen(e)
           l == IF Generating THEN LastInstruction(c) ELSE NULL
           x == [do |-> "binary", op |-> tk, left |-> r.type, last |-> l]
<1>1. /\ status = "parsing" /\ Item.do \in Waiting
      /\ code' = c /\ Accept(<<Expr, x, Item>>) /\ CodeOnly
  BY DEF Operator, Gen
<1>2. Plain(Item)
  BY <1>1, PlainDo
<1>3. Generating => Generated(code, e)
  BY <1>1, <1>2, Compiling, AddRvalGenerates, GeneratedReflexive
<1> HIDE DEF e
<1>4. CodeOK(c, Len(c)) /\ Continues(code, c) /\ IsSequence(c) /\ (Generating => Listed(c))
  BY <1>1, <1>2, <1>3, Emitted
<1> HIDE DEF c
<1>5. Generating => Reached(c, l)
  BY <1>4, LastExists DEF Listed
<1> HIDE DEF l
<1>6. Fit(x, c)
  <2>1. x.do = "binary" /\ x.left = r.type /\ x.last = l
    OBVIOUS
  <2> HIDE DEF x
  <2>2. ItemOK(x, Len(fns), Len(structs), c, Generating)
    BY <1>5, <2>1, CurrentProper DEF ItemOK, Declaring, WithType
  <2>3. Loose(x)
    BY <2>1 DEF Loose, AtTop, Heading, Inside, Owning, Reading
  <2>4. QED
    BY <1>2, <2>2, <2>3, PlainFits
<1>7. Fit(Item, c)
  BY <1>1, <1>2, <1>4, ItemAgain
<1>8. Fit(Expr, c)
  BY <1>2, ExprFits DEF Expr
<1> HIDE DEF x
<1>9. Ready(<<Expr, x, Item>>, c)
  BY <1>6, <1>7, <1>8, ReadyShort
<1>10. QED
  <2>1. UNCHANGED table /\ UNCHANGED status /\ ValueOK(r', Len(structs))
    BY <1>1, CurrentProper DEF CodeOnly
  <2>2. code' = Gen(e)
    BY <1>1 DEF c
  <2>3. Ready(<<Expr, x, Item>>, code')
    BY <1>1, <1>9
  <2>4. QED
    BY <1>1, <1>2, <1>3, <2>1, <2>2, <2>3, ExprStep

\* What is computed of two operands, both loaded and converted.
LEMMA ComputeGenerates ==
  ASSUME NEW c, Listed(c), NEW b, Reached(c, b), NEW v, NEW t, NEW u, NEW op
  PROVE  LET d == ConvertLast(InsertConversion(AddRval(c, v), b, t, u), v.type, u)
         IN  Generated(c, IF Computation(op, u) = <<>> THEN d
                          ELSE AddInstruction(d, Computation(op, u)[1], Unset))
<1> DEFINE c1 == AddRval(c, v)
           c2 == InsertConversion(c1, b, t, u)
           d == ConvertLast(c2, v.type, u)
<1>1. Generated(c, c1)
  BY AddRvalGenerates
<1>2. Listed(c1) /\ Reached(c1, b)
  BY <1>1 DEF Generated, Continues, Reached
<1> HIDE DEF c1
<1>3. Generated(c1, c2)
  BY <1>2, InsertConversionGenerates
<1> HIDE DEF c2
<1>4. Generated(c2, d)
  BY <1>3, ConvertLastGenerates DEF Generated
<1> HIDE DEF d
<1>5. Generated(c, d)
  BY <1>1, <1>3, <1>4, GeneratedTransitive DEF Generated
<1>6. CASE Computation(op, u) = <<>>
  BY <1>5, <1>6 DEF c1, c2, d
<1>7. CASE Computation(op, u) # <<>>
  <2> DEFINE o == Computation(op, u)[1]
  <2>1. o \in {"LESS_F", "LESS_I", "ADD_F", "ADD_I", "SUB_F", "SUB_I", "MUL_F", "MUL_I", "DIV_F", "DIV_I"}
    BY <1>7 DEF Computation
  <2>2. o \notin {"CALL", "JMP", "JF"}
    BY <2>1
  <2> HIDE DEF o
  <2>3. Generated(d, AddInstruction(d, o, Unset))
    BY <1>5, <2>2, AddPlain DEF Generated
  <2>4. Generated(c, AddInstruction(d, o, Unset))
    BY <1>5, <2>3, GeneratedTransitive DEF Generated
  <2>5. QED
    BY <1>7, <2>4 DEF o, c1, c2, d
<1>8. QED
  BY <1>6, <1>7

LEMMA BinaryStep ==
  ASSUME IInv, Binary
  PROVE  IInv'
<1>1. CASE Fail
  BY <1>1, Failed
<1>2. CASE ~ Fail
  <2> DEFINE t == ArithmeticType(Item.left, r.type)
             d == ConvertLast(InsertConversion(AddRval(code, r), Item.last, Item.left, t), r.type, t)
             f == IF Computation(Item.op, t) = <<>> THEN d
                  ELSE AddInstruction(d, Computation(Item.op, t)[1], Unset)
             e == IF Item.op \notin Computing THEN code ELSE f
             u == IF Level[Item.op] <= 4 THEN IntT ELSE t
  <2>1. /\ status = "parsing" /\ Item.do = "binary" /\ HaveArithmeticType(Item.left, r.type)
        /\ code' = Gen(e) /\ r' = Value(u, FALSE) /\ GoOn(<<>>) /\ UNCHANGED <<table, status>>
    BY <1>2 DEF Binary, Completes, Doing, Need, Gen
  <2>2. Plain(Item)
    BY <2>1, PlainDo DEF Waiting
  <2>3. Generating => Generated(code, e)
    <3>1. SUFFICES ASSUME Generating PROVE Generated(code, e)
      OBVIOUS
    <3>2. Listed(code) /\ Reached(code, Item.last)
      BY <2>1, <2>2, <3>1, Compiling, ItemIs DEF ItemOK
    <3>3. Generated(code, f)
      <4> HIDE DEF t
      <4> QED BY <3>2, ComputeGenerates
    <3>4. QED
      BY <3>2, <3>3, GeneratedReflexive
  <2>4. ValueOK(r', Len(structs))
    BY <2>1, CurrentProper, ArithmeticProper, TypeProper, ValueProper
  <2> HIDE DEF e, u
  <2>5. QED
    BY <2>1, <2>2, <2>3, <2>4, ReadyShort, ExprStep
<1>3. QED BY <1>1, <1>2

LEMMA AssignmentStep ==
  ASSUME IInv, Assignment
  PROVE  IInv'
<1> DEFINE x == [do |-> "assign", to |-> r]
<1>1. status = "parsing" /\ Item.do \in Waiting /\ Accept(<<Expr, x, Item>>) /\ ParserOnly
  BY DEF Assignment
<1>2. Plain(Item)
  BY <1>1, PlainDo
<1>3. Fit(x, code)
  <2>1. x.do = "assign" /\ x.to = r
    OBVIOUS
  <2> HIDE DEF x
  <2>2. ItemOK(x, Len(fns), Len(structs), code, Generating) /\ Loose(x)
    BY <2>1, CurrentProper
    DEF ItemOK, Declaring, WithType, Loose, AtTop, Heading, Inside, Owning, Reading
  <2>3. QED
    BY <1>2, <2>2, PlainFits
<1>4. Fit(Item, code)
  BY <1>1, <1>2, LensNat, ContinuesReflexive, ItemAgain
<1>5. Fit(Expr, code)
  BY <1>2, ExprFits DEF Expr
<1> HIDE DEF x
<1>6. QED
  BY <1>1, <1>2, <1>3, <1>4, <1>5, ReadyShort, PlainIs, ParserStep

LEMMA StoreGenerates ==
  ASSUME NEW c, Listed(c), NEW v, NEW t, NEW u, NEW op, NEW a, op \notin {"CALL", "JMP", "JF"}
  PROVE  Generated(c, AddInstruction(ConvertLast(AddRval(c, v), t, u), op, a))
<1> DEFINE d == ConvertLast(AddRval(c, v), t, u)
<1>1. Generated(c, d)
  BY LoadGenerates
<1> HIDE DEF d
<1>2. Generated(d, AddInstruction(d, op, a))
  BY <1>1, AddPlain DEF Generated
<1>3. QED
  BY <1>1, <1>2, GeneratedTransitive DEF d

LEMMA StoreIs ==
  ASSUME NEW t
  PROVE  StoreOf(t) \notin {"CALL", "JMP", "JF"} /\ FpAddr(t) \notin {"CALL", "JMP", "JF"}
  BY DEF StoreOf, FpAddr

LEMMA AssignStep ==
  ASSUME IInv, Assign
  PROVE  IInv'
<1>1. CASE Fail
  BY <1>1, Failed
<1>2. CASE ~ Fail
  <2> DEFINE e == AddInstruction(ConvertLast(AddRval(code, r), r.type, Item.to.type),
                                 StoreOf(Item.to.type), Unset)
  <2>1. /\ status = "parsing" /\ Item.do = "assign"
        /\ code' = Gen(e) /\ r' = Value(r.type, FALSE) /\ GoOn(<<>>) /\ UNCHANGED <<table, status>>
    BY <1>2 DEF Assign, Completes, Doing, Need
  <2>2. Plain(Item)
    BY <2>1, PlainDo DEF Waiting
  <2>3. Generating => Generated(code, e)
    BY <2>1, <2>2, Compiling, StoreIs, StoreGenerates
  <2>4. ValueOK(r', Len(structs))
    BY <2>1, CurrentProper, ValueProper
  <2> HIDE DEF e
  <2>5. QED
    BY <2>1, <2>2, <2>3, <2>4, ReadyShort, ExprStep
<1>3. QED BY <1>1, <1>2
LEMMA LooseFits ==
  ASSUME Plain(Item), NEW c, NEW y, y.do \in Simple, ~ Inside(y), ~ AtTop(y)
  PROVE  Fit(y, c)
<1>1. Loose(y) \/ y.do = "token"
  BY DEF Loose, Simple, Heading, Reading
<1>2. QED
  BY <1>1, SimpleOK, PlainFits

LEMMA TypeFits ==
  ASSUME Plain(Item), NEW c, NEW for \in {"variable", "cast"}
  PROVE  Fit(ReadType(for), c)
<1>1. ReadType(for).do = "type" /\ ReadType(for).for = for
  BY DEF ReadType
<1>2. ItemOK(ReadType(for), Len(fns), Len(structs), c, Generating)
  BY <1>1 DEF ItemOK, Declaring, WithType
<1>3. Loose(ReadType(for))
  BY <1>1 DEF Loose, AtTop, Heading, Inside, Owning, Reading
<1>4. QED
  BY <1>2, <1>3, PlainFits

\* An activation that keeps a type.
LEMMA WithTypeFits ==
  ASSUME Plain(Item), NEW c, NEW y, y.do \in {"convert", "index", "initialize"},
         Proper(y.type, Len(structs))
  PROVE  Fit(y, c)
<1>1. ItemOK(y, Len(fns), Len(structs), c, Generating)
  BY DEF ItemOK, Declaring, WithType
<1>2. Loose(y)
  BY DEF Loose, AtTop, Heading, Inside, Owning, Reading
<1>3. QED
  BY <1>1, <1>2, PlainFits

\* An expression's step that generates nothing.
LEMMA ValueStep ==
  ASSUME IInv, status = "parsing", Plain(Item),
         NEW items, Accept(items) \/ GoOn(items), Ready(items, code),
         UNCHANGED table, UNCHANGED code, UNCHANGED status, ValueOK(r', Len(structs))
  PROVE  IInv'
<1>1. CodeOK(code', Len(code')) /\ Continues(code, code')
  BY ContinuesReflexive, LensNat DEF IInv
<1>2. Ready(items, code')
  OBVIOUS
<1>3. QED
  BY <1>1, <1>2, PlainIs, LooseStep

LEMMA OperandOfStep ==
  ASSUME IInv, OperandOf
  PROVE  IInv'
<1>1. status = "parsing" /\ Item.do = "operand"
  BY DEF OperandOf, Doing
<1>2. Plain(Item)
  BY <1>1, PlainDo
<1>3. CASE tk = "(" /\ Accept(<<[Item EXCEPT !.do = "paren"]>>) /\ ParserOnly
  <2> DEFINE y == [Item EXCEPT !.do = "paren"]
  <2>1. y.do = "paren"
    BY <1>1, ItemIs DEF ItemOK, Operand
  <2> HIDE DEF y
  <2>2. Fit(y, code)
    BY <1>2, <2>1, LooseFits DEF Simple, Inside, AtTop, Owning, Reading
  <2>3. Accept(<<y>>) /\ ParserOnly
    BY <1>3 DEF y
  <2>4. QED
    BY <1>1, <1>2, <2>2, <2>3, ReadyShort, PlainIs, ParserStep
<1>4. CASE tk \in {"-", "!"} /\ Accept(<<Operand(FALSE), Do("unary")>>) /\ ParserOnly
  <2>1. Fit(Operand(FALSE), code) /\ Fit(Do("unary"), code)
    BY <1>2, ExprFits, DoFits
  <2>2. QED
    BY <1>1, <1>2, <1>4, <2>1, ReadyShort, PlainIs, ParserStep
<1>5. CASE tk \in Names /\ Accept(<<[do |-> "identifier", name |-> tk]>>) /\ ParserOnly
  <2> DEFINE y == [do |-> "identifier", name |-> tk]
  <2>1. y.do = "identifier"
    OBVIOUS
  <2> HIDE DEF y
  <2>2. Fit(y, code)
    BY <1>2, <2>1, LooseFits DEF Simple, Inside, AtTop, Owning, Reading
  <2>3. Accept(<<y>>) /\ ParserOnly
    BY <1>5 DEF y
  <2>4. QED
    BY <1>1, <1>2, <2>2, <2>3, ReadyShort, PlainIs, ParserStep
<1>6. ASSUME tk \in DOMAIN Literals, r' = Value(Type(Literals[tk].base), FALSE),
             code' = Gen(AddInstruction(code, IF Type(Literals[tk].base) = DoubleT THEN "PUSH_F" ELSE "PUSH_I",
                                        Literals[tk].value)),
             Accept(<<Do("postfix")>>), UNCHANGED <<table, status>>
      PROVE  IInv'
  <2> DEFINE op == IF Type(Literals[tk].base) = DoubleT THEN "PUSH_F" ELSE "PUSH_I"
             e == AddInstruction(code, op, Literals[tk].value)
  <2>1. op \notin {"CALL", "JMP", "JF"}
    OBVIOUS
  <2>2. code' = Gen(e)
    BY <1>6
  <2> HIDE DEF op
  <2>3. Generating => Generated(code, e)
    BY <1>1, <1>2, <2>1, Compiling, AddPlain
  <2> HIDE DEF e
  <2>4. ValueOK(r', Len(structs))
    <3>1. Proper(Type(Literals[tk].base), Len(structs))
      BY <1>6, LiteralsAssumption, TypeProper, CurrentProper
    <3>2. QED
      BY <1>6, <3>1, ValueProper, CurrentProper
  <2>5. Ready(<<Do("postfix")>>, code')
    BY <1>2, DoFits, ReadyShort
  <2>6. QED
    BY <1>1, <1>2, <1>6, <2>2, <2>3, <2>4, <2>5, ExprStep
<1>7. ASSUME r' = Value([CharT EXCEPT !.dim = 0], FALSE), Accept(<<Do("postfix")>>),
             UNCHANGED <<table, code, status>>
      PROVE  IInv'
  <2>1. ValueOK(r', Len(structs))
    <3>1. Proper([CharT EXCEPT !.dim = 0], Len(structs))
      BY CurrentProper DEF Proper, CharT, Type, Bases, Arithmetic
    <3>2. QED
      BY <1>7, <3>1, CurrentProper, ValueProper
  <2>2. Ready(<<Do("postfix")>>, code)
    BY <1>2, DoFits, ReadyShort
  <2>3. QED
    BY <1>1, <1>2, <1>7, <2>1, <2>2, ValueStep
<1>8. CASE Fail
  BY <1>8, Failed
<1>9. QED
  BY <1>3, <1>4, <1>5, <1>6, <1>7, <1>8 DEF OperandOf

LEMMA ParenStep ==
  ASSUME IInv, Paren
  PROVE  IInv'
<1>1. status = "parsing" /\ Item.do = "paren" /\ ParserOnly
      /\ (GoOn(<<ReadType("cast")>>) \/ GoOn(<<Expr, Do("endParen")>>))
  BY DEF Paren, Doing
<1>2. Plain(Item)
  BY <1>1, PlainDo
<1>3. Ready(<<ReadType("cast")>>, code) /\ Ready(<<Expr, Do("endParen")>>, code)
  BY <1>2, TypeFits, ExprFits, DoFits, ReadyShort DEF Expr
<1>4. QED
  BY <1>1, <1>2, <1>3, PlainIs, ParserStep

LEMMA EndParenStep ==
  ASSUME IInv, EndParen
  PROVE  IInv'
<1>1. CASE Fail
  BY <1>1, Failed
<1>2. CASE ~ Fail
  <2>1. status = "parsing" /\ Item.do = "endParen" /\ ParserOnly /\ Accept(<<Do("postfix")>>)
    BY <1>2 DEF EndParen, Completes, Doing, Need
  <2>2. Plain(Item)
    BY <2>1, PlainDo DEF Waiting
  <2>3. QED
    BY <2>1, <2>2, DoFits, ReadyShort, PlainIs, ParserStep
<1>3. QED BY <1>1, <1>2

LEMMA CastStep ==
  ASSUME IInv, Cast
  PROVE  IInv'
<1>1. CASE Fail
  BY <1>1, Failed
<1>2. CASE ~ Fail
  <2> DEFINE y == [do |-> "convert", type |-> Item.type]
  <2>1. status = "parsing" /\ Item.do = "cast" /\ ParserOnly /\ Accept(<<Expr, y>>)
    BY <1>2 DEF Cast, Doing, Need
  <2>2. Plain(Item)
    BY <2>1, PlainDo
  <2>3. Proper(Item.type, Len(structs))
    BY <2>1, ItemIs DEF ItemOK, WithType, Declaring
  <2>4. y.do = "convert" /\ y.type = Item.type
    OBVIOUS
  <2> HIDE DEF y
  <2>5. Fit(y, code)
    BY <2>2, <2>3, <2>4, WithTypeFits
  <2>6. Fit(Expr, code)
    BY <2>2, ExprFits DEF Expr
  <2>7. QED
    BY <2>1, <2>2, <2>5, <2>6, ReadyShort, PlainIs, ParserStep
<1>3. QED BY <1>1, <1>2

LEMMA ConvertStep ==
  ASSUME IInv, Convert
  PROVE  IInv'
<1>1. CASE Fail
  BY <1>1, Failed
<1>2. CASE ~ Fail
  <2> DEFINE e == ConvertLast(AddRval(code, r), r.type, Item.type)
  <2>1. /\ status = "parsing" /\ Item.do = "convert"
        /\ code' = Gen(e) /\ r' = Value(Item.type, FALSE) /\ GoOn(<<>>) /\ UNCHANGED <<table, status>>
    BY <1>2 DEF Convert, Completes, Doing, Need
  <2>2. Plain(Item)
    BY <2>1, PlainDo DEF Waiting
  <2>3. Generating => Generated(code, e)
    BY <2>1, <2>2, Compiling, LoadGenerates
  <2>4. ValueOK(r', Len(structs))
    <3>1. Proper(Item.type, Len(structs))
      BY <2>1, ItemIs DEF ItemOK, WithType
    <3>2. QED
      BY <2>1, <3>1, CurrentProper, ValueProper
  <2> HIDE DEF e
  <2>5. QED
    BY <2>1, <2>2, <2>3, <2>4, ReadyShort, ExprStep
<1>3. QED BY <1>1, <1>2

LEMMA UnaryStep ==
  ASSUME IInv, Unary
  PROVE  IInv'
<1>1. CASE Fail
  BY <1>1, Failed
<1>2. CASE ~ Fail
  <2>1. /\ status = "parsing" /\ Item.do = "unary" /\ r' = Value(r.type, FALSE) /\ GoOn(<<>>)
        /\ UNCHANGED <<table, code, status>>
    BY <1>2 DEF Unary, Completes, Doing, Need
  <2>2. Plain(Item)
    BY <2>1, PlainDo DEF Waiting
  <2>3. ValueOK(r', Len(structs))
    BY <2>1, CurrentProper, ValueProper
  <2>4. QED
    BY <2>1, <2>2, <2>3, ReadyShort, ValueStep
<1>3. QED BY <1>1, <1>2

LEMMA PostfixStep ==
  ASSUME IInv, Postfix
  PROVE  IInv'
<1> DEFINE y == [do |-> "index", type |-> r.type]
<1>1. status = "parsing" /\ Item.do = "postfix" /\ ParserOnly
      /\ (Accept(<<Expr, y>>) \/ Accept(<<Do("field")>>) \/ GoOn(<<>>))
  BY DEF Postfix, Doing
<1>2. Plain(Item)
  BY <1>1, PlainDo
<1>3. y.do = "index" /\ Proper(y.type, Len(structs))
  BY CurrentProper
<1> HIDE DEF y
<1>4. Fit(y, code)
  BY <1>2, <1>3, WithTypeFits
<1>5. Fit(Expr, code) /\ Fit(Do("field"), code)
  BY <1>2, ExprFits, DoFits DEF Expr
<1>6. QED
  BY <1>1, <1>2, <1>4, <1>5, ReadyShort, PlainIs, ParserStep

LEMMA IndexStep ==
  ASSUME IInv, Index
  PROVE  IInv'
<1>1. CASE Fail
  BY <1>1, Failed
<1>2. CASE ~ Fail
  <2>1. /\ status = "parsing" /\ Item.do = "index"
        /\ r' = Value([Item.type EXCEPT !.dim = -1], TRUE)
        /\ Accept(<<Do("postfix")>>) /\ UNCHANGED <<table, code, status>>
    BY <1>2 DEF Index, Completes, Doing, Need
  <2>2. Plain(Item)
    BY <2>1, PlainDo DEF Waiting
  <2>3. Proper(Item.type, Len(structs))
    BY <2>1, ItemIs DEF ItemOK, WithType
  <2>4. ValueOK(r', Len(structs))
    <3>1. Proper([Item.type EXCEPT !.dim = -1], Len(structs))
      BY <2>3, CurrentProper DEF Proper
    <3>2. QED
      BY <2>1, <3>1, CurrentProper, ValueProper
  <2>5. Ready(<<Do("postfix")>>, code)
    BY <2>2, DoFits, ReadyShort
  <2>6. QED
    BY <2>1, <2>2, <2>4, <2>5, ValueStep
<1>3. QED BY <1>1, <1>2

LEMMA FieldStep ==
  ASSUME IInv, Field
  PROVE  IInv'
<1>1. CASE Fail
  BY <1>1, Failed
<1>2. CASE ~ Fail
  <2> DEFINE members == structs[r.type.sym]
             i == CHOOSE j \in DOMAIN members : members[j].name = tk
  <2>1. /\ status = "parsing" /\ Item.do = "field" /\ r.type.base = "struct"
        /\ \E j \in DOMAIN members : members[j].name = tk
        /\ r' = Value(members[i].type, TRUE)
        /\ Accept(<<Do("postfix")>>) /\ UNCHANGED <<table, code, status>>
    BY <1>2 DEF Field, Doing, Need
  <2>2. Plain(Item)
    BY <2>1, PlainDo
  <2>3. r.type.sym \in 1 .. Len(structs)
    BY <2>1, CurrentProper DEF Proper
  <2>4. i \in DOMAIN members
    BY <2>1
  <2>5. StructOK(members, r.type.sym)
    BY <2>3, LensNat DEF IInv, TableOK, StructsOK
  <2> HIDE DEF i, members
  <2>6. Proper(members[i].type, r.type.sym)
    BY <2>4, <2>5 DEF StructOK
  <2>7. Proper(members[i].type, Len(structs))
    BY <2>3, <2>6, CurrentProper, ProperMonotonic
  <2>8. ValueOK(r', Len(structs))
    BY <2>1, <2>7, CurrentProper, ValueProper
  <2>9. Ready(<<Do("postfix")>>, code)
    BY <2>2, DoFits, ReadyShort
  <2>10. QED
    BY <2>1, <2>2, <2>8, <2>9, ValueStep
<1>3. QED BY <1>1, <1>2

LEMMA AddressGenerates ==
  ASSUME Listed(code), NEW s
  PROVE  Generated(code, AddAddress(s))
<1>1. CASE s.kind = "variable" /\ s.owner.kind = "none"
  BY <1>1, AddPlain DEF AddAddress
<1>2. CASE s.kind = "variable" /\ s.owner.kind = "fn"
  BY <1>2, AddPlain, StoreIs DEF AddAddress
<1>3. CASE s.kind = "parameter"
  BY <1>3, AddPlain, StoreIs DEF AddAddress
<1>4. CASE /\ ~ (s.kind = "variable" /\ s.owner.kind = "none")
           /\ ~ (s.kind = "variable" /\ s.owner.kind = "fn") /\ s.kind # "parameter"
  BY <1>4, GeneratedReflexive DEF AddAddress
<1>5. QED
  BY <1>1, <1>2, <1>3, <1>4

\* An activation that keeps a function, and the arguments passed so far.
LEMMA WithFunctionFits ==
  ASSUME Plain(Item), NEW c, NEW y, y.do \in {"arguments", "call"} \/ y = Passing(y.fn, y.no),
         y.fn \in 1 .. Len(fns)
  PROVE  Fit(y, c)
<1>1. y.do \in {"arguments", "call", "argument"} /\ (y.do = "argument" => y = Passing(y.fn, y.no))
  BY DEF Passing
<1>2. ItemOK(y, Len(fns), Len(structs), c, Generating)
  BY <1>1 DEF ItemOK, Declaring, WithType
<1>3. Loose(y)
  BY <1>1 DEF Loose, AtTop, Heading, Inside, Owning, Reading
<1>4. QED
  BY <1>2, <1>3, PlainFits

LEMMA IdentifierStep ==
  ASSUME IInv, Identifier
  PROVE  IInv'
<1>1. CASE Fail
  BY <1>1, Failed
<1>2. CASE ~ Fail
  <2> DEFINE s == FindSymbol(Item.name)
             y == [do |-> "arguments", fn |-> s.no]
  <2>1. status = "parsing" /\ Item.do = "identifier" /\ Visible(Item.name)
        /\ ((s.kind = "fn") = (tk = "("))
    BY <1>2 DEF Identifier, Doing, Need
  <2>2. Plain(Item)
    BY <2>1, PlainDo
  <2>3. SymbolOK(s, Len(fns), Len(structs), Len(globals))
    BY <2>1, Found
  <2>4. CASE tk = "("
    <3>1. Accept(<<y>>) /\ ParserOnly
      BY <1>2, <2>4 DEF Identifier, Need
    <3>2. y.do = "arguments" /\ y.fn = s.no
      OBVIOUS
    <3>3. s.no \in 1 .. Len(fns)
      BY <2>1, <2>3, <2>4 DEF SymbolOK
    <3> HIDE DEF y, s
    <3>4. Fit(y, code)
      BY <2>2, <3>2, <3>3, WithFunctionFits
    <3>5. QED
      BY <2>1, <2>2, <3>1, <3>4, ReadyShort, PlainIs, ParserStep
  <2>5. CASE tk # "("
    <3>1. /\ code' = Gen(AddAddress(s)) /\ r' = Value(s.type, TRUE)
          /\ GoOn(<<Do("postfix")>>) /\ UNCHANGED <<table, status>>
      BY <1>2, <2>5 DEF Identifier, Need
    <3> HIDE DEF s
    <3>2. Generating => Generated(code, AddAddress(s))
      BY <2>1, <2>2, Compiling, AddressGenerates
    <3>3. ValueOK(r', Len(structs))
      BY <2>3, <3>1, CurrentProper, ValueProper DEF SymbolOK
    <3>4. Ready(<<Do("postfix")>>, code')
      BY <2>2, DoFits, ReadyShort
    <3>5. QED
      BY <2>1, <2>2, <3>1, <3>2, <3>3, <3>4, ExprStep
  <2>6. QED BY <2>4, <2>5
<1>3. QED BY <1>1, <1>2

LEMMA ArgumentsStep ==
  ASSUME IInv, Arguments
  PROVE  IInv'
<1> DEFINE y == [do |-> "argument", fn |-> Item.fn, no |-> 1]
           z == [do |-> "call", fn |-> Item.fn, count |-> 0]
<1>1. status = "parsing" /\ Item.do = "arguments" /\ ParserOnly
      /\ (GoOn(<<Expr, y>>) \/ GoOn(<<z>>))
  BY DEF Arguments, Doing
<1>2. Plain(Item)
  BY <1>1, PlainDo
<1>3. Item.fn \in 1 .. Len(fns)
  BY <1>1, ItemIs DEF ItemOK
<1>4. y = Passing(y.fn, y.no) /\ y.fn = Item.fn /\ z.do = "call" /\ z.fn = Item.fn
  BY DEF Passing
<1> HIDE DEF y, z
<1>5. Fit(y, code) /\ Fit(z, code) /\ Fit(Expr, code)
  BY <1>2, <1>3, <1>4, WithFunctionFits, ExprFits DEF Expr
<1>6. QED
  BY <1>1, <1>2, <1>5, ReadyShort, PlainIs, ParserStep

LEMMA ArgumentStep ==
  ASSUME IInv, Argument
  PROVE  IInv'
<1>1. CASE Fail
  BY <1>1, Failed
<1>2. CASE ~ Fail
  <2> DEFINE e == ConvertLast(AddRval(code, r), r.type, fns[Item.fn].params[Item.no])
             y == [Item EXCEPT !.no = @ + 1]
             z == [do |-> "call", fn |-> Item.fn, count |-> Item.no]
  <2>1. /\ status = "parsing" /\ Item.do = "argument"
        /\ code' = Gen(e) /\ (Accept(<<Expr, y>>) \/ GoOn(<<z>>)) /\ CodeOnly
    BY <1>2 DEF Argument, Completes, Doing, Need
  <2>2. Plain(Item)
    BY <2>1, PlainDo DEF Waiting
  <2>3. Item.fn \in 1 .. Len(fns) /\ Item = Passing(Item.fn, Item.no)
    BY <2>1, ItemIs DEF ItemOK
  <2>4. y = Passing(y.fn, y.no) /\ y.fn = Item.fn /\ z.do = "call" /\ z.fn = Item.fn
    BY <2>3 DEF Passing
  <2>5. Generating => Generated(code, e)
    BY <2>1, <2>2, Compiling, LoadGenerates
  <2> HIDE DEF e, y, z
  <2>6. Ready(<<Expr, y>>, code') /\ Ready(<<z>>, code')
    BY <2>2, <2>3, <2>4, WithFunctionFits, ExprFits, ReadyShort DEF Expr
  <2>7. UNCHANGED table /\ UNCHANGED status /\ ValueOK(r', Len(structs))
    BY <2>1, CurrentProper DEF CodeOnly
  <2>8. QED
    BY <2>1, <2>2, <2>5, <2>6, <2>7, ExprStep
<1>3. QED BY <1>1, <1>2

LEMMA CallStep ==
  ASSUME IInv, Call
  PROVE  IInv'
<1>1. CASE Fail
  BY <1>1, Failed
<1>2. CASE ~ Fail
  <2> DEFINE f == fns[Item.fn]
             e == IF f.extern # 0 THEN AddInstruction(code, "CALL_EXT", f.extern)
                                  ELSE AddInstruction(code, "CALL", f.first)
  <2>1. /\ status = "parsing" /\ Item.do = "call"
        /\ code' = Gen(e) /\ r' = Value(f.type, FALSE)
        /\ Accept(<<Do("postfix")>>) /\ UNCHANGED <<table, status>>
    BY <1>2 DEF Call, Doing, Need
  <2>2. Plain(Item)
    BY <2>1, PlainDo
  <2>3. Item.fn \in DOMAIN fns
    BY <2>1, ItemIs, LensNat DEF ItemOK
  <2>4. FnOK(f, Len(structs), Len(code))
    BY <2>3 DEF IInv, TableOK, FnsOK
  <2> HIDE DEF f
  <2>5. Generating => Generated(code, e)
    <3>1. ArgOK("CALL", f.first, Len(code) + 1)
      BY <2>4, CurrentProper DEF ArgOK, FnOK
    <3>2. QED
      BY <2>1, <2>2, <3>1, Compiling, AddGenerates, AddPlain
  <2>6. ValueOK(r', Len(structs))
    BY <2>1, <2>4, CurrentProper, ValueProper DEF FnOK
  <2> HIDE DEF e
  <2>7. Ready(<<Do("postfix")>>, code')
    BY <2>2, DoFits, ReadyShort
  <2>8. QED
    BY <2>1, <2>2, <2>5, <2>6, <2>7, ExprStep
<1>3. QED BY <1>1, <1>2
-----------------------------------------------------------------------------
(* Statements that wait, action by action.                                 *)

\* In a body.
LEMMA BodyIs ==
  ASSUME IInv, status = "parsing", Inside(Item), Item.do # "block"
  PROVE  Plain(Item) /\ Listed(code) /\ owner.no \in DOMAIN fns /\ Generating
  BY InsideCompiles, Compiling

\* What was within reach has been gone past.
LEMMA AddPasses ==
  ASSUME NEW c, Listed(c), NEW b, Reached(c, b), NEW op, NEW arg, ArgOK(op, arg, Len(c) + 1)
  PROVE  b \in DOMAIN AddInstruction(c, op, arg) /\ AddInstruction(c, op, arg)[b].next # NULL
<1> DEFINE d == AddInstruction(c, op, arg)
<1>1. Len(c) \in Nat /\ Len(c) + 1 \in Nat /\ DOMAIN c = 1 .. Len(c)
  BY ListedNat
<1>2. CodeOK(d, Len(c) + 1) /\ Continues(c, d) /\ Len(d) = Len(c) + 1 /\ IsLast(d, Len(d))
  <2> HIDE DEF d
  <2> QED BY <1>1, Added DEF Listed, d
<1> HIDE DEF d
<1>3. IsSequence(d) /\ LastInstruction(d) = Len(d)
  BY <1>2, LastIs DEF CodeOK
<1>4. b \in DOMAIN c /\ Reached(d, b)
  BY <1>2 DEF Continues, Reached
<1>5. b # Len(d)
  BY <1>1, <1>2, <1>4
<1>6. QED
  BY <1>3, <1>4, <1>5 DEF Reached, d

LEMMA EndExpressionStep ==
  ASSUME IInv, EndExpression
  PROVE  IInv'
<1>1. CASE Fail
  BY <1>1, Failed
<1>2. CASE ~ Fail
  <2>1. /\ status = "parsing" /\ Item.do = "endExpression" /\ Accept(<<>>) /\ CodeOnly
        /\ code' = IF r.type.base = "void" THEN code ELSE AddInstruction(code, "DROP", Unset)
    BY <1>2 DEF EndExpression, Completes, Doing, Need
  <2>2. Plain(Item) /\ Listed(code)
    BY <2>1, BodyIs DEF Inside
  <2>3. Generated(code, code')
    BY <2>1, <2>2, AddPlain, GeneratedReflexive
  <2>4. QED
    BY <2>1, <2>2, <2>3, ReadyShort, BodyStep
<1>3. QED BY <1>1, <1>2

LEMMA InitializeStep ==
  ASSUME IInv, Initialize
  PROVE  IInv'
<1>1. CASE Fail
  BY <1>1, Failed
<1>2. CASE ~ Fail
  <2> DEFINE d == AddInstruction(ConvertLast(AddRval(code, r), r.type, Item.type),
                                 StoreOf(Item.type), Unset)
             e == AddInstruction(d, "DROP", Unset)
  <2>1. status = "parsing" /\ Item.do = "initialize" /\ code' = Gen(e) /\ GoOn(<<>>) /\ CodeOnly
    BY <1>2 DEF Initialize, Completes, Doing, Need
  <2>2. Plain(Item)
    BY <2>1, PlainDo DEF Waiting
  <2>3. Generating => Generated(code, e)
    <3>1. SUFFICES ASSUME Generating PROVE Generated(code, e)
      OBVIOUS
    <3>2. Listed(code) /\ Generated(code, d)
      BY <2>1, <2>2, <3>1, Compiling, StoreIs, StoreGenerates
    <3> HIDE DEF d
    <3>3. Generated(d, e)
      BY <3>2, AddPlain DEF Generated
    <3>4. QED
      BY <3>2, <3>3, GeneratedTransitive
  <2>4. UNCHANGED table /\ UNCHANGED status /\ ValueOK(r', Len(structs))
    BY <2>1, CurrentProper DEF CodeOnly
  <2> HIDE DEF e
  <2>5. QED
    BY <2>1, <2>2, <2>3, <2>4, ReadyShort, ExprStep
<1>3. QED BY <1>1, <1>2

LEMMA ReturnValueStep ==
  ASSUME IInv, ReturnValue
  PROVE  IInv'
<1>1. CASE Fail
  BY <1>1, Failed
<1>2. CASE ~ Fail
  <2> DEFINE f == fns[owner.no]
  <2>1. /\ status = "parsing" /\ Item.do = "returnValue" /\ GoOn(<<ReadToken(";")>>) /\ CodeOnly
        /\ code' = AddInstruction(ConvertLast(AddRval(code, r), r.type, f.type), "RET", Len(f.params))
    BY <1>2 DEF ReturnValue, Completes, Doing, Need
  <2> HIDE DEF f
  <2>2. Plain(Item) /\ Listed(code)
    BY <2>1, BodyIs DEF Inside
  <2>3. Generated(code, code')
    BY <2>1, <2>2, StoreGenerates
  <2>4. QED
    BY <2>1, <2>2, <2>3, TokenFits, ReadyShort, BodyStep
<1>3. QED BY <1>1, <1>2

LEMMA ReturnStep ==
  ASSUME IInv, Return
  PROVE  IInv'
<1>1. status = "parsing" /\ Item.do = "return"
  BY DEF Return, Doing
<1>2. Plain(Item) /\ Listed(code) /\ Inside(Item)
  BY <1>1, BodyIs DEF Inside
<1>3. CASE tk \in ExprTokens
  <2>1. GoOn(<<Expr, Do("returnValue")>>) /\ ParserOnly
    BY <1>3 DEF Return
  <2>2. Fit(Do("returnValue"), code)
    <3>1. Do("returnValue").do = "returnValue" /\ "returnValue" \in Simple
      BY DEF Do, Simple
    <3>2. QED
      BY <1>2, <3>1, SimpleOK, InsideFits DEF Inside
  <2>3. Fit(Expr, code)
    BY <1>2, ExprFits DEF Expr
  <2>4. QED
    BY <1>1, <1>2, <2>1, <2>2, <2>3, ReadyShort, PlainIs, ParserStep
<1>4. CASE Fail
  BY <1>4, Failed
<1>5. CASE tk \notin ExprTokens /\ ~ Fail
  <2> DEFINE n == Len(fns[owner.no].params)
  <2>1. GoOn(<<ReadToken(";")>>) /\ code' = AddInstruction(code, "RET_VOID", n) /\ CodeOnly
    BY <1>5 DEF Return, Need
  <2> HIDE DEF n
  <2>2. Generated(code, code')
    BY <1>2, <2>1, AddPlain
  <2>3. QED
    BY <1>1, <1>2, <2>1, <2>2, TokenFits, ReadyShort, BodyStep
<1>6. QED BY <1>3, <1>4, <1>5

LEMMA StmFits ==
  ASSUME Inside(Item), Plain(Item), NEW c
  PROVE  Fit(Do("stm"), c)
<1>1. Do("stm").do = "stm" /\ "stm" \in Simple
  BY DEF Do, Simple
<1>2. QED
  BY <1>1, SimpleOK, InsideFits DEF Inside

LEMMA ConditionStep ==
  ASSUME IInv, Condition
  PROVE  IInv'
<1>1. CASE Fail
  BY <1>1, Failed
<1>2. CASE ~ Fail
  <2> DEFINE d == ConvertLast(AddRval(code, r), r.type, IntT)
             c == AddInstruction(d, "JF", Unset)
             y == [do |-> "endThen", jf |-> Len(c)]
             z == [do |-> "endWhile", jf |-> Len(c), before |-> Item.before]
             x == IF Item.of = "if" THEN y ELSE z
  <2>1. /\ status = "parsing" /\ Item.do = "condition" /\ code' = c
        /\ Accept(<<Do("stm"), x>>) /\ CodeOnly
    BY <1>2 DEF Condition, Completes, Doing, Need
  <2>2. Plain(Item) /\ Listed(code) /\ Inside(Item)
    BY <2>1, BodyIs DEF Inside
  <2>3. Generated(code, d) /\ Reached(code, Item.before)
    BY <2>1, <2>2, LoadGenerates, ItemIs DEF ItemOK
  <2>4. Listed(d) /\ Reached(d, Item.before)
    BY <2>3 DEF Generated, Continues, Reached
  <2> HIDE DEF d
  <2>5. ArgOK("JF", Unset, Len(d) + 1)
    BY DEF ArgOK
  <2>6. Generated(d, c) /\ Item.before \in DOMAIN c /\ c[Item.before].next # NULL
    BY <2>4, <2>5, AddGenerates, AddPasses
  <2>7. Generated(code, c) /\ Len(c) \in DOMAIN c
    <3> HIDE DEF c
    <3> QED BY <2>2, <2>3, <2>6, GeneratedTransitive, ListedNat DEF Generated
  <2> HIDE DEF c
  <2>8. Fit(y, c)
    <3>1. y.do = "endThen" /\ y.jf = Len(c)
      OBVIOUS
    <3> HIDE DEF y
    <3>2. ItemOK(y, Len(fns), Len(structs), c, Generating)
      BY <2>7, <3>1 DEF ItemOK, Declaring, WithType
    <3>3. QED
      BY <2>2, <3>1, <3>2, InsideFits DEF Inside
  <2>9. Fit(z, c)
    <3>1. z.do = "endWhile" /\ z.jf = Len(c) /\ z.before = Item.before
      OBVIOUS
    <3> HIDE DEF z
    <3>2. ItemOK(z, Len(fns), Len(structs), c, Generating)
      BY <2>6, <2>7, <3>1 DEF ItemOK, Declaring, WithType
    <3>3. QED
      BY <2>2, <3>1, <3>2, InsideFits DEF Inside
  <2>10. Fit(x, c)
    <3> HIDE DEF y, z
    <3> QED BY <2>8, <2>9
  <2> HIDE DEF x
  <2>11. Ready(<<Do("stm"), x>>, c)
    BY <2>2, <2>10, StmFits, ReadyShort
  <2>12. QED
    BY <2>1, <2>2, <2>7, <2>11, BodyStep
<1>3. QED BY <1>1, <1>2

LEMMA EndThenStep ==
  ASSUME IInv, EndThen
  PROVE  IInv'
<1>1. status = "parsing" /\ Item.do = "endThen" /\ CodeOnly
  BY DEF EndThen, Doing
<1>2. Plain(Item) /\ Listed(code) /\ Inside(Item)
  BY <1>1, BodyIs DEF Inside
<1>3. Item.jf \in DOMAIN code
  BY <1>1, ItemIs DEF ItemOK
<1>4. CASE tk = "else"
  <2> DEFINE c == AddInstruction(code, "JMP", Unset)
             d == JumpToNop(c, Item.jf)
             y == [do |-> "endIf", jmp |-> Len(code) + 1]
  <2>1. Accept(<<Do("stm"), y>>) /\ code' = d
    BY <1>4 DEF EndThen
  <2>2. ArgOK("JMP", Unset, Len(code) + 1)
    BY DEF ArgOK
  <2>3. Generated(code, c) /\ Len(c) = Len(code) + 1
    BY <1>2, <2>2, AddGenerates
  <2> HIDE DEF c
  <2>4. Listed(c) /\ Item.jf \in DOMAIN c
    BY <1>2, <1>3, <2>3, ListedNat DEF Generated
  <2>5. Generated(c, d)
    BY <2>4, JumpGenerates
  <2> HIDE DEF d
  <2>6. Generated(code, d)
    BY <1>2, <2>3, <2>5, GeneratedTransitive
  <2>7. Len(code) + 1 \in DOMAIN d
    BY <1>2, <2>3, <2>4, <2>5, ListedNat DEF Generated, Continues
  <2>8. Fit(y, d)
    <3>1. y.do = "endIf" /\ y.jmp = Len(code) + 1
      OBVIOUS
    <3> HIDE DEF y
    <3>2. ItemOK(y, Len(fns), Len(structs), d, Generating)
      BY <2>7, <3>1 DEF ItemOK, Declaring, WithType
    <3>3. QED
      BY <1>2, <3>1, <3>2, InsideFits DEF Inside
  <2> HIDE DEF y
  <2>9. Ready(<<Do("stm"), y>>, d)
    BY <1>2, <2>8, StmFits, ReadyShort
  <2>10. QED
    BY <1>1, <1>2, <2>1, <2>6, <2>9, BodyStep
<1>5. CASE tk # "else"
  <2>1. GoOn(<<>>) /\ code' = JumpToNop(code, Item.jf)
    BY <1>5 DEF EndThen
  <2>2. QED
    BY <1>1, <1>2, <1>3, <2>1, JumpGenerates, ReadyShort, BodyStep
<1>6. QED BY <1>4, <1>5

LEMMA EndIfStep ==
  ASSUME IInv, EndIf
  PROVE  IInv'
<1>1. status = "parsing" /\ Item.do = "endIf" /\ CodeOnly /\ GoOn(<<>>)
      /\ code' = JumpToNop(code, Item.jmp)
  BY DEF EndIf, Doing
<1>2. Plain(Item) /\ Listed(code)
  BY <1>1, BodyIs DEF Inside
<1>3. Item.jmp \in DOMAIN code
  BY <1>1, ItemIs DEF ItemOK
<1>4. QED
  BY <1>1, <1>2, <1>3, JumpGenerates, ReadyShort, BodyStep

LEMMA EndWhileStep ==
  ASSUME IInv, EndWhile
  PROVE  IInv'
<1> DEFINE c == AddInstruction(code, "JMP", code[Item.before].next)
<1>1. status = "parsing" /\ Item.do = "endWhile" /\ CodeOnly /\ GoOn(<<>>)
      /\ code' = JumpToNop(c, Item.jf)
  BY DEF EndWhile, Doing
<1>2. Plain(Item) /\ Listed(code)
  BY <1>1, BodyIs DEF Inside
<1>3. Item.jf \in DOMAIN code /\ Item.before \in DOMAIN code /\ code[Item.before].next # NULL
  BY <1>1, ItemIs DEF ItemOK
<1>4. ArgOK("JMP", code[Item.before].next, Len(code) + 1)
  <2>1. NodeOK(code[Item.before], Len(code)) /\ Len(code) \in Nat
    BY <1>2, <1>3, ListedNat DEF Listed, CodeOK
  <2>2. QED
    BY <1>3, <2>1 DEF NodeOK, ArgOK, NULL
<1>5. Generated(code, c) /\ Len(c) = Len(code) + 1
  BY <1>2, <1>4, AddGenerates
<1> HIDE DEF c
<1>6. Listed(c) /\ Item.jf \in DOMAIN c
  BY <1>2, <1>3, <1>5, ListedNat DEF Generated
<1>7. Generated(code, code')
  BY <1>1, <1>2, <1>5, <1>6, JumpGenerates, GeneratedTransitive
<1>8. QED
  BY <1>1, <1>2, <1>7, ReadyShort, BodyStep

-----------------------------------------------------------------------------
(* Tokens and declarators.                                                 *)
LEMMA ExpectedTokenStep ==
  ASSUME IInv, ExpectedToken
  PROVE  IInv'
<1>1. CASE Fail
  BY <1>1, Failed
<1>2. CASE ~ Fail
  <2>1. status = "parsing" /\ Item.do = "token" /\ Accept(<<>>) /\ ParserOnly
    BY <1>2 DEF ExpectedToken, Doing, Need
  <2>2. ~ AtTop(Item)
    BY <2>1 DEF AtTop, Owning, Reading
  <2>3. QED
    BY <2>1, <2>2, ReadyShort, ParserStep
<1>3. QED BY <1>1, <1>2

LEMMA InitializerStep ==
  ASSUME IInv, Initializer
  PROVE  IInv'
<1>1. status = "parsing" /\ Item.do = "initializer" /\ CodeOnly
  BY DEF Initializer, Doing
<1>2. Plain(Item)
  BY <1>1, PlainDo
<1>3. Proper(Item.type, Len(structs))
  BY <1>1, ItemIs DEF ItemOK, WithType
<1>4. UNCHANGED table /\ UNCHANGED status /\ ValueOK(r', Len(structs))
  BY <1>1, CurrentProper DEF CodeOnly
<1>5. CASE tk = "="
  <2> DEFINE y == [do |-> "initialize", type |-> Item.type]
             e == AddInstruction(code, FpAddr(Item.type), Item.slot)
  <2>1. Accept(<<Expr, y>>) /\ code' = Gen(e)
    BY <1>5 DEF Initializer
  <2>2. y.do = "initialize" /\ y.type = Item.type
    OBVIOUS
  <2> HIDE DEF y
  <2>3. Fit(y, code')
    BY <1>2, <1>3, <2>2, WithTypeFits
  <2>4. Fit(Expr, code')
    BY <1>2, ExprFits DEF Expr
  <2>5. Generating => Generated(code, e)
    BY <1>1, <1>2, Compiling, StoreIs, AddPlain
  <2> HIDE DEF e
  <2>6. QED
    BY <1>1, <1>2, <1>4, <2>1, <2>3, <2>4, <2>5, ReadyShort, ExprStep
<1>6. CASE tk # "="
  <2>1. GoOn(<<>>) /\ UNCHANGED code
    BY <1>6 DEF Initializer
  <2>2. QED
    BY <1>1, <1>2, <1>4, <2>1, ReadyShort, ValueStep
<1>7. QED BY <1>5, <1>6

LEMMA DeclaratorsStep ==
  ASSUME IInv, Declarators
  PROVE  IInv'
<1>1. status = "parsing" /\ Item.do = "declarators"
  BY DEF Declarators, Doing
<1>2. Plain(Item)
  BY <1>1, PlainDo
<1>3. CASE tk = ","
  <2> DEFINE y == [do |-> "name", for |-> "variable", type |-> Item.type]
  <2>1. Accept(<<y>>) /\ ParserOnly
    BY <1>3 DEF Declarators
  <2>2. y.do = "name" /\ y.for = "variable" /\ y.type = Item.type
    OBVIOUS
  <2> HIDE DEF y
  <2>3. ItemOK(y, Len(fns), Len(structs), code, Generating)
    BY <1>1, <2>2, ItemIs DEF ItemOK, Declaring, WithType
  <2>4. Loose(y)
    BY <2>2 DEF Loose, AtTop, Heading, Inside, Owning, Reading
  <2>5. QED
    BY <1>1, <1>2, <2>1, <2>3, <2>4, PlainFits, ReadyShort, PlainIs, ParserStep
<1>4. CASE tk # "," /\ Fail
  BY <1>4, Failed
<1>5. CASE tk # "," /\ ~ Fail
  <2>1. Accept(<<>>) /\ ParserOnly
    BY <1>5 DEF Declarators, Need
  <2>2. QED
    BY <1>1, <1>2, <2>1, ReadyShort, PlainIs, ParserStep
<1>6. QED BY <1>3, <1>4, <1>5

\* One stage of a declarator after another: what it is for stays.
LEMMA DeclaratorStep ==
  ASSUME IInv, status = "parsing", ParserOnly,
         Item.do \in Reading \cup {"array", "dimension", "endArray"}, ~ AtTop(Item),
         NEW y, Accept(<<y>>) \/ GoOn(<<y>>), y.for = Item.for, y.do # "unit",
         y.do \in Reading \cup {"array", "dimension", "endArray"} \/ y.do = y.for,
         ItemOK(y, Len(fns), Len(structs), code, Generating)
  PROVE  IInv'
<1>1. Item.for \in {"unit", "variable", "parameter", "cast"}
  BY ItemIs DEF ItemOK, Reading, Declaring
<1>2. y.do \notin {"block", "unit", "token"} /\ ~ Inside(y)
  BY <1>1 DEF Inside, Reading
<1>3. ~ AtTop(y) /\ (Heading(y) <=> Heading(Item))
  BY <1>1, ItemIs DEF AtTop, Heading, Reading, Owning, ItemOK, Declaring
<1>4. Item.do \notin {"unit", "block", "token"}
  BY DEF Reading
<1>5. Fit(y, code)
  BY <1>2, <1>3, <1>4 DEF Fit, Sibling
<1>6. QED
  BY <1>4, <1>5, ReadyShort, ParserStep

LEMMA DeclaratorIs ==
  ASSUME IInv, status = "parsing", Item.do \in {"array", "dimension", "endArray"}
  PROVE  /\ Item = Declarator(Item.do, Item.for, Item.type, Item.name)
         /\ Item.for \in {"variable", "parameter", "cast"}
         /\ Item.for # "cast" => Item.name \in Names
         /\ Proper(Item.type, Len(structs)) /\ ~ AtTop(Item)
         /\ \A do \in {"array", "dimension", "endArray", Item.for} :
            \A t : Proper(t, Len(structs)) =>
               ItemOK(Declarator(do, Item.for, t, Item.name), Len(fns), Len(structs), code, Generating)
<1>1. /\ Item = Declarator(Item.do, Item.for, Item.type, Item.name)
      /\ Item.for \in {"variable", "parameter", "cast"}
      /\ Item.for # "cast" => Item.name \in Names
      /\ Proper(Item.type, Len(structs))
  BY ItemIs DEF ItemOK, Declaring, WithType
<1>2. ~ AtTop(Item)
  BY DEF AtTop, Owning, Reading
<1>3. ASSUME NEW do \in {"array", "dimension", "endArray", Item.for}, NEW t, Proper(t, Len(structs))
      PROVE  ItemOK(Declarator(do, Item.for, t, Item.name), Len(fns), Len(structs), code, Generating)
  <2> DEFINE y == Declarator(do, Item.for, t, Item.name)
  <2>1. y = Declarator(y.do, y.for, y.type, y.name)
        /\ y.do = do /\ y.for = Item.for /\ y.type = t /\ y.name = Item.name
    BY DEF Declarator
  <2> HIDE DEF y
  <2>2. y.do \in {"array", "dimension", "endArray", "variable", "parameter", "cast"}
    BY <1>1, <2>1
  <2>3. y.do \in {"variable", "parameter", "cast"} => y.for = y.do
    BY <2>1
  <2>4. ItemOK(y, Len(fns), Len(structs), code, Generating)
    BY <1>1, <1>3, <2>1, <2>2, <2>3 DEF ItemOK, WithType, Declaring
  <2>5. QED
    BY <2>4 DEF y
<1>4. QED
  BY <1>1, <1>2, <1>3

LEMMA DeclaratorFields ==
  ASSUME NEW do, NEW for, NEW t, NEW name
  PROVE  /\ Declarator(do, for, t, name).do = do /\ Declarator(do, for, t, name).for = for
         /\ Declarator(do, for, t, name).type = t /\ Declarator(do, for, t, name).name = name
  BY DEF Declarator

LEMMA DeclaratorRedone ==
  ASSUME NEW do, NEW for, NEW t, NEW name, NEW d
  PROVE  [Declarator(do, for, t, name) EXCEPT !.do = d] = Declarator(d, for, t, name)
  BY DEF Declarator

WithDimension(t, e) == [t EXCEPT !.dim = e]
Dimensioned(x, d, e) == [x EXCEPT !.do = d, !.type.dim = e]

LEMMA DeclaratorDimensioned ==
  ASSUME NEW do, NEW for, NEW t, NEW name, NEW d, NEW e
  PROVE  Dimensioned(Declarator(do, for, t, name), d, e) = Declarator(d, for, WithDimension(t, e), name)
<1> DEFINE y == Declarator(do, for, t, name)
<1>1. y.do = do /\ y.for = for /\ y.type = t /\ y.name = name
  BY DEF Declarator
<1>2. [y EXCEPT !.do = d] = Declarator(d, for, t, name)
  BY DEF Declarator
<1>3. [y EXCEPT !.do = d, !.type.dim = e] = [[y EXCEPT !.do = d] EXCEPT !.type.dim = e]
  OBVIOUS
<1>4. [y EXCEPT !.do = d, !.type.dim = e] = [Declarator(d, for, t, name) EXCEPT !.type.dim = e]
  BY <1>2, <1>3
<1>5. Declarator(d, for, t, name).type = t
  BY DEF Declarator
<1> DEFINE u == [t EXCEPT !.dim = e]
<1>6. [Declarator(d, for, t, name) EXCEPT !.type.dim = e] = [Declarator(d, for, t, name) EXCEPT !.type = u]
  BY <1>5
<1> HIDE DEF u
<1>7. [Declarator(d, for, t, name) EXCEPT !.type = u] = Declarator(d, for, u, name)
  BY DEF Declarator
<1>8. QED
  BY <1>4, <1>6, <1>7 DEF u, Dimensioned, WithDimension

LEMMA DimensionProper ==
  ASSUME NEW t, NEW n \in Nat, Proper(t, n), NEW d \in Int
  PROVE  Proper(WithDimension(t, d), n)
  BY DEF Proper, WithDimension

LEMMA ArrayStep ==
  ASSUME IInv, Array
  PROVE  IInv'
<1>1. status = "parsing" /\ Item.do = "array" /\ ParserOnly
      /\ (Accept(<<[Item EXCEPT !.do = "dimension"]>>) \/ GoOn(<<[Item EXCEPT !.do = Item.for]>>))
  BY DEF Array, Doing
<1> DEFINE y(do) == Declarator(do, Item.for, Item.type, Item.name)
<1>2. \A do : [Item EXCEPT !.do = do] = y(do)
  <2>1. Item = Declarator(Item.do, Item.for, Item.type, Item.name)
    BY <1>1, DeclaratorIs
  <2>2. QED
    BY <2>1, DeclaratorRedone
<1>3. Accept(<<y("dimension")>>) \/ GoOn(<<y(Item.for)>>)
  BY <1>1, <1>2
<1>4. \A do : y(do).do = do /\ y(do).for = Item.for
  BY DeclaratorFields
<1>5. \A do \in {"dimension", Item.for} : ItemOK(y(do), Len(fns), Len(structs), code, Generating)
  BY <1>1, DeclaratorIs
<1>6. ~ AtTop(Item) /\ Item.for # "unit"
  BY <1>1, DeclaratorIs
<1> HIDE DEF y
<1>7. CASE Accept(<<y("dimension")>>)
  BY <1>1, <1>4, <1>5, <1>6, <1>7, DeclaratorStep
<1>8. CASE GoOn(<<y(Item.for)>>)
  BY <1>1, <1>4, <1>5, <1>6, <1>8, DeclaratorStep
<1>9. QED BY <1>3, <1>7, <1>8

LEMMA DimensionStep ==
  ASSUME IInv, Dimension
  PROVE  IInv'
<1> DEFINE v == Literals[tk].value
           y(d) == [Item EXCEPT !.do = "endArray", !.type.dim = d]
           z(d) == Declarator("endArray", Item.for, WithDimension(Item.type, d), Item.name)
<1>1. status = "parsing" /\ Item.do = "dimension" /\ ParserOnly
      /\ ((tk \in DOMAIN Literals /\ Accept(<<y(v)>>)) \/ GoOn(<<y(0)>>))
  BY DEF Dimension, Doing
<1>2. PICK d \in Int : Accept(<<y(d)>>) \/ GoOn(<<y(d)>>)
  <2>1. tk \in DOMAIN Literals => v \in Int
    BY LiteralsAssumption
  <2> HIDE DEF v, y
  <2>2. QED
    BY <1>1, <2>1
<1>3. y(d) = z(d)
  <2>1. Item = Declarator(Item.do, Item.for, Item.type, Item.name)
    BY <1>1, DeclaratorIs
  <2>2. y(d) = Dimensioned(Item, "endArray", d)
    BY DEF Dimensioned
  <2>3. Dimensioned(Item, "endArray", d) = z(d)
    <3> HIDE DEF y
    <3> QED BY <2>1, DeclaratorDimensioned
  <2>4. QED
    BY <2>2, <2>3
<1>4. Proper(Item.type, Len(structs)) /\ ~ AtTop(Item) /\ Len(structs) \in Nat
  BY <1>1, DeclaratorIs, CurrentProper
<1>5. Proper(WithDimension(Item.type, d), Len(structs))
  BY <1>2, <1>4, DimensionProper
<1>6. ItemOK(z(d), Len(fns), Len(structs), code, Generating)
  BY <1>1, <1>5, DeclaratorIs
<1>7. z(d).do = "endArray" /\ z(d).for = Item.for
  BY DEF Declarator
<1>8. Accept(<<z(d)>>) \/ GoOn(<<z(d)>>)
  BY <1>2, <1>3
<1> HIDE DEF y, z
<1>9. QED
  BY <1>1, <1>4, <1>6, <1>7, <1>8, DeclaratorStep

LEMMA EndArrayStep ==
  ASSUME IInv, EndArray
  PROVE  IInv'
<1>1. CASE Fail
  BY <1>1, Failed
<1>2. CASE ~ Fail
  <2> DEFINE d == IF Item.for = "parameter" THEN 0 ELSE Item.type.dim
             y == [Item EXCEPT !.do = Item.for, !.type.dim = d]
             z == Declarator(Item.for, Item.for, WithDimension(Item.type, d), Item.name)
  <2>1. /\ status = "parsing" /\ Item.do = "endArray" /\ ParserOnly
        /\ Accept(<<[Item EXCEPT !.do = Item.for,
                                 !.type.dim = IF Item.for = "parameter" THEN 0 ELSE @]>>)
    BY <1>2 DEF EndArray, Doing, Need
  <2>2. Proper(Item.type, Len(structs)) /\ ~ AtTop(Item) /\ Len(structs) \in Nat /\ Item.for # "unit"
    BY <2>1, DeclaratorIs, CurrentProper
  <2>3. d \in Int
    BY <2>2 DEF Proper
  <2>4. Accept(<<y>>)
    BY <2>1
  <2> HIDE DEF d
  <2>5. y = z
    <3>1. Item = Declarator(Item.do, Item.for, Item.type, Item.name)
      BY <2>1, DeclaratorIs
    <3>2. y = Dimensioned(Item, Item.for, d)
      BY DEF Dimensioned
    <3>3. Dimensioned(Item, Item.for, d) = z
      <4> HIDE DEF y
      <4> QED BY <3>1, DeclaratorDimensioned
    <3>4. QED
      BY <3>2, <3>3
  <2>6. Proper(WithDimension(Item.type, d), Len(structs))
    BY <2>2, <2>3, DimensionProper
  <2>7. ItemOK(z, Len(fns), Len(structs), code, Generating)
    BY <2>1, <2>6, DeclaratorIs
  <2>8. z.do = z.for /\ z.for = Item.for
    BY DeclaratorFields
  <2>9. Accept(<<z>>)
    BY <2>4, <2>5
  <2> HIDE DEF y, z
  <2>10. QED
    BY <2>1, <2>2, <2>7, <2>8, <2>9, DeclaratorStep
<1>3. QED BY <1>1, <1>2

-----------------------------------------------------------------------------
(* The global level.                                                       *)

\* Nothing but the stack changes.
LEMMA TopParser ==
  ASSUME IInv, status = "parsing", ParserOnly, Item.do # "block",
         NEW items, IsSequence(items), Accept(items) \/ GoOn(items),
         \A k \in DOMAIN items : /\ ItemOK(items[k], Len(fns), Len(structs), code, Generating)
                                 /\ items[k].do # "block",
         Placed(todo'), OwnerFits(Base(todo'), owner, Len(fns), Len(structs))
  PROVE  IInv'
<1>1. free' \in Nat /\ todo' = items \o Tail(todo)
  BY ReadFree
<1>2. UNCHANGED <<r, domains, owner, fns, structs, globals, code, status, Generating>>
  BY DEF ParserOnly, table, Generating
<1>3. StateOK'
  BY <1>1, <1>2 DEF IInv, StateOK
<1>4. Keeping
  BY <1>2, LensNat, ContinuesReflexive DEF Keeping, Lens
<1>5. Nested(domains', owner', todo')
  <2>1. Opened(todo') = Opened(todo)
    BY <1>1, NestedAlike DEF Opens
  <2>2. QED
    BY <1>2, <2>1 DEF IInv, Nested
<1>6. QED
  BY <1>1, <1>2, <1>3, <1>4, <1>5, Step

\* Nobody owns a domain while the global level reads a type and a name.
LEMMA TopIs ==
  ASSUME IInv, status = "parsing", AtTop(Item)
  PROVE  /\ Placed(todo) /\ AtTop(todo[1]) /\ Base(todo) = Item.do
         /\ OwnerFits(Item.do, owner, Len(fns), Len(structs)) /\ Nested(domains, owner, todo)
         /\ Item.do \notin {"unit", "block"}
<1>1. Placed(todo) /\ AtTop(todo[1])
  BY DEF IInv, Item
<1>2. Base(todo) = Item.do
  <2>1. Len(todo) = 2
    BY <1>1, OnTop
  <2>2. QED
    BY <2>1 DEF Base, Item
<1>3. QED
  BY <1>1, <1>2 DEF IInv, AtTop, Owning, Reading

LEMMA TopReadStep ==
  ASSUME IInv, status = "parsing", ParserOnly, AtTop(Item), Item.do \notin Owning,
         NEW y, Accept(<<y>>) \/ GoOn(<<y>>), AtTop(y) \/ Loose(y), y.do \notin Owning,
         ItemOK(y, Len(fns), Len(structs), code, Generating)
  PROVE  IInv'
<1>1. Placed(todo) /\ AtTop(todo[1]) /\ OwnerFits(Item.do, owner, Len(fns), Len(structs))
      /\ Item.do # "block"
  BY TopIs
<1>2. owner = Nobody
  BY <1>1 DEF OwnerFits
<1>3. todo' = <<y>> \o Tail(todo)
  BY ReadFree
<1>4. Placed(todo') /\ Base(todo') = y.do
  BY <1>1, <1>3, TopNext
<1>5. OwnerFits(Base(todo'), owner, Len(fns), Len(structs))
  BY <1>2, <1>4 DEF OwnerFits, Owning, InHeading
<1>6. y.do # "block"
  BY DEF AtTop, Loose, Inside, Owning, Reading
<1> DEFINE items == <<y>>
<1>7. IsSequence(items)
  BY ShortSequences
<1>8. DOMAIN items = {1} /\ items[1] = y
  OBVIOUS
<1>9. Accept(items) \/ GoOn(items)
  OBVIOUS
<1> HIDE DEF items
<1>10. \A k \in DOMAIN items : /\ ItemOK(items[k], Len(fns), Len(structs), code, Generating)
                               /\ items[k].do # "block"
  BY <1>6, <1>8
<1>11. QED
  BY <1>1, <1>4, <1>5, <1>7, <1>9, <1>10, TopParser

\* A type or a name is read, at any level.
LEMMA ReadStep ==
  ASSUME IInv, status = "parsing", ParserOnly, Item.do \in Reading,
         NEW y, Accept(<<y>>) \/ GoOn(<<y>>),
         ItemOK(y, Len(fns), Len(structs), code, Generating),
         \/ y.do \in Reading \cup {"array"} /\ y.for = Item.for
         \/ y.do = "declaration" /\ Item.for = "unit"
  PROVE  IInv'
<1>1. CASE Item.for = "unit"
  <2>1. AtTop(Item) /\ Item.do \notin Owning
    BY <1>1 DEF AtTop, Owning, Reading
  <2>2. y.do # "array"
    BY <1>1 DEF ItemOK, Declaring
  <2>3. AtTop(y) /\ y.do \notin Owning
    BY <1>1, <2>2 DEF AtTop, Owning, Reading
  <2>4. QED
    BY <2>1, <2>3, TopReadStep
<1>2. CASE Item.for # "unit"
  <2>1. ~ AtTop(Item)
    BY <1>2 DEF AtTop, Owning, Reading
  <2>2. y.do \in Reading \cup {"array", "dimension", "endArray"} /\ y.for = Item.for /\ y.do # "unit"
    BY <1>2 DEF Reading
  <2>3. QED
    BY <2>1, <2>2, DeclaratorStep
<1>3. QED BY <1>1, <1>2

LEMMA TypedOK ==
  ASSUME NEW for \in {"unit", "variable", "parameter", "cast"}, NEW t, NEW nf, NEW ns, NEW c, NEW g,
         Proper(t, ns)
  PROVE  /\ ItemOK(Typed(for, t), nf, ns, c, g)
         /\ Typed(for, t).do \in Reading \cup {"array"} /\ Typed(for, t).for = for
<1>1. CASE for = "cast"
  <2> DEFINE y == Declarator("array", for, t, "")
  <2>1. y.do = "array" /\ y.for = for /\ y.type = t /\ y.name = ""
    BY DEF Declarator
  <2>2. y = Declarator(y.do, y.for, y.type, y.name)
    BY <2>1
  <2>3. Typed(for, t) = y
    BY <1>1 DEF Typed, Declarator
  <2> HIDE DEF y
  <2>4. ItemOK(y, nf, ns, c, g)
    BY <1>1, <2>1, <2>2 DEF ItemOK, WithType, Declaring
  <2>5. QED
    BY <2>1, <2>3, <2>4
<1>2. CASE for # "cast"
  <2> DEFINE y == [do |-> "name", for |-> for, type |-> t]
  <2>1. y.do = "name" /\ y.for = for /\ y.type = t
    OBVIOUS
  <2>2. Typed(for, t) = y
    BY <1>2 DEF Typed
  <2> HIDE DEF y
  <2>3. ItemOK(y, nf, ns, c, g)
    BY <1>2, <2>1 DEF ItemOK, WithType, Declaring
  <2>4. QED
    BY <2>1, <2>2, <2>3 DEF Reading
<1>3. QED BY <1>1, <1>2

LEMMA TypeBaseStep ==
  ASSUME IInv, TypeBase
  PROVE  IInv'
<1>1. status = "parsing" /\ Item.do = "type"
  BY DEF TypeBase, Doing
<1>2. Item.for \in {"unit", "variable", "parameter", "cast"} /\ Item.do \in Reading
  BY <1>1, ItemIs DEF ItemOK, Reading
<1>3. ASSUME NEW t, Proper(t, Len(structs)), Accept(<<Typed(Item.for, t)>>), ParserOnly
      PROVE  IInv'
  <2> DEFINE y == Typed(Item.for, t)
  <2>1. /\ ItemOK(y, Len(fns), Len(structs), code, Generating)
        /\ y.do \in Reading \cup {"array"} /\ y.for = Item.for
    BY <1>2, <1>3, TypedOK
  <2>2. Accept(<<y>>)
    BY <1>3
  <2> HIDE DEF y
  <2>3. QED
    BY <1>1, <1>2, <1>3, <2>1, <2>2, ReadStep
<1>4. CASE tk \in DOMAIN BaseOf /\ Accept(<<Typed(Item.for, Type(BaseOf[tk]))>>) /\ ParserOnly
  <2>1. BaseOf[tk] \in Arithmetic
    BY <1>4 DEF BaseOf, Arithmetic
  <2>2. Proper(Type(BaseOf[tk]), Len(structs))
    BY <2>1, TypeProper, CurrentProper
  <2>3. QED
    BY <1>3, <1>4, <2>2
<1>5. CASE tk = "struct" /\ Accept(<<[do |-> "structName", for |-> Item.for]>>) /\ ParserOnly
  <2> DEFINE y == [do |-> "structName", for |-> Item.for]
  <2>1. y.do = "structName" /\ y.for = Item.for
    OBVIOUS
  <2>2. Accept(<<y>>) /\ ParserOnly
    BY <1>5
  <2> HIDE DEF y
  <2>3. ItemOK(y, Len(fns), Len(structs), code, Generating)
    BY <1>2, <2>1 DEF ItemOK, WithType, Declaring
  <2>4. y.do \in Reading
    BY <2>1 DEF Reading
  <2>5. QED
    BY <1>1, <1>2, <2>1, <2>2, <2>3, <2>4, ReadStep
<1>6. ASSUME NEW d \in UnsetDimensions, Item.for = "unit",
             Accept(<<Typed("unit", [VoidT EXCEPT !.dim = d])>>), ParserOnly
      PROVE  IInv'
  <2>1. Proper([VoidT EXCEPT !.dim = d], Len(structs))
    BY UnsetAssumption, CurrentProper DEF Proper, VoidT, Type, Bases
  <2>2. QED
    BY <1>3, <1>6, <2>1
<1>7. CASE Fail
  BY <1>7, Failed
<1>8. QED
  BY <1>4, <1>5, <1>6, <1>7 DEF TypeBase

LEMMA StructNameStep ==
  ASSUME IInv, StructName
  PROVE  IInv'
<1>1. CASE Fail
  BY <1>1, Failed
<1>2. CASE ~ Fail
  <2> DEFINE y == [do |-> "structTag", for |-> Item.for, name |-> tk]
  <2>1. status = "parsing" /\ Item.do = "structName" /\ tk \in Names /\ Accept(<<y>>) /\ ParserOnly
    BY <1>2 DEF StructName, Doing, Need
  <2>2. y.do = "structTag" /\ y.for = Item.for /\ y.name = tk
    OBVIOUS
  <2> HIDE DEF y
  <2>3. ItemOK(y, Len(fns), Len(structs), code, Generating)
    BY <2>1, <2>2, ItemIs DEF ItemOK, WithType, Declaring
  <2>4. y.do \in Reading /\ Item.do \in Reading
    BY <2>1, <2>2 DEF Reading
  <2>5. QED
    BY <2>1, <2>2, <2>3, <2>4, ReadStep
<1>3. QED BY <1>1, <1>2

LEMMA NameStep ==
  ASSUME IInv, Name
  PROVE  IInv'
<1>1. CASE Fail
  BY <1>1, Failed
<1>2. CASE ~ Fail
  <2> DEFINE do == IF Item.for = "unit" THEN "declaration" ELSE "array"
             for == IF Item.for = "unit" THEN "variable" ELSE Item.for
             y == Declarator(do, for, Item.type, tk)
  <2>1. status = "parsing" /\ Item.do = "name" /\ tk \in Names /\ ParserOnly /\ Accept(<<y>>)
    BY <1>2 DEF Name, Doing, Need, Declarator
  <2>2. y = Declarator(y.do, y.for, y.type, y.name) /\ y.do = do /\ y.for = for /\ y.type = Item.type /\ y.name = tk
    BY DeclaratorFields
  <2> HIDE DEF y
  <2>3. Proper(Item.type, Len(structs)) /\ Item.for \in {"unit", "variable", "parameter"}
    BY <2>1, ItemIs DEF ItemOK, WithType
  <2>4. ItemOK(y, Len(fns), Len(structs), code, Generating)
    BY <2>1, <2>2, <2>3 DEF ItemOK, WithType, Declaring
  <2>5. Item.do \in Reading
    BY <2>1 DEF Reading
  <2>6. \/ y.do \in Reading \cup {"array"} /\ y.for = Item.for
        \/ y.do = "declaration" /\ Item.for = "unit"
    BY <2>2
  <2>7. QED
    BY <2>1, <2>4, <2>5, <2>6, ReadStep
<1>3. QED BY <1>1, <1>2
-----------------------------------------------------------------------------
(* The symbol tables.                                                      *)
LEMMA TablesAre ==
  ASSUME IInv
  PROVE  /\ SymbolsOK(domains, Len(fns), Len(structs), Len(globals))
         /\ IsSequence(domains) /\ Len(domains) \in Nat \ {0} /\ DOMAIN domains = 1 .. Len(domains)
         /\ FnsOK(fns, Len(structs), Len(code)) /\ StructsOK(structs) /\ IsSequence(globals)
         /\ Len(fns) \in Nat /\ Len(structs) \in Nat /\ Len(globals) \in Nat /\ Len(code) \in Nat
<1>1. IsSequence(domains) /\ domains # <<>> /\ SymbolsOK(domains, Len(fns), Len(structs), Len(globals))
      /\ FnsOK(fns, Len(structs), Len(code)) /\ StructsOK(structs) /\ IsSequence(globals)
  BY DEF IInv, TableOK, SymbolsOK
<1>2. Len(domains) \in Nat \ {0} /\ DOMAIN domains = 1 .. Len(domains)
  BY <1>1, SequenceProperties
<1>3. QED
  BY <1>1, <1>2, LensNat DEF Lens

LEMMA SymbolAdded ==
  ASSUME IInv, NEW nf \in Nat, NEW ns \in Nat, NEW ng \in Nat,
         SymbolsOK(domains, nf, ns, ng), NEW s, SymbolOK(s, nf, ns, ng)
  PROVE  SymbolsOK(AddSymbol(s), nf, ns, ng) /\ Len(AddSymbol(s)) = Len(domains)
<1> DEFINE n == Len(domains)
           new == domains[n] \cup {s}
           ds == [domains EXCEPT ![n] = new]
<1>1. IsSequence(domains) /\ n \in Nat \ {0} /\ DOMAIN domains = 1 .. n /\ n \in DOMAIN domains
  BY TablesAre
<1>2. AddSymbol(s) = ds
  BY DEF AddSymbol
<1>3. IsSequence(ds) /\ Len(ds) = n /\ \A j \in 1 .. n : ds[j] = IF j = n THEN new ELSE domains[j]
  <2> HIDE DEF new
  <2> QED BY <1>1, ExceptSequence
<1>4. \A u \in new : SymbolOK(u, nf, ns, ng)
  BY <1>1 DEF SymbolsOK
<1> HIDE DEF ds, new
<1>5. DOMAIN ds = 1 .. n /\ ds # <<>>
  BY <1>1, <1>3, SequenceProperties
<1>6. \A d \in DOMAIN ds : \A u \in ds[d] : SymbolOK(u, nf, ns, ng)
  BY <1>1, <1>3, <1>4, <1>5 DEF SymbolsOK
<1>7. QED
  BY <1>2, <1>3, <1>5, <1>6 DEF SymbolsOK

LEMMA DomainPushed ==
  ASSUME NEW ds, NEW nf, NEW ns, NEW ng, SymbolsOK(ds, nf, ns, ng)
  PROVE  SymbolsOK(PushDomain(ds), nf, ns, ng) /\ Len(PushDomain(ds)) = Len(ds) + 1
<1> DEFINE es == Append(ds, {})
           n == Len(ds)
<1>1. IsSequence(ds) /\ n \in Nat /\ DOMAIN ds = 1 .. n
  BY SequenceProperties DEF SymbolsOK
<1>2. IsSequence(es) /\ Len(es) = n + 1 /\ (\A i \in 1 .. n : es[i] = ds[i]) /\ es[n + 1] = {}
  BY <1>1, AppendSequence
<1>3. PushDomain(ds) = es
  BY DEF PushDomain
<1> HIDE DEF es
<1>4. DOMAIN es = 1 .. n + 1 /\ es # <<>>
  BY <1>1, <1>2, SequenceProperties
<1>5. \A d \in DOMAIN es : \A u \in es[d] : SymbolOK(u, nf, ns, ng)
  <2> TAKE d \in DOMAIN es
  <2>1. d = n + 1 \/ d \in 1 .. n
    BY <1>1, <1>4
  <2>2. QED
    BY <1>1, <1>2, <2>1 DEF SymbolsOK
<1>6. QED
  BY <1>2, <1>3, <1>4, <1>5 DEF SymbolsOK

\* drop_domain leaves one at least where two are open.
LEMMA DomainDropped ==
  ASSUME IInv, Len(domains) > 1, NEW nf, NEW ns, NEW ng, SymbolsOK(domains, nf, ns, ng)
  PROVE  SymbolsOK(DropDomain, nf, ns, ng) /\ Len(DropDomain) = Len(domains) - 1
<1> DEFINE es == Front(domains)
           n == Len(domains)
<1>1. IsSequence(domains) /\ n \in Nat \ {0} /\ DOMAIN domains = 1 .. n /\ domains # <<>>
  BY TablesAre DEF SymbolsOK
<1>2. IsSequence(es) /\ Len(es) = n - 1 /\ (\A i \in 1 .. n - 1 : es[i] = domains[i])
  BY <1>1, FrontSequence
<1>3. DropDomain = es
  BY DEF DropDomain
<1> HIDE DEF es
<1>4. DOMAIN es = 1 .. n - 1 /\ es # <<>>
  BY <1>1, <1>2, SequenceProperties
<1>5. \A d \in DOMAIN es : \A u \in es[d] : SymbolOK(u, nf, ns, ng)
  BY <1>1, <1>2, <1>4 DEF SymbolsOK
<1>6. QED
  BY <1>2, <1>3, <1>4, <1>5 DEF SymbolsOK

\* One entry of a table is given another value.
Put(s, i, x) == [s EXCEPT ![i] = x]

LEMMA PutSequence ==
  ASSUME NEW s, NEW x, IsSequence(s), NEW i \in DOMAIN s
  PROVE  /\ IsSequence(Put(s, i, x)) /\ Len(Put(s, i, x)) = Len(s)
         /\ \A j \in 1 .. Len(s) : Put(s, i, x)[j] = IF j = i THEN x ELSE s[j]
  BY ExceptSequence DEF Put

\* A function is given another entry.
LEMMA FnSet ==
  ASSUME NEW fs, NEW ns \in Nat, NEW nc \in Nat, NEW mc \in Nat, nc <= mc, FnsOK(fs, ns, nc),
         NEW i \in DOMAIN fs, NEW x, FnOK(x, ns, mc)
  PROVE  FnsOK(Put(fs, i, x), ns, mc) /\ Len(Put(fs, i, x)) = Len(fs)
<1> DEFINE gs == Put(fs, i, x)
<1>1. IsSequence(fs) /\ DOMAIN fs = 1 .. Len(fs) /\ DOMAIN gs = 1 .. Len(fs)
  BY SequenceProperties DEF FnsOK, Put
<1>2. IsSequence(gs) /\ Len(gs) = Len(fs) /\ \A j \in 1 .. Len(fs) : gs[j] = IF j = i THEN x ELSE fs[j]
  BY <1>1, PutSequence
<1> HIDE DEF gs
<1>3. \A j \in DOMAIN gs : FnOK(gs[j], ns, mc)
  BY <1>1, <1>2, FnMonotonic DEF FnsOK
<1>4. QED
  BY <1>2, <1>3 DEF FnsOK, gs

LEMMA FnAppended ==
  ASSUME NEW fs, NEW ns, NEW nc, FnsOK(fs, ns, nc), NEW x, FnOK(x, ns, nc)
  PROVE  FnsOK(Append(fs, x), ns, nc) /\ Len(Append(fs, x)) = Len(fs) + 1
<1> DEFINE gs == Append(fs, x)
<1>1. IsSequence(fs) /\ DOMAIN fs = 1 .. Len(fs) /\ Len(fs) \in Nat
  BY SequenceProperties DEF FnsOK
<1>2. IsSequence(gs) /\ Len(gs) = Len(fs) + 1 /\ (\A i \in 1 .. Len(fs) : gs[i] = fs[i]) /\ gs[Len(fs) + 1] = x
  BY <1>1, AppendSequence
<1> HIDE DEF gs
<1>3. DOMAIN gs = 1 .. Len(fs) + 1
  BY <1>2, SequenceProperties
<1>4. \A j \in DOMAIN gs : FnOK(gs[j], ns, nc)
  <2> TAKE j \in DOMAIN gs
  <2>1. j = Len(fs) + 1 \/ j \in 1 .. Len(fs)
    BY <1>1, <1>3
  <2>2. QED
    BY <1>1, <1>2, <2>1 DEF FnsOK
<1>5. QED
  BY <1>2, <1>4 DEF FnsOK, gs

LEMMA TypeAppended ==
  ASSUME NEW s, NEW ns, TypeList(s, ns), NEW t, Proper(t, ns)
  PROVE  TypeList(Append(s, t), ns)
<1> DEFINE u == Append(s, t)
<1>1. IsSequence(s) /\ DOMAIN s = 1 .. Len(s) /\ Len(s) \in Nat
  BY SequenceProperties DEF TypeList
<1>2. IsSequence(u) /\ Len(u) = Len(s) + 1 /\ (\A i \in 1 .. Len(s) : u[i] = s[i]) /\ u[Len(s) + 1] = t
  BY <1>1, AppendSequence
<1> HIDE DEF u
<1>3. DOMAIN u = 1 .. Len(s) + 1
  BY <1>2, SequenceProperties
<1>4. \A j \in DOMAIN u : Proper(u[j], ns)
  <2> TAKE j \in DOMAIN u
  <2>1. j = Len(s) + 1 \/ j \in 1 .. Len(s)
    BY <1>1, <1>3
  <2>2. QED
    BY <1>1, <1>2, <2>1 DEF TypeList
<1>5. QED
  BY <1>2, <1>4 DEF TypeList, u

LEMMA FnFields ==
  ASSUME NEW ty, NEW ps, NEW ls, NEW de, NEW ex, NEW fi
  PROVE  /\ Fn(ty, ps, ls, de, ex, fi).type = ty /\ Fn(ty, ps, ls, de, ex, fi).params = ps
         /\ Fn(ty, ps, ls, de, ex, fi).locals = ls /\ Fn(ty, ps, ls, de, ex, fi).declaration = de
         /\ Fn(ty, ps, ls, de, ex, fi).extern = ex /\ Fn(ty, ps, ls, de, ex, fi).first = fi
  BY DEF Fn

LEMMA FnIs ==
  ASSUME NEW ty, NEW ps, NEW ls, NEW de, NEW ex, NEW fi, NEW ns, NEW nc,
         Proper(ty, ns), TypeList(ps, ns), TypeList(ls, ns), fi \in 0 .. nc
  PROVE  FnOK(Fn(ty, ps, ls, de, ex, fi), ns, nc)
<1> DEFINE f == Fn(ty, ps, ls, de, ex, fi)
<1>1. f.type = ty /\ f.params = ps /\ f.locals = ls /\ f.declaration = de /\ f.extern = ex /\ f.first = fi
  BY FnFields
<1>2. f = Fn(f.type, f.params, f.locals, f.declaration, f.extern, f.first)
  BY <1>1
<1> HIDE DEF f
<1>3. QED
  BY <1>1, <1>2 DEF FnOK, f

\* The four fields of a function that the parser sets.
WithParams(f, ps) == [f EXCEPT !.params = ps]
WithLocals(f, ls) == [f EXCEPT !.locals = ls]
WithDeclaration(f, de) == [f EXCEPT !.declaration = de]
WithFirst(f, fi) == [f EXCEPT !.first = fi]

LEMMA FnFieldSet ==
  ASSUME NEW f, NEW ns \in Nat, NEW nc \in Nat, NEW mc \in Nat, nc <= mc, FnOK(f, ns, nc)
  PROVE  /\ \A ps : TypeList(ps, ns) => FnOK(WithParams(f, ps), ns, mc)
         /\ \A ls : TypeList(ls, ns) => FnOK(WithLocals(f, ls), ns, mc)
         /\ \A de : FnOK(WithDeclaration(f, de), ns, mc)
         /\ \A fi \in 0 .. mc : FnOK(WithFirst(f, fi), ns, mc)
<1> DEFINE g == Fn(f.type, f.params, f.locals, f.declaration, f.extern, f.first)
<1>1. /\ f = g /\ Proper(f.type, ns) /\ TypeList(f.params, ns) /\ TypeList(f.locals, ns)
      /\ f.first \in 0 .. mc
  BY DEF FnOK
<1>2. ASSUME NEW x, TypeList(x, ns) PROVE FnOK(WithParams(f, x), ns, mc)
  <2>1. WithParams(g, x) = Fn(f.type, x, f.locals, f.declaration, f.extern, f.first)
    BY DEF Fn, WithParams
  <2> HIDE DEF g
  <2>2. QED
    BY <1>1, <1>2, <2>1, FnIs
<1>3. ASSUME NEW x, TypeList(x, ns) PROVE FnOK(WithLocals(f, x), ns, mc)
  <2>1. WithLocals(g, x) = Fn(f.type, f.params, x, f.declaration, f.extern, f.first)
    BY DEF Fn, WithLocals
  <2> HIDE DEF g
  <2>2. QED
    BY <1>1, <1>3, <2>1, FnIs
<1>4. ASSUME NEW x PROVE FnOK(WithDeclaration(f, x), ns, mc)
  <2>1. WithDeclaration(g, x) = Fn(f.type, f.params, f.locals, x, f.extern, f.first)
    BY DEF Fn, WithDeclaration
  <2> HIDE DEF g
  <2>2. QED
    BY <1>1, <2>1, FnIs
<1>5. ASSUME NEW x \in 0 .. mc PROVE FnOK(WithFirst(f, x), ns, mc)
  <2>1. WithFirst(g, x) = Fn(f.type, f.params, f.locals, f.declaration, f.extern, x)
    BY DEF Fn, WithFirst
  <2> HIDE DEF g
  <2>2. QED
    BY <1>1, <2>1, FnIs
<1>6. QED
  BY <1>2, <1>3, <1>4, <1>5

LEMMA FnChanged ==
  ASSUME IInv, NEW i \in DOMAIN fns, NEW mc \in Nat, Len(code) <= mc
  PROVE  /\ \A ps : TypeList(ps, Len(structs)) =>
              /\ FnsOK(Put(fns, i, WithParams(fns[i], ps)), Len(structs), mc)
              /\ Len(Put(fns, i, WithParams(fns[i], ps))) = Len(fns)
         /\ \A ls : TypeList(ls, Len(structs)) =>
              /\ FnsOK(Put(fns, i, WithLocals(fns[i], ls)), Len(structs), mc)
              /\ Len(Put(fns, i, WithLocals(fns[i], ls))) = Len(fns)
         /\ \A de :
              /\ FnsOK(Put(fns, i, WithDeclaration(fns[i], de)), Len(structs), mc)
              /\ Len(Put(fns, i, WithDeclaration(fns[i], de))) = Len(fns)
         /\ \A fi \in 0 .. mc :
              /\ FnsOK(Put(fns, i, WithFirst(fns[i], fi)), Len(structs), mc)
              /\ Len(Put(fns, i, WithFirst(fns[i], fi))) = Len(fns)
<1>1. /\ FnsOK(fns, Len(structs), Len(code)) /\ Len(structs) \in Nat /\ Len(code) \in Nat
      /\ FnOK(fns[i], Len(structs), Len(code))
  BY TablesAre DEF FnsOK
<1>2. ASSUME NEW x, FnOK(x, Len(structs), mc)
      PROVE  /\ FnsOK(Put(fns, i, x), Len(structs), mc)
             /\ Len(Put(fns, i, x)) = Len(fns)
  BY <1>1, <1>2, FnSet
<1>3. /\ \A ps : TypeList(ps, Len(structs)) => FnOK(WithParams(fns[i], ps), Len(structs), mc)
      /\ \A ls : TypeList(ls, Len(structs)) => FnOK(WithLocals(fns[i], ls), Len(structs), mc)
      /\ \A de : FnOK(WithDeclaration(fns[i], de), Len(structs), mc)
      /\ \A fi \in 0 .. mc : FnOK(WithFirst(fns[i], fi), Len(structs), mc)
  BY <1>1, FnFieldSet
<1>4. QED
  BY <1>2, <1>3

\* A struct is given another list of members.
LEMMA StructSet ==
  ASSUME NEW ss, StructsOK(ss), NEW i \in DOMAIN ss, NEW u, StructOK(u, i)
  PROVE  StructsOK(Put(ss, i, u)) /\ Len(Put(ss, i, u)) = Len(ss)
<1> DEFINE us == Put(ss, i, u)
<1>1. IsSequence(ss) /\ DOMAIN ss = 1 .. Len(ss) /\ DOMAIN us = 1 .. Len(ss)
  BY SequenceProperties DEF StructsOK, Put
<1>2. IsSequence(us) /\ Len(us) = Len(ss) /\ \A j \in 1 .. Len(ss) : us[j] = IF j = i THEN u ELSE ss[j]
  BY <1>1, PutSequence
<1> HIDE DEF us
<1>3. \A j \in DOMAIN us : StructOK(us[j], j)
  BY <1>1, <1>2 DEF StructsOK
<1>4. QED
  BY <1>2, <1>3 DEF StructsOK, us

LEMMA MemberAppended ==
  ASSUME NEW s, NEW k, StructOK(s, k), NEW m, Proper(m.type, k)
  PROVE  StructOK(Append(s, m), k)
<1> DEFINE u == Append(s, m)
<1>1. IsSequence(s) /\ DOMAIN s = 1 .. Len(s) /\ Len(s) \in Nat
  BY SequenceProperties DEF StructOK
<1>2. IsSequence(u) /\ Len(u) = Len(s) + 1 /\ (\A i \in 1 .. Len(s) : u[i] = s[i]) /\ u[Len(s) + 1] = m
  BY <1>1, AppendSequence
<1> HIDE DEF u
<1>3. DOMAIN u = 1 .. Len(s) + 1
  BY <1>2, SequenceProperties
<1>4. \A j \in DOMAIN u : Proper(u[j].type, k)
  <2> TAKE j \in DOMAIN u
  <2>1. j = Len(s) + 1 \/ j \in 1 .. Len(s)
    BY <1>1, <1>3
  <2>2. QED
    BY <1>1, <1>2, <2>1 DEF StructOK
<1>5. QED
  BY <1>2, <1>4 DEF StructOK, u

LEMMA StructBegun ==
  ASSUME NEW ss, StructsOK(ss)
  PROVE  StructsOK(Append(ss, <<>>)) /\ Len(Append(ss, <<>>)) = Len(ss) + 1
<1> DEFINE none == <<>>
           us == Append(ss, none)
           k == Len(ss)
<1>1. IsSequence(ss) /\ DOMAIN ss = 1 .. k /\ k \in Nat
  BY SequenceProperties DEF StructsOK
<1>2. StructOK(none, k + 1)
  <2>1. IsSequence(none)
    BY ShortSequences
  <2>2. DOMAIN none = {}
    OBVIOUS
  <2> HIDE DEF none
  <2>3. QED
    BY <2>1, <2>2 DEF StructOK
<1> HIDE DEF none
<1>3. IsSequence(us) /\ Len(us) = k + 1 /\ (\A i \in 1 .. k : us[i] = ss[i]) /\ us[k + 1] = none
  BY <1>1, AppendSequence
<1> HIDE DEF us
<1>4. DOMAIN us = 1 .. k + 1
  BY <1>3, SequenceProperties
<1>5. \A j \in DOMAIN us : StructOK(us[j], j)
  <2> TAKE j \in DOMAIN us
  <2>1. j = k + 1 \/ j \in 1 .. k
    BY <1>1, <1>4
  <2>2. QED
    BY <1>1, <1>2, <1>3, <2>1 DEF StructsOK
<1>6. QED
  BY <1>3, <1>5 DEF StructsOK, us, none

-----------------------------------------------------------------------------
(* Steps that change the symbol table.                                     *)
Owned(o) == IF o = Nobody THEN 0 ELSE 1

\* A domain is opened for an owner and closed with it.
LEMMA TableStep ==
  ASSUME IInv, status = "parsing", UNCHANGED status, UNCHANGED r, Item.do # "block",
         NEW items, IsSequence(items), Accept(items) \/ GoOn(items),
         \A k \in DOMAIN items :
            ItemOK(items[k], Len(fns'), Len(structs'), code', Generating') /\ ~ Opens(items[k]),
         TableOK(domains', fns', structs', globals', Len(code')), CodeOK(code', Len(code')),
         OwnerOK(owner', Len(fns'), Len(structs')), Len(structs) <= Len(structs'),
         Placed(todo'), OwnerFits(Base(todo'), owner', Len(fns'), Len(structs')),
         Len(domains') - Owned(owner') = Len(domains) - Owned(owner),
         Keeping \/ AtTop(Item)
  PROVE  IInv'
<1>1. free' \in Nat /\ todo' = items \o Tail(todo)
  BY ReadFree
<1>2. /\ Len(domains) \in Nat /\ Len(domains') \in Nat
      /\ Len(structs) \in Nat /\ Len(structs') \in Nat
  BY TablesAre, SequenceProperties DEF TableOK, SymbolsOK, StructsOK
<1>3. ValueOK(r', Len(structs'))
  BY <1>2, ProperMonotonic DEF IInv, ValueOK
<1>4. Nested(domains', owner', todo')
  <2>1. Opened(todo') = Opened(todo) /\ Opened(todo) \in Nat
    BY <1>1, NestedAlike
  <2>2. Len(domains) = 1 + Opened(todo) + Owned(owner)
    BY DEF IInv, Nested, Owned
  <2>3. Owned(owner) \in Nat /\ Owned(owner') \in Nat
    BY DEF Owned
  <2>4. Len(domains') = 1 + Opened(todo') + Owned(owner')
    BY <1>2, <2>1, <2>2, <2>3
  <2>5. QED
    BY <2>4 DEF Nested, Owned
<1>5. QED
  BY <1>1, <1>3, <1>4, Step DEF StateOK

LEMMA UnitStep ==
  ASSUME IInv, Unit
  PROVE  IInv'
<1>1. status = "parsing" /\ Item.do = "unit"
  BY DEF Unit, Doing
<1>2. CASE End("done")
  BY <1>2, Ended
<1>3. CASE Fail
  BY <1>3, Failed
<1>4. CASE GoOn(<<ReadType("unit"), Item>>) /\ ParserOnly
  <2> DEFINE y == ReadType("unit")
             u == Item
             items == <<y, u>>
  <2>1. Placed(todo) /\ OwnerFits(Base(todo), owner, Len(fns), Len(structs)) /\ Base(todo) = "unit"
    BY <1>1, OnTop DEF IInv, Item, Base
  <2>2. owner = Nobody
    BY <2>1 DEF OwnerFits, Owning
  <2>3. y.do = "type" /\ y.for = "unit"
    BY DEF ReadType
  <2>4. u.do = "unit" /\ ItemOK(u, Len(fns), Len(structs), code, Generating)
    BY <1>1, ItemIs
  <2>5. IsSequence(items) /\ DOMAIN items = {1, 2} /\ items[1] = y /\ items[2] = u
    <3>1. IsSequence(items)
      BY ShortSequences
    <3>2. QED
      BY <3>1
  <2>6. GoOn(items) /\ ParserOnly
    BY <1>4
  <2> HIDE DEF y
  <2>7. AtTop(y) /\ ItemOK(y, Len(fns), Len(structs), code, Generating)
    BY <2>3 DEF AtTop, Reading, ItemOK, Declaring, WithType
  <2>8. Placed(todo') /\ Base(todo') = "type"
    <3>1. todo' = <<y, todo[1]>> \o Tail(todo)
      BY <2>6, ReadFree DEF Item
    <3>2. QED
      BY <1>1, <2>1, <2>3, <2>7, <3>1, TopBegins DEF Item
  <2>9. OwnerFits(Base(todo'), owner, Len(fns), Len(structs))
    BY <2>2, <2>8 DEF OwnerFits, Owning, InHeading
  <2> HIDE DEF u, items
  <2>10. \A k \in DOMAIN items : /\ ItemOK(items[k], Len(fns), Len(structs), code, Generating)
                                 /\ items[k].do # "block"
    BY <2>3, <2>4, <2>5, <2>7
  <2>11. QED
    BY <1>1, <2>5, <2>6, <2>8, <2>9, <2>10, TopParser
<1>5. QED
  BY <1>2, <1>3, <1>4 DEF Unit, Need

\* The global level calls for y, z to follow; or goes on with y; or is done.
LEMMA TopCallsStep ==
  ASSUME IInv, status = "parsing", ParserOnly, AtTop(Item),
         NEW y, NEW z, Accept(<<y, z>>) \/ GoOn(<<y, z>>), AtTop(z), Above(z, y),
         y.do \in Simple \cup {"type"}, y.do # "block",
         ItemOK(y, Len(fns), Len(structs), code, Generating),
         ItemOK(z, Len(fns), Len(structs), code, Generating),
         OwnerFits(z.do, owner, Len(fns), Len(structs))
  PROVE  IInv'
<1> DEFINE items == <<y, z>>
<1>1. Placed(todo) /\ AtTop(todo[1]) /\ Item.do # "block"
  BY TopIs
<1>2. Placed(todo') /\ Base(todo') = z.do
  <2>1. todo' = <<y, z>> \o Tail(todo)
    BY ReadFree
  <2>2. QED
    BY <1>1, <2>1, TopCalls
<1>3. IsSequence(items) /\ DOMAIN items = {1, 2} /\ items[1] = y /\ items[2] = z
  <2>1. IsSequence(items)
    BY ShortSequences
  <2>2. QED
    BY <2>1
<1>4. Accept(items) \/ GoOn(items)
  OBVIOUS
<1>5. z.do # "block"
  BY DEF AtTop, Owning, Reading
<1> HIDE DEF items
<1>6. \A k \in DOMAIN items : /\ ItemOK(items[k], Len(fns), Len(structs), code, Generating)
                              /\ items[k].do # "block"
  BY <1>3, <1>5
<1>7. QED
  BY <1>1, <1>2, <1>3, <1>4, <1>6, TopParser

LEMMA TopNextStep ==
  ASSUME IInv, status = "parsing", ParserOnly, AtTop(Item),
         NEW y, Accept(<<y>>) \/ GoOn(<<y>>), AtTop(y),
         ItemOK(y, Len(fns), Len(structs), code, Generating),
         OwnerFits(y.do, owner, Len(fns), Len(structs))
  PROVE  IInv'
<1> DEFINE items == <<y>>
<1>1. Placed(todo) /\ AtTop(todo[1]) /\ Item.do # "block"
  BY TopIs
<1>2. Placed(todo') /\ Base(todo') = y.do
  <2>1. todo' = <<y>> \o Tail(todo)
    BY ReadFree
  <2>2. QED
    BY <1>1, <2>1, TopNext
<1>3. IsSequence(items) /\ DOMAIN items = {1} /\ items[1] = y
  <2>1. IsSequence(items)
    BY ShortSequences
  <2>2. QED
    BY <2>1
<1>4. Accept(items) \/ GoOn(items)
  OBVIOUS
<1>5. y.do # "block"
  BY DEF AtTop, Owning, Reading
<1> HIDE DEF items
<1>6. \A k \in DOMAIN items : /\ ItemOK(items[k], Len(fns), Len(structs), code, Generating)
                              /\ items[k].do # "block"
  BY <1>3, <1>5
<1>7. QED
  BY <1>1, <1>2, <1>3, <1>4, <1>6, TopParser

LEMMA MembersStep ==
  ASSUME IInv, Members
  PROVE  IInv'
<1>1. status = "parsing" /\ Item.do = "members"
  BY DEF Members, Doing
<1>2. AtTop(Item) /\ OwnerFits("members", owner, Len(fns), Len(structs))
  BY <1>1, TopIs DEF AtTop, Owning
<1>3. CASE GoOn(<<ReadType("variable"), Item>>) /\ ParserOnly
  <2> DEFINE y == ReadType("variable")
  <2>1. y.do = "type" /\ y.for = "variable"
    BY DEF ReadType
  <2>2. GoOn(<<y, Item>>) /\ ParserOnly
    BY <1>3
  <2> HIDE DEF y
  <2>3. ItemOK(y, Len(fns), Len(structs), code, Generating)
    BY <2>1 DEF ItemOK, Declaring, WithType
  <2>4. Above(Item, y)
    BY <1>1, <2>1 DEF Above, AtTop, Heading, Inside, Owning, Reading, InHeading
  <2>5. ItemOK(Item, Len(fns), Len(structs), code, Generating)
    BY <1>1, ItemIs
  <2>6. QED
    BY <1>1, <1>2, <2>1, <2>2, <2>3, <2>4, <2>5, TopCallsStep
<1>4. CASE Fail
  BY <1>4, Failed
<1>5. CASE Accept(<<Do("endStruct")>>) /\ ParserOnly
  <2> DEFINE y == Do("endStruct")
  <2>1. y.do = "endStruct"
    BY DEF Do
  <2>2. Accept(<<y>>) /\ ParserOnly
    BY <1>5
  <2> HIDE DEF y
  <2>3. AtTop(y) /\ ItemOK(y, Len(fns), Len(structs), code, Generating)
    BY <2>1, SimpleOK DEF AtTop, Owning, Simple
  <2>4. OwnerFits("endStruct", owner, Len(fns), Len(structs))
    BY <1>2 DEF OwnerFits, Owning, InHeading
  <2>5. QED
    BY <1>1, <1>2, <2>1, <2>2, <2>3, <2>4, TopNextStep
<1>6. QED
  BY <1>3, <1>4, <1>5 DEF Members, Need

\* What the heading of a function goes on with.
LEMMA HeadingStep ==
  ASSUME IInv, status = "parsing", ParserOnly, Item.do \in {"parameters", "moreParameters"},
         \/ Accept(<<ReadType("parameter"), Do("moreParameters")>>)
         \/ GoOn(<<ReadType("parameter"), Do("moreParameters")>>)
         \/ GoOn(<<ReadToken(")"), Do("body")>>)
  PROVE  IInv'
<1>1. AtTop(Item) /\ OwnerFits(Item.do, owner, Len(fns), Len(structs))
  BY TopIs DEF AtTop, Owning
<1>2. \A what \in {"moreParameters", "body"} :
         /\ Do(what).do = what /\ AtTop(Do(what))
         /\ OwnerFits(Do(what).do, owner, Len(fns), Len(structs))
         /\ ItemOK(Do(what), Len(fns), Len(structs), code, Generating)
  <2> TAKE what \in {"moreParameters", "body"}
  <2>1. Do(what).do = what
    BY DEF Do
  <2>2. AtTop(Do(what)) /\ Do(what).do \in Simple
    BY <2>1 DEF AtTop, Owning, Simple
  <2>3. OwnerFits(what, owner, Len(fns), Len(structs))
    BY <1>1 DEF OwnerFits, InHeading, Owning
  <2>4. QED
    BY <2>1, <2>2, <2>3, SimpleOK
<1>3. CASE \/ Accept(<<ReadType("parameter"), Do("moreParameters")>>)
           \/ GoOn(<<ReadType("parameter"), Do("moreParameters")>>)
  <2> DEFINE y == ReadType("parameter")
             z == Do("moreParameters")
  <2>1. y.do = "type" /\ y.for = "parameter"
    BY DEF ReadType
  <2>2. z.do = "moreParameters" /\ AtTop(z) /\ OwnerFits(z.do, owner, Len(fns), Len(structs))
        /\ ItemOK(z, Len(fns), Len(structs), code, Generating)
    BY <1>2
  <2>3. Accept(<<y, z>>) \/ GoOn(<<y, z>>)
    BY <1>3
  <2> HIDE DEF y, z
  <2>4. ItemOK(y, Len(fns), Len(structs), code, Generating)
    BY <2>1 DEF ItemOK, Declaring, WithType
  <2>5. Above(z, y)
    BY <2>1, <2>2 DEF Above, AtTop, Heading, Inside, Owning, Reading, InHeading
  <2>6. QED
    BY <1>1, <2>1, <2>2, <2>3, <2>4, <2>5, TopCallsStep
<1>4. CASE GoOn(<<ReadToken(")"), Do("body")>>)
  <2> DEFINE y == ReadToken(")")
             z == Do("body")
  <2>1. y.do = "token"
    BY DEF ReadToken
  <2>2. z.do = "body" /\ AtTop(z) /\ OwnerFits(z.do, owner, Len(fns), Len(structs))
        /\ ItemOK(z, Len(fns), Len(structs), code, Generating)
    BY <1>2
  <2>3. GoOn(<<y, z>>)
    BY <1>4
  <2> HIDE DEF y, z
  <2>4. ItemOK(y, Len(fns), Len(structs), code, Generating) /\ y.do \in Simple
    BY <2>1, SimpleOK DEF Simple
  <2>5. Above(z, y)
    BY <2>1, <2>2 DEF Above, AtTop, Heading, Inside, Owning, Reading, InHeading
  <2>6. QED
    BY <1>1, <2>1, <2>2, <2>3, <2>4, <2>5, TopCallsStep
<1>5. QED
  BY <1>3, <1>4

LEMMA ParametersStep ==
  ASSUME IInv, Parameters
  PROVE  IInv'
  BY HeadingStep DEF Parameters, Doing

LEMMA MoreParametersStep ==
  ASSUME IInv, MoreParameters
  PROVE  IInv'
<1>1. status = "parsing" /\ Item.do = "moreParameters" /\ ParserOnly
  BY DEF MoreParameters, Doing
<1>2. CASE Accept(<<ReadType("parameter"), Item>>)
  <2>1. AtTop(Item) /\ OwnerFits(Item.do, owner, Len(fns), Len(structs))
        /\ ItemOK(Item, Len(fns), Len(structs), code, Generating)
    BY <1>1, TopIs, ItemIs DEF AtTop, Owning
  <2> DEFINE y == ReadType("parameter")
  <2>2. y.do = "type" /\ y.for = "parameter"
    BY DEF ReadType
  <2>3. Accept(<<y, Item>>)
    BY <1>2
  <2> HIDE DEF y
  <2>4. ItemOK(y, Len(fns), Len(structs), code, Generating)
    BY <2>2 DEF ItemOK, Declaring, WithType
  <2>5. Above(Item, y)
    BY <1>1, <2>2 DEF Above, AtTop, Heading, Inside, Owning, Reading, InHeading
  <2>6. QED
    BY <1>1, <2>1, <2>2, <2>3, <2>4, <2>5, TopCallsStep
<1>3. CASE GoOn(<<ReadToken(")"), Do("body")>>)
  BY <1>1, <1>3, HeadingStep
<1>4. QED
  BY <1>2, <1>3 DEF MoreParameters

\* A definition begins: a domain is opened, and somebody owns it.
LEMMA TopBeginsStep ==
  ASSUME IInv, status = "parsing", UNCHANGED status, UNCHANGED r, UNCHANGED code, AtTop(Item),
         Item.do \notin Owning, NEW what \in {"members", "parameters"}, Accept(<<Do(what)>>),
         TableOK(domains', fns', structs', globals', Len(code)), Len(domains') = Len(domains) + 1,
         OwnerOK(owner', Len(fns'), Len(structs')), owner' # Nobody,
         Len(structs) <= Len(structs'), OwnerFits(what, owner', Len(fns'), Len(structs'))
  PROVE  IInv'
<1> DEFINE y == Do(what)
           items == <<y>>
<1>1. y.do = what
  BY DEF Do
<1>2. IsSequence(items) /\ DOMAIN items = {1} /\ items[1] = y
  <2>1. IsSequence(items)
    BY ShortSequences
  <2>2. QED
    BY <2>1
<1>3. Accept(items) /\ todo' = <<y>> \o Tail(todo)
  BY ReadFree
<1> HIDE DEF y, items
<1>4. AtTop(y) /\ y.do \in Simple /\ ~ Opens(y)
  BY <1>1 DEF AtTop, Owning, Simple, Opens
<1>5. Placed(todo') /\ Base(todo') = what
  BY <1>1, <1>3, <1>4, TopIs, TopNext
<1>6. \A k \in DOMAIN items :
         ItemOK(items[k], Len(fns'), Len(structs'), code', Generating') /\ ~ Opens(items[k])
  BY <1>2, <1>4, SimpleOK
<1>7. owner = Nobody /\ Item.do # "block"
  BY TopIs DEF OwnerFits
<1>8. Len(domains') - Owned(owner') = Len(domains) - Owned(owner)
  BY <1>7, TablesAre DEF Owned
<1>9. CodeOK(code', Len(code')) /\ code' = code
  BY DEF IInv
<1>10. QED
  BY <1>2, <1>3, <1>5, <1>6, <1>7, <1>8, <1>9, TableStep

\* A definition ends, and its domain with it.
LEMMA TopOverStep ==
  ASSUME IInv, status = "parsing", UNCHANGED status, UNCHANGED r, AtTop(Item), Item.do \in Owning,
         Accept(<<>>) \/ GoOn(<<>>), domains' = DropDomain, owner' = Nobody,
         UNCHANGED structs, UNCHANGED globals, CodeOK(code', Len(code')),
         FnsOK(fns', Len(structs), Len(code')), Len(fns') = Len(fns)
  PROVE  IInv'
<1> DEFINE items == <<>>
<1>1. IsSequence(items) /\ DOMAIN items = {}
  <2>1. IsSequence(items)
    BY ShortSequences
  <2>2. QED
    BY <2>1
<1>2. (Accept(items) \/ GoOn(items)) /\ todo' = <<>> \o Tail(todo)
  BY ReadFree
<1> HIDE DEF items
<1>3. Placed(todo') /\ Base(todo') = "unit"
  BY <1>2, TopIs, TopOver
<1>4. owner # Nobody /\ Nested(domains, owner, todo) /\ Item.do # "block"
  BY TopIs DEF OwnerFits, Owning, InHeading, Nobody
<1>5. Len(domains) > 1 /\ Len(domains) \in Nat
  <2>1. Opened(todo) \in Nat /\ Len(domains) = 1 + Opened(todo) + 1
    BY <1>4, OpenedFinite DEF Nested, IInv, Placed
  <2>2. QED
    BY <2>1
<1>6. SymbolsOK(domains', Len(fns'), Len(structs'), Len(globals')) /\ Len(domains') = Len(domains) - 1
  <2>1. SymbolsOK(domains, Len(fns'), Len(structs'), Len(globals'))
    BY TablesAre
  <2>2. QED
    BY <1>5, <2>1, DomainDropped
<1>7. TableOK(domains', fns', structs', globals', Len(code'))
  BY <1>6, TablesAre DEF TableOK
<1>8. Len(domains') - Owned(owner') = Len(domains) - Owned(owner)
  BY <1>4, <1>5, <1>6 DEF Owned
<1>9. OwnerOK(owner', Len(fns'), Len(structs')) /\ OwnerFits("unit", owner', Len(fns'), Len(structs'))
  BY DEF OwnerOK, OwnerFits, InHeading, Owning
<1>10. Len(structs) <= Len(structs')
  BY TablesAre
<1>11. QED
  BY <1>1, <1>2, <1>3, <1>4, <1>7, <1>8, <1>9, <1>10, TableStep

LEMMA StructTagStep ==
  ASSUME IInv, StructTag
  PROVE  IInv'
<1>1. status = "parsing" /\ Item.do = "structTag"
  BY DEF StructTag, Doing
<1>2. /\ Item.for \in {"unit", "variable", "parameter", "cast"} /\ Item.name \in Names
      /\ Item.do \in Reading
  BY <1>1, ItemIs DEF ItemOK, Reading
<1>3. CASE Fail
  BY <1>3, Failed
<1>4. CASE End("undefined")
  BY <1>4, Ended
<1>5. CASE Item.for = "unit" /\ tk = "{" /\ ~ Fail
  <2> DEFINE k == Len(structs) + 1
             s == Symbol(Item.name, "struct", StructT(k), Nobody, k)
  <2>1. /\ domains' = PushDomain(AddSymbol(s)) /\ structs' = Append(structs, <<>>)
        /\ owner' = [kind |-> "struct", no |-> k] /\ Accept(<<Do("members")>>)
        /\ UNCHANGED <<fns, globals, r, code, status>>
    BY <1>5 DEF StructTag, Need, SymbolsOnly
  <2>2. AtTop(Item) /\ Item.do \notin Owning
    BY <1>1, <1>5 DEF AtTop, Owning, Reading
  <2>3. /\ SymbolsOK(domains, Len(fns), Len(structs), Len(globals))
        /\ FnsOK(fns, Len(structs), Len(code)) /\ StructsOK(structs) /\ IsSequence(globals)
        /\ Len(fns) \in Nat /\ Len(structs) \in Nat /\ Len(globals) \in Nat /\ Len(code) \in Nat
        /\ Len(domains) \in Nat
    BY TablesAre
  <2>4. StructsOK(structs') /\ Len(structs') = k /\ k \in Nat /\ Len(structs) <= k
    BY <2>1, <2>3, StructBegun
  <2>5. SymbolsOK(domains', Len(fns), k, Len(globals)) /\ Len(domains') = Len(domains) + 1
    <3>1. SymbolsOK(domains, Len(fns), k, Len(globals))
      BY <2>3, <2>4, SymbolsMonotonic
    <3>2. SymbolOK(s, Len(fns), k, Len(globals))
      <4>1. /\ s.name = Item.name /\ s.kind = "struct" /\ s.type = StructT(k)
            /\ s.owner = Nobody /\ s.no = k
        BY DEF Symbol
      <4>2. Proper(StructT(k), k)
        BY <2>3 DEF Proper, StructT, Bases
      <4>3. OwnerOK(Nobody, Len(fns), k)
        BY DEF OwnerOK
      <4> HIDE DEF s
      <4>4. QED
        BY <1>2, <2>3, <4>1, <4>2, <4>3 DEF SymbolOK
    <3> HIDE DEF s, k
    <3>3. SymbolsOK(AddSymbol(s), Len(fns), k, Len(globals)) /\ Len(AddSymbol(s)) = Len(domains)
      BY <2>3, <2>4, <3>1, <3>2, SymbolAdded
    <3>4. QED
      BY <2>1, <3>3, DomainPushed
  <2>6. FnsOK(fns, k, Len(code))
    BY <2>3, <2>4, FnsMonotonic
  <2>7. TableOK(domains', fns', structs', globals', Len(code))
    BY <2>1, <2>3, <2>4, <2>5, <2>6 DEF TableOK
  <2>8. owner' # Nobody /\ OwnerOK(owner', Len(fns'), Len(structs'))
    BY <2>1, <2>3, <2>4 DEF OwnerOK, Nobody
  <2>9. OwnerFits("members", owner', Len(fns'), Len(structs'))
    BY <2>1, <2>3, <2>4 DEF OwnerFits, InHeading, Owning
  <2> HIDE DEF k, s
  <2>10. UNCHANGED status /\ UNCHANGED r /\ UNCHANGED code /\ Accept(<<Do("members")>>)
         /\ Len(structs) <= Len(structs')
    BY <2>1, <2>4
  <2>11. QED
    BY <1>1, <2>2, <2>5, <2>7, <2>8, <2>9, <2>10, TopBeginsStep
<1>6. CASE ~ (Item.for = "unit" /\ tk = "{") /\ ~ Fail /\ ~ End("undefined")
  <2> DEFINE t == FindSymbol(Item.name).type
             y == Typed(Item.for, t)
  <2>1. Visible(Item.name) /\ GoOn(<<y>>) /\ ParserOnly
    BY <1>6 DEF StructTag, Need
  <2>2. Proper(t, Len(structs))
    BY <2>1, Found DEF SymbolOK
  <2> HIDE DEF t
  <2>3. /\ ItemOK(y, Len(fns), Len(structs), code, Generating)
        /\ y.do \in Reading \cup {"array"} /\ y.for = Item.for
    BY <1>2, <2>2, TypedOK
  <2> HIDE DEF y
  <2>4. QED
    BY <1>1, <1>2, <2>1, <2>3, ReadStep
<1>7. QED
  BY <1>3, <1>4, <1>5, <1>6

LEMMA EndStructStep ==
  ASSUME IInv, EndStruct
  PROVE  IInv'
<1>1. CASE Fail
  BY <1>1, Failed
<1>2. CASE ~ Fail
  <2>1. /\ status = "parsing" /\ Item.do = "endStruct" /\ Accept(<<>>) /\ owner' = Nobody
        /\ domains' = DropDomain /\ UNCHANGED <<fns, structs, globals, r, code, status>>
    BY <1>2 DEF EndStruct, Doing, Need, SymbolsOnly
  <2>2. AtTop(Item) /\ Item.do \in Owning
    BY <2>1 DEF AtTop, Owning
  <2>3. CodeOK(code', Len(code')) /\ FnsOK(fns', Len(structs), Len(code')) /\ Len(fns') = Len(fns)
    BY <2>1, TablesAre DEF IInv
  <2>4. UNCHANGED status /\ UNCHANGED r /\ UNCHANGED structs /\ UNCHANGED globals
    BY <2>1
  <2>5. QED
    BY <2>1, <2>2, <2>3, <2>4, TopOverStep
<1>3. QED BY <1>1, <1>2

LEMMA NoTypes ==
  ASSUME NEW ns
  PROVE  TypeList(<<>>, ns)
<1> DEFINE none == <<>>
<1>1. IsSequence(none)
  BY ShortSequences
<1>2. DOMAIN none = {}
  OBVIOUS
<1> HIDE DEF none
<1>3. TypeList(none, ns)
  BY <1>1, <1>2 DEF TypeList
<1>4. QED
  BY <1>3 DEF none

\* A function's heading begins, and it owns the domain of its parameters.
LEMMA HeadingBegins ==
  ASSUME IInv, status = "parsing", Item.do = "declaration", Accept(<<Do("parameters")>>),
         NEW n \in 1 .. Len(fns'), owner' = [kind |-> "fn", no |-> n],
         NEW ds, SymbolsOK(ds, Len(fns'), Len(structs), Len(globals)), Len(ds) = Len(domains),
         domains' = PushDomain(ds), FnsOK(fns', Len(structs), Len(code)),
         UNCHANGED <<structs, globals, r, code, status>>
  PROVE  IInv'
<1>1. AtTop(Item) /\ Item.do \notin Owning
  BY DEF AtTop, Owning
<1>2. UNCHANGED status /\ UNCHANGED r /\ UNCHANGED code /\ UNCHANGED structs /\ UNCHANGED globals
  OBVIOUS
<1>3. SymbolsOK(domains', Len(fns'), Len(structs'), Len(globals')) /\ Len(domains') = Len(domains) + 1
  BY <1>2, DomainPushed
<1>4. TableOK(domains', fns', structs', globals', Len(code))
  BY <1>2, <1>3, TablesAre DEF TableOK
<1>5. Len(fns') \in Nat
  BY SequenceProperties DEF FnsOK
<1>6. OwnerOK(owner', Len(fns'), Len(structs')) /\ owner' # Nobody
  BY <1>5 DEF OwnerOK, Nobody
<1>7. OwnerFits("parameters", owner', Len(fns'), Len(structs')) /\ Len(structs) <= Len(structs')
  BY <1>2, <1>5, TablesAre DEF OwnerFits, InHeading, Owning
<1>8. QED
  BY <1>1, <1>2, <1>3, <1>4, <1>6, <1>7, TopBeginsStep

LEMMA DeclarationStep ==
  ASSUME IInv, Declaration
  PROVE  IInv'
<1>1. status = "parsing" /\ Item.do = "declaration"
  BY DEF Declaration, Doing
<1>2. /\ Item = Declarator(Item.do, Item.for, Item.type, Item.name)
      /\ Item.for = "variable" /\ Item.name \in Names /\ Proper(Item.type, Len(structs))
  BY <1>1, ItemIs DEF ItemOK, Declaring, WithType
<1>3. AtTop(Item) /\ Item.do \notin Owning
  BY <1>1 DEF AtTop, Owning
<1>4. CASE Fail
  BY <1>4, Failed
<1>5. CASE tk # "(" /\ ~ Fail
  <2> DEFINE y == Declarator("array", Item.for, Item.type, Item.name)
  <2>1. GoOn(<<[Item EXCEPT !.do = "array"]>>) /\ ParserOnly
    BY <1>5 DEF Declaration, Need
  <2>2. [Item EXCEPT !.do = "array"] = y
    BY <1>2, DeclaratorRedone
  <2>3. y.do = "array" /\ y.for = "variable" /\ y.type = Item.type /\ y.name = Item.name
    BY <1>2, DeclaratorFields
  <2>4. y = Declarator(y.do, y.for, y.type, y.name)
    BY <1>2, <2>3
  <2>5. GoOn(<<y>>)
    BY <2>1, <2>2
  <2> HIDE DEF y
  <2>6. ItemOK(y, Len(fns), Len(structs), code, Generating)
    BY <1>2, <2>3, <2>4 DEF ItemOK, Declaring, WithType
  <2>7. Loose(y) /\ y.do \notin Owning
    BY <2>3 DEF Loose, AtTop, Heading, Inside, Owning, Reading
  <2>8. QED
    BY <1>1, <1>3, <2>1, <2>5, <2>6, <2>7, TopReadStep
<1>6. CASE tk = "(" /\ Declared(Item.name) /\ ~ Fail
  <2> DEFINE s == FindSymbol(Item.name)
             none == <<>>
  <2>1. /\ s.kind = "fn" /\ fns' = [fns EXCEPT ![s.no].params = <<>>]
        /\ domains' = PushDomain(domains) /\ owner' = [kind |-> "fn", no |-> s.no]
        /\ Accept(<<Do("parameters")>>) /\ UNCHANGED <<structs, globals, r, code, status>>
    BY <1>6 DEF Declaration, Need, SymbolsOnly
  <2>2. Visible(Item.name)
    BY <1>6, TablesAre DEF Declared, Visible, Innermost
  <2>3. s.no \in 1 .. Len(fns) /\ s.no \in DOMAIN fns
    BY <2>1, <2>2, Found, LensNat DEF SymbolOK
  <2> HIDE DEF s
  <2>4. fns' = Put(fns, s.no, WithParams(fns[s.no], none))
    BY <2>1 DEF WithParams, Put
  <2>5. TypeList(none, Len(structs))
    BY NoTypes
  <2>6. Len(code) \in Nat
    BY TablesAre
  <2> HIDE DEF none
  <2>7. FnsOK(fns', Len(structs), Len(code)) /\ Len(fns') = Len(fns)
    BY <2>3, <2>4, <2>5, <2>6, FnChanged
  <2>8. SymbolsOK(domains, Len(fns'), Len(structs), Len(globals)) /\ s.no \in 1 .. Len(fns')
    BY <2>3, <2>7, TablesAre
  <2>9. QED
    BY <1>1, <2>1, <2>7, <2>8, HeadingBegins
<1>7. CASE tk = "(" /\ ~ Declared(Item.name) /\ ~ Fail
  <2> DEFINE k == Len(fns) + 1
             s == Symbol(Item.name, "fn", Item.type, Nobody, k)
             none == <<>>
             x == Fn(Item.type, none, none, FALSE, 0, NULL)
  <2>1. /\ fns' = Append(fns, x)
        /\ domains' = PushDomain(AddSymbol(s)) /\ owner' = [kind |-> "fn", no |-> k]
        /\ Accept(<<Do("parameters")>>) /\ UNCHANGED <<structs, globals, r, code, status>>
    BY <1>7 DEF Declaration, SymbolsOnly, Fn
  <2>2. /\ SymbolsOK(domains, Len(fns), Len(structs), Len(globals))
        /\ FnsOK(fns, Len(structs), Len(code))
        /\ Len(fns) \in Nat /\ Len(structs) \in Nat /\ Len(globals) \in Nat /\ Len(code) \in Nat
    BY TablesAre
  <2>3. FnOK(x, Len(structs), Len(code))
    <3>1. TypeList(none, Len(structs))
      BY NoTypes
    <3>2. NULL \in 0 .. Len(code)
      BY <2>2 DEF NULL
    <3> HIDE DEF none
    <3>3. QED
      BY <1>2, <2>2, <3>1, <3>2, FnIs
  <2> HIDE DEF x
  <2>4. FnsOK(fns', Len(structs), Len(code)) /\ Len(fns') = k
    BY <2>1, <2>2, <2>3, FnAppended
  <2>5. SymbolsOK(AddSymbol(s), k, Len(structs), Len(globals)) /\ Len(AddSymbol(s)) = Len(domains)
    <3>1. SymbolsOK(domains, k, Len(structs), Len(globals)) /\ k \in Nat
      BY <2>2, SymbolsMonotonic
    <3>2. SymbolOK(s, k, Len(structs), Len(globals))
      <4>1. /\ s.name = Item.name /\ s.kind = "fn" /\ s.type = Item.type
            /\ s.owner = Nobody /\ s.no = k
        BY DEF Symbol
      <4>2. OwnerOK(Nobody, k, Len(structs))
        BY DEF OwnerOK
      <4> HIDE DEF s
      <4>3. QED
        BY <1>2, <2>2, <4>1, <4>2 DEF SymbolOK
    <3> HIDE DEF s, k
    <3>3. QED
      BY <2>2, <3>1, <3>2, SymbolAdded
  <2>6. k \in 1 .. Len(fns')
    BY <2>2, <2>4
  <2> HIDE DEF k, s
  <2>7. QED
    BY <1>1, <2>1, <2>4, <2>5, <2>6, HeadingBegins
<1>8. QED
  BY <1>4, <1>5, <1>6, <1>7

\* A heading's activation knows the function.
LEMMA HeadingIs ==
  ASSUME IInv, status = "parsing", Heading(Item)
  PROVE  /\ Base(todo) = "moreParameters" /\ owner.kind = "fn" /\ owner.no \in DOMAIN fns
         /\ ~ AtTop(Item)
<1>1. Placed(todo) /\ OwnerFits(Base(todo), owner, Len(fns), Len(structs)) /\ 1 \in DOMAIN todo
  BY OnTop DEF IInv
<1>2. Base(todo) = "moreParameters" /\ 1 < Len(todo) - 1
  BY <1>1 DEF Placed, Item
<1>3. owner \in [kind : {"fn"}, no : 1 .. Len(fns)]
  BY <1>1, <1>2 DEF OwnerFits, InHeading
<1>4. ~ AtTop(Item)
  BY <1>1, <1>2 DEF Placed, Item
<1>5. QED
  BY <1>2, <1>3, <1>4, LensNat

LEMMA ParameterStep ==
  ASSUME IInv, Parameter
  PROVE  IInv'
<1>1. CASE Fail
  BY <1>1, Failed
<1>2. CASE ~ Fail
  <2> DEFINE o == owner.no
             ps == Append(fns[o].params, Item.type)
             no == Len(fns[o].params)
             s == Symbol(Item.name, "parameter", Item.type, owner, no)
             items == <<>>
  <2>1. /\ status = "parsing" /\ Item.do = "parameter"
        /\ fns' = [fns EXCEPT ![o].params = ps]
        /\ domains' = AddSymbol(s) /\ GoOn(items)
        /\ UNCHANGED <<owner, structs, globals, r, code, status>>
    BY <1>2 DEF Parameter, Doing, Need, SymbolsOnly
  <2>2. /\ Item.name \in Names /\ Proper(Item.type, Len(structs))
    BY <2>1, ItemIs DEF ItemOK, Declaring, WithType
  <2>3. Heading(Item)
    BY <2>1 DEF Heading
  <2>4. Base(todo) = "moreParameters" /\ owner.kind = "fn" /\ o \in DOMAIN fns /\ ~ AtTop(Item)
    BY <2>1, <2>3, HeadingIs
  <2>5. /\ SymbolsOK(domains, Len(fns), Len(structs), Len(globals))
        /\ FnsOK(fns, Len(structs), Len(code)) /\ Len(domains) \in Nat
        /\ Len(fns) \in Nat /\ Len(structs) \in Nat /\ Len(globals) \in Nat /\ Len(code) \in Nat
    BY TablesAre
  <2>6. TypeList(ps, Len(structs))
    BY <2>2, <2>4, <2>5, TypeAppended DEF FnsOK, FnOK
  <2>7. fns' = Put(fns, o, WithParams(fns[o], ps))
    BY <2>1 DEF WithParams, Put
  <2>8. FnsOK(fns', Len(structs), Len(code)) /\ Len(fns') = Len(fns)
    <3> HIDE DEF ps, o
    <3> QED BY <2>4, <2>5, <2>6, <2>7, FnChanged
  <2>9. SymbolsOK(domains', Len(fns), Len(structs), Len(globals)) /\ Len(domains') = Len(domains)
    <3>1. s.name = Item.name /\ s.kind = "parameter" /\ s.type = Item.type /\ s.owner = owner
      BY DEF Symbol
    <3> HIDE DEF s
    <3>2. SymbolOK(s, Len(fns), Len(structs), Len(globals))
      BY <2>2, <2>4, <3>1 DEF SymbolOK, IInv
    <3>3. QED
      BY <2>1, <2>5, <3>2, SymbolAdded
  <2> HIDE DEF s, ps, no, o
  <2>10. IsSequence(items) /\ DOMAIN items = {}
    <3>1. IsSequence(items)
      BY ShortSequences
    <3>2. QED
      BY <3>1
  <2> HIDE DEF items
  <2>11. Placed(todo') /\ Base(todo') = "moreParameters"
    <3>1. Placed(todo) /\ Siblings(todo[1], items) /\ todo' = items \o Tail(todo)
      BY <2>1, <2>10, ReadFree DEF IInv, Siblings
    <3>2. Placed(todo') /\ SameBase(todo, todo')
      BY <2>1, <2>4, <2>10, <3>1, Swapped DEF Item
    <3>3. QED
      BY <2>4, <3>2 DEF SameBase, Owning
  <2>12. UNCHANGED status /\ UNCHANGED r /\ UNCHANGED code /\ UNCHANGED owner
         /\ UNCHANGED structs /\ UNCHANGED globals
    BY <2>1
  <2>13. TableOK(domains', fns', structs', globals', Len(code'))
    BY <2>8, <2>9, <2>12, TablesAre DEF TableOK
  <2>14. OwnerOK(owner', Len(fns'), Len(structs')) /\ CodeOK(code', Len(code'))
    BY <2>8, <2>12 DEF IInv
  <2>15. OwnerFits(Base(todo'), owner', Len(fns'), Len(structs'))
    <3>1. OwnerFits("moreParameters", owner, Len(fns), Len(structs))
      BY <2>1, <2>4 DEF IInv
    <3>2. QED
      BY <2>8, <2>11, <2>12, <3>1 DEF OwnerFits
  <2>16. Keeping
    BY <2>5, <2>8, <2>12, LensNat, ContinuesReflexive DEF Keeping, Generating
  <2>17. Len(domains') - Owned(owner') = Len(domains) - Owned(owner) /\ Len(structs) <= Len(structs')
    BY <2>5, <2>9, <2>12
  <2>18. QED
    BY <2>1, <2>10, <2>11, <2>12, <2>13, <2>14, <2>15, <2>16, <2>17, TableStep
<1>3. QED BY <1>1, <1>2

LEMMA BodyEnds ==
  ASSUME IInv, status = "parsing", Item.do = "body", Accept(<<>>), NEW yes,
         fns' = Put(fns, owner.no, WithDeclaration(fns[owner.no], yes)),
         domains' = DropDomain, owner' = Nobody, UNCHANGED <<structs, globals, r, code, status>>
  PROVE  IInv'
<1> DEFINE o == owner.no
<1>1. AtTop(Item) /\ Item.do \in Owning
  BY DEF AtTop, Owning
<1>2. o \in DOMAIN fns
  BY <1>1, TopIs, LensNat DEF OwnerFits, InHeading
<1>3. Len(code) \in Nat /\ CodeOK(code, Len(code))
  BY TablesAre DEF IInv
<1>4. fns' = Put(fns, o, WithDeclaration(fns[o], yes))
  OBVIOUS
<1> HIDE DEF o
<1>5. FnsOK(fns', Len(structs), Len(code)) /\ Len(fns') = Len(fns)
  BY <1>2, <1>3, <1>4, FnChanged
<1>6. /\ UNCHANGED status /\ UNCHANGED r /\ UNCHANGED structs /\ UNCHANGED globals
      /\ code' = code
  OBVIOUS
<1>7. FnsOK(fns', Len(structs), Len(code')) /\ CodeOK(code', Len(code'))
  BY <1>3, <1>5, <1>6
<1>8. QED
  BY <1>1, <1>5, <1>6, <1>7, TopOverStep

LEMMA BodyBegins ==
  ASSUME IInv, status = "parsing", Item.do = "body",
         Accept(<<[do |-> "block", domain |-> FALSE], [do |-> "endFunction", enter |-> Len(code) + 1]>>),
         code' = StartList(code, "ENTER", Unset),
         fns' = Put(fns, owner.no, WithFirst(fns[owner.no], Len(code) + 1)),
         UNCHANGED <<r, domains, owner, structs, globals, status>>
  PROVE  IInv'
<1> DEFINE o == owner.no
           m == Len(code) + 1
           y == [do |-> "block", domain |-> FALSE]
           z == [do |-> "endFunction", enter |-> m]
           items == <<y, z>>
<1>1. /\ status = "parsing" /\ Item.do = "body" /\ Accept(items)
      /\ code' = StartList(code, "ENTER", Unset)
      /\ UNCHANGED <<r, domains, owner, structs, globals, status>>
  OBVIOUS
<1>2. AtTop(Item) /\ Item.do # "block"
  BY <1>1 DEF AtTop, Owning
<1>3. Placed(todo) /\ AtTop(todo[1]) /\ OwnerFits("body", owner, Len(fns), Len(structs))
  BY <1>1, <1>2, TopIs
<1>4. o \in DOMAIN fns /\ owner \in [kind : {"fn"}, no : 1 .. Len(fns)]
  BY <1>3, LensNat DEF OwnerFits, InHeading
<1>5. fns' = Put(fns, o, WithFirst(fns[o], m))
  OBVIOUS
<1>6. Len(code) \in Nat /\ Len(domains) \in Nat /\ Len(structs) \in Nat /\ Len(fns) \in Nat
  BY TablesAre
<1>7. Listed(code') /\ Len(code') = m /\ code'[m].op = "ENTER"
  <2>1. CodeOK(code, Len(code))
    BY DEF IInv
  <2> DEFINE c == StartList(code, "ENTER", Unset)
  <2>2. Listed(c) /\ Len(c) = Len(code) + 1 /\ c[Len(c)].op = "ENTER"
    BY <2>1, StartGenerates
  <2>3. code' = c
    BY <1>1
  <2> HIDE DEF c
  <2>4. QED
    BY <2>2, <2>3
<1>8. DOMAIN code' = 1 .. m /\ CodeOK(code', Len(code'))
  BY <1>7, ListedNat DEF Listed
<1>9. m \in Nat /\ Len(code) <= m /\ m \in 0 .. m /\ m \in DOMAIN code'
  BY <1>6, <1>8
<1>10. y.do = "block" /\ ~ y.domain /\ z.do = "endFunction" /\ z.enter = m
  OBVIOUS
<1>11. IsSequence(items) /\ DOMAIN items = {1, 2} /\ items[1] = y /\ items[2] = z
  <2>1. IsSequence(items)
    BY ShortSequences
  <2>2. QED
    BY <2>1
<1>12. todo' = <<y, z>> \o Tail(todo)
  BY <1>1, ReadFree
<1> HIDE DEF o, m, y, z, items
<1>13. FnsOK(fns', Len(structs), m) /\ Len(fns') = Len(fns)
  <2>1. \A fi \in 0 .. m : /\ FnsOK(Put(fns, o, WithFirst(fns[o], fi)), Len(structs), m)
                         /\ Len(Put(fns, o, WithFirst(fns[o], fi))) = Len(fns)
    BY <1>4, <1>9, FnChanged
  <2>2. QED
    BY <1>5, <1>9, <2>1
<1>14. AtTop(z) /\ Above(z, y)
  BY <1>10 DEF AtTop, Above, Owning, Heading, Reading, InHeading
<1>15. Placed(todo') /\ Base(todo') = "endFunction"
  BY <1>3, <1>10, <1>12, <1>14, TopCalls
<1>16. ItemOK(y, Len(fns'), Len(structs'), code', Generating') /\ ~ Opens(y)
  BY <1>10, SimpleOK DEF Simple, Opens
<1>17. ItemOK(z, Len(fns'), Len(structs'), code', Generating') /\ ~ Opens(z)
  BY <1>7, <1>9, <1>10 DEF ItemOK, Declaring, WithType, Opens
<1>18. \A k \in DOMAIN items :
         ItemOK(items[k], Len(fns'), Len(structs'), code', Generating') /\ ~ Opens(items[k])
  BY <1>11, <1>16, <1>17
<1>19. UNCHANGED status /\ UNCHANGED r /\ UNCHANGED domains /\ UNCHANGED owner
       /\ UNCHANGED structs /\ UNCHANGED globals
  BY <1>1
<1>20. TableOK(domains', fns', structs', globals', Len(code'))
  BY <1>7, <1>13, <1>19, TablesAre DEF TableOK
<1>21. OwnerOK(owner', Len(fns'), Len(structs')) /\ Len(structs) <= Len(structs')
  BY <1>6, <1>13, <1>19 DEF IInv
<1>22. OwnerFits("endFunction", owner', Len(fns'), Len(structs'))
  BY <1>4, <1>13, <1>19 DEF OwnerFits, InHeading, Owning
<1>23. Len(domains') - Owned(owner') = Len(domains) - Owned(owner)
  BY <1>19
<1>24. QED
  BY <1>1, <1>2, <1>8, <1>11, <1>15, <1>18, <1>19, <1>20, <1>21, <1>22, <1>23, TableStep

LEMMA BodyStartStep ==
  ASSUME IInv, Body
  PROVE  IInv'
<1> DEFINE o == owner.no
           m == Len(code) + 1
           f == fns[o]
<1>1. status = "parsing" /\ Item.do = "body"
  BY DEF Body, Doing
<1>2. CASE Fail
  BY <1>2, Failed
<1>3. ASSUME Accept(<<>>), fns' = [fns EXCEPT ![o].declaration = TRUE],
             domains' = DropDomain, owner' = Nobody, UNCHANGED <<structs, globals>>, SymbolsOnly
      PROVE  IInv'
  <2>1. fns' = Put(fns, o, WithDeclaration(f, TRUE))
    BY <1>3 DEF Put, WithDeclaration
  <2>2. QED
    BY <1>1, <1>3, <2>1, BodyEnds DEF SymbolsOnly
<1>4. ASSUME Accept(<<[do |-> "block", domain |-> FALSE], [do |-> "endFunction", enter |-> m]>>),
             code' = StartList(code, "ENTER", Unset), fns' = [fns EXCEPT ![o].first = m],
             UNCHANGED <<r, domains, owner, structs, globals, status>>
      PROVE  IInv'
  <2>1. fns' = Put(fns, o, WithFirst(f, m))
    BY <1>4 DEF Put, WithFirst
  <2>2. QED
    BY <1>1, <1>4, <2>1, BodyBegins
<1>5. QED
  BY <1>2, <1>3, <1>4 DEF Body

LEMMA EndFunctionStep ==
  ASSUME IInv, EndFunction
  PROVE  IInv'
<1> DEFINE o == owner.no
           f == fns[o]
           n == Len(f.locals)
           p == Len(f.params)
           no == FALSE
           c == WithArgument(code, Item.enter, n)
<1>1. /\ status = "parsing" /\ Item.do = "endFunction" /\ GoOn(<<>>)
      /\ code' = (IF f.type.base = "void" THEN AddInstruction(c, "RET_VOID", p) ELSE c)
      /\ fns' = [fns EXCEPT ![o].declaration = FALSE]
      /\ domains' = DropDomain /\ owner' = Nobody /\ UNCHANGED <<r, structs, globals, status>>
  BY DEF EndFunction, Doing, WithArgument
<1>2. AtTop(Item) /\ Item.do \in Owning
  BY <1>1 DEF AtTop, Owning
<1>3. o \in DOMAIN fns
  BY <1>1, <1>2, TopIs, LensNat DEF OwnerFits, InHeading
<1>4. fns' = Put(fns, o, WithDeclaration(fns[o], no))
  BY <1>1 DEF WithDeclaration, Put
<1>5. Item.enter \in DOMAIN code /\ code[Item.enter].op = "ENTER"
  BY <1>1, ItemIs DEF ItemOK
<1>6. Len(code) \in Nat /\ DOMAIN code = 1 .. Len(code) /\ CodeOK(code, Len(code))
  BY LensNat DEF Lens, IInv
<1> HIDE DEF o, f, n, p, no
<1>7. CodeOK(c, Len(code)) /\ Len(c) = Len(code)
  <2>1. ArgOK(code[Item.enter].op, n, Len(code))
    BY <1>5 DEF ArgOK
  <2>2. QED
    BY <1>5, <1>6, <2>1, ArgumentSet
<1> HIDE DEF c
<1>8. Listed(c)
  BY <1>5, <1>6, <1>7, SequenceProperties DEF Listed, CodeOK
<1>9. CodeOK(code', Len(code')) /\ Len(code) <= Len(code') /\ Len(code') \in Nat
  <2>1. CASE code' = c
    BY <1>6, <1>7, <1>8, <2>1 DEF Listed
  <2>2. CASE code' = AddInstruction(c, "RET_VOID", p)
    <3>1. Generated(c, code')
      BY <1>8, <2>2, AddPlain
    <3>2. QED
      BY <1>7, <3>1, ListedNat DEF Generated, Listed, Continues
  <2>3. QED BY <1>1, <2>1, <2>2
<1>10. FnsOK(fns', Len(structs), Len(code')) /\ Len(fns') = Len(fns)
  BY <1>3, <1>4, <1>9, FnChanged
<1>11. UNCHANGED status /\ UNCHANGED r /\ UNCHANGED structs /\ UNCHANGED globals
  BY <1>1
<1>12. QED
  BY <1>1, <1>2, <1>9, <1>10, <1>11, TopOverStep

-----------------------------------------------------------------------------
(* Blocks and variables.                                                   *)

\* A statement's step that may open or close a domain.
LEMMA InsideStep ==
  ASSUME IInv, status = "parsing", Inside(Item),
         NEW items, IsSequence(items), Accept(items) \/ GoOn(items),
         \A k \in DOMAIN items :
            /\ Sibling(Item, items[k])
            /\ ItemOK(items[k], Len(fns), Len(structs), code, Generating),
         UNCHANGED <<owner, fns, structs, globals, r, code, status>>,
         SymbolsOK(domains', Len(fns), Len(structs), Len(globals)),
         Len(domains') = Len(domains) + Opened(items) - (IF Opens(Item) THEN 1 ELSE 0)
  PROVE  IInv'
<1>1. free' \in Nat /\ todo' = items \o Tail(todo) /\ Placed(todo)
  BY ReadFree DEF IInv
<1>2. UNCHANGED owner /\ UNCHANGED fns /\ UNCHANGED structs /\ UNCHANGED globals /\ UNCHANGED r
      /\ UNCHANGED code /\ UNCHANGED status /\ Generating' = Generating
  BY DEF Generating
<1>3. Item.do # "unit" /\ ~ AtTop(Item)
  BY DEF Inside, AtTop, Owning, Reading
<1>4. Placed(todo') /\ SameBase(todo, todo')
  BY <1>1, <1>3, Swapped DEF Siblings, Item
<1>5. OwnerFits(Base(todo'), owner', Len(fns'), Len(structs'))
  <2>1. OwnerFits(Base(todo), owner, Len(fns), Len(structs))
    BY DEF IInv
  <2>2. QED
    BY <1>2, <1>4, <2>1 DEF OwnerFits, SameBase, Owning, InHeading
<1>6. StateOK'
  <2>1. TableOK(domains', fns', structs', globals', Len(code'))
    BY <1>2, TablesAre DEF TableOK
  <2>2. QED
    BY <1>1, <1>2, <2>1 DEF IInv, StateOK
<1>7. Nested(domains', owner', todo')
  <2>1. /\ Opened(todo') = Opened(items) + Opened(todo) - (IF Opens(Item) THEN 1 ELSE 0)
        /\ Opened(items) \in Nat /\ Opened(todo) \in Nat
    BY <1>1, Counted DEF Item
  <2>2. Len(domains) = 1 + Opened(todo) + Owned(owner) /\ Owned(owner) \in Nat
    BY DEF IInv, Nested, Owned
  <2>3. Len(domains') = 1 + Opened(todo') + Owned(owner)
    BY <2>1, <2>2
  <2>4. QED
    BY <1>2, <2>3 DEF Nested, Owned
<1>8. Keeping
  BY <1>2, LensNat, ContinuesReflexive DEF Keeping, Lens
<1>9. QED
  BY <1>1, <1>2, <1>4, <1>5, <1>6, <1>7, <1>8, Step

LEMMA BlockStep ==
  ASSUME IInv, Block
  PROVE  IInv'
<1>1. status = "parsing" /\ Item.do = "block"
  BY DEF Block, Doing
<1>2. /\ Inside(Item) /\ ItemOK(Item, Len(fns), Len(structs), code, Generating)
      /\ Sibling(Item, Item) /\ (Opens(Item) <=> Item.domain)
  BY <1>1, ItemIs DEF Inside, Sibling, AtTop, Heading, Owning, Reading, Opens
<1>3. SymbolsOK(domains, Len(fns), Len(structs), Len(globals)) /\ Len(domains) \in Nat
  BY TablesAre
<1>4. ASSUME NEW y, GoOn(<<y, Item>>), ParserOnly, Sibling(Item, y), y.do # "block",
             ItemOK(y, Len(fns), Len(structs), code, Generating)
      PROVE  IInv'
  <2> DEFINE x == Item
             items == <<y, x>>
  <2>1. IsSequence(items) /\ DOMAIN items = {1, 2} /\ items[1] = y /\ items[2] = x
    <3>1. IsSequence(items)
      BY ShortSequences
    <3>2. QED
      BY <3>1
  <2>2. GoOn(items) /\ UNCHANGED <<owner, fns, structs, globals, r, code, status>>
        /\ UNCHANGED domains
    BY <1>4 DEF ParserOnly, table
  <2>3. Sibling(Item, x) /\ ItemOK(x, Len(fns), Len(structs), code, Generating)
    BY <1>2
  <2>4. Opens(x) <=> Opens(Item)
    OBVIOUS
  <2> HIDE DEF items, x
  <2>5. Opened(items) = IF Opens(Item) THEN 1 ELSE 0
    <3>1. ~ Opens(y)
      BY <1>4 DEF Opens
    <3>2. CASE Opens(Item)
      <4>1. 2 \in DOMAIN items /\ Opens(items[2]) /\ \A k \in DOMAIN items : Opens(items[k]) => k = 2
        BY <2>1, <2>4, <3>1, <3>2
      <4>2. QED
        BY <2>1, <3>2, <4>1, OpenedFinite
    <3>3. CASE ~ Opens(Item)
      BY <2>1, <2>4, <3>1, <3>3, OpenedFinite
    <3>4. QED BY <3>2, <3>3
  <2>6. \A k \in DOMAIN items :
            /\ Sibling(Item, items[k])
            /\ ItemOK(items[k], Len(fns), Len(structs), code, Generating)
    BY <1>4, <2>1, <2>3
  <2>7. Len(domains') = Len(domains) + Opened(items) - (IF Opens(Item) THEN 1 ELSE 0)
    BY <1>3, <2>2, <2>5
  <2>8. SymbolsOK(domains', Len(fns), Len(structs), Len(globals))
    BY <1>3, <2>2
  <2>9. QED
    BY <1>1, <1>2, <2>1, <2>2, <2>6, <2>7, <2>8, InsideStep
<1>5. CASE GoOn(<<ReadType("variable"), Item>>) /\ ParserOnly
  <2> DEFINE y == ReadType("variable")
  <2>1. y.do = "type" /\ y.for = "variable"
    BY DEF ReadType
  <2>2. GoOn(<<y, Item>>)
    BY <1>5
  <2> HIDE DEF y
  <2>3. ItemOK(y, Len(fns), Len(structs), code, Generating)
    BY <2>1 DEF ItemOK, Declaring, WithType
  <2>4. Sibling(Item, y)
    BY <1>1, <2>1 DEF Sibling, AtTop, Heading, Inside, Owning, Reading
  <2>5. QED
    BY <1>4, <1>5, <2>1, <2>2, <2>3, <2>4
<1>6. CASE GoOn(<<Do("stm"), Item>>) /\ ParserOnly
  <2> DEFINE y == Do("stm")
  <2>1. y.do = "stm"
    BY DEF Do
  <2>2. GoOn(<<y, Item>>)
    BY <1>6
  <2> HIDE DEF y
  <2>3. ItemOK(y, Len(fns), Len(structs), code, Generating)
    BY <2>1, SimpleOK DEF Simple
  <2>4. Sibling(Item, y)
    BY <1>1, <2>1 DEF Sibling, AtTop, Heading, Inside, Owning, Reading
  <2>5. QED
    BY <1>4, <1>6, <2>1, <2>2, <2>3, <2>4
<1>7. CASE /\ Accept(<<>>) /\ domains' = (IF Item.domain THEN DropDomain ELSE domains)
           /\ UNCHANGED <<owner, fns, structs, globals>> /\ SymbolsOnly
  <2> DEFINE items == <<>>
  <2>1. IsSequence(items) /\ DOMAIN items = {}
    <3>1. IsSequence(items)
      BY ShortSequences
    <3>2. QED
      BY <3>1
  <2>2. Accept(items) /\ UNCHANGED <<owner, fns, structs, globals, r, code, status>>
    BY <1>7 DEF SymbolsOnly
  <2> HIDE DEF items
  <2>3. Opened(items) = 0
    BY <2>1, OpenedFinite
  <2>4. /\ SymbolsOK(domains', Len(fns), Len(structs), Len(globals))
        /\ Len(domains') = Len(domains) - (IF Opens(Item) THEN 1 ELSE 0)
    <3>1. CASE Item.domain
      <4>1. Nested(domains, owner, todo) /\ Placed(todo)
        BY <1>1 DEF IInv
      <4>2. Opened(todo) \in Nat /\ Opened(todo) > 0
        BY <1>2, <2>1, <3>1, <4>1, Counted DEF Item
      <4>3. Len(domains) > 1
        BY <4>1, <4>2 DEF Nested
      <4>4. QED
        BY <1>2, <1>3, <1>7, <3>1, <4>3, DomainDropped
    <3>2. CASE ~ Item.domain
      BY <1>2, <1>3, <1>7, <3>2
    <3>3. QED BY <3>1, <3>2
  <2>5. Len(domains') = Len(domains) + Opened(items) - (IF Opens(Item) THEN 1 ELSE 0)
    BY <1>3, <2>3, <2>4
  <2>6. \A k \in DOMAIN items :
            /\ Sibling(Item, items[k])
            /\ ItemOK(items[k], Len(fns), Len(structs), code, Generating)
    BY <2>1
  <2>7. QED
    BY <1>1, <1>2, <2>1, <2>2, <2>4, <2>5, <2>6, InsideStep
<1>8. CASE Fail
  BY <1>8, Failed
<1>9. QED
  BY <1>5, <1>6, <1>7, <1>8 DEF Block

\* A block within another has a domain of its own.
LEMMA BlockBegins ==
  ASSUME IInv, status = "parsing", Item.do = "stm",
         NEW y, y.do = "block", y.domain = TRUE, Accept(<<y>>), domains' = PushDomain(domains),
         UNCHANGED <<owner, fns, structs, globals, r, code, status>>
  PROVE  IInv'
<1> DEFINE items == <<y>>
<1>1. IsSequence(items) /\ DOMAIN items = {1} /\ items[1] = y
  <2>1. IsSequence(items)
    BY ShortSequences
  <2>2. QED
    BY <2>1
<1>2. Accept(items)
  OBVIOUS
<1> HIDE DEF items
<1>3. Inside(Item) /\ ~ Opens(Item)
  BY DEF Inside, Opens
<1>4. ItemOK(y, Len(fns), Len(structs), code, Generating) /\ Opens(y)
  BY SimpleOK DEF Simple, Opens
<1>5. Sibling(Item, y)
  BY DEF Sibling, AtTop, Heading, Inside, Owning, Reading
<1>6. \A k \in DOMAIN items :
         /\ Sibling(Item, items[k])
         /\ ItemOK(items[k], Len(fns), Len(structs), code, Generating)
  BY <1>1, <1>4, <1>5
<1>7. Opened(items) = 1
  <2>1. 1 \in DOMAIN items /\ Opens(items[1]) /\ \A k \in DOMAIN items : Opens(items[k]) => k = 1
    BY <1>1, <1>4
  <2>2. QED
    BY <1>1, <2>1, OpenedFinite
<1>8. SymbolsOK(domains', Len(fns), Len(structs), Len(globals)) /\ Len(domains') = Len(domains) + 1
  BY TablesAre, DomainPushed
<1>9. Len(domains') = Len(domains) + Opened(items) - (IF Opens(Item) THEN 1 ELSE 0)
  BY <1>3, <1>7, <1>8, TablesAre
<1>10. QED
  BY <1>1, <1>2, <1>3, <1>6, <1>8, <1>9, InsideStep

LEMMA StmStep ==
  ASSUME IInv, Stm
  PROVE  IInv'
<1>1. status = "parsing" /\ Item.do = "stm"
  BY DEF Stm, Doing
<1>2. Inside(Item) /\ Plain(Item) /\ Listed(code)
  BY <1>1, BodyIs DEF Inside
<1>3. ASSUME Accept(<<[do |-> "block", domain |-> TRUE]>>), domains' = PushDomain(domains),
             UNCHANGED <<owner, fns, structs, globals>>, SymbolsOnly
      PROVE  IInv'
  <2> DEFINE y == [do |-> "block", domain |-> TRUE]
  <2>1. y.do = "block" /\ y.domain = TRUE
    OBVIOUS
  <2>2. Accept(<<y>>)
    BY <1>3
  <2> HIDE DEF y
  <2>3. QED
    BY <1>1, <1>3, <2>1, <2>2, BlockBegins DEF SymbolsOnly
<1>4. ASSUME NEW of,
             Accept(<<ReadToken("("), Expr,
                      [do |-> "condition", of |-> of, before |-> LastInstruction(code)]>>),
             ParserOnly
      PROVE  IInv'
  <2> DEFINE y == [do |-> "condition", of |-> of, before |-> LastInstruction(code)]
             x == ReadToken("(")
  <2>1. y.do = "condition" /\ y.before = LastInstruction(code)
    OBVIOUS
  <2>2. Accept(<<x, Operand(TRUE), y>>)
    BY <1>4 DEF Expr
  <2>3. Fit(x, code)
    BY <1>2, TokenFits
  <2> HIDE DEF x, y
  <2>4. Reached(code, LastInstruction(code))
    BY <1>2, LastExists DEF Listed
  <2>5. ItemOK(y, Len(fns), Len(structs), code, Generating)
    BY <2>1, <2>4 DEF ItemOK, Declaring, WithType
  <2>6. Fit(y, code)
    BY <1>2, <2>1, <2>5, InsideFits DEF Inside
  <2>7. Fit(Operand(TRUE), code)
    BY <1>2, ExprFits
  <2>8. Ready(<<x, Operand(TRUE), y>>, code)
    BY <2>3, <2>6, <2>7, ReadyShort
  <2>9. QED
    BY <1>1, <1>2, <1>4, <2>2, <2>8, PlainIs, ParserStep
<1>5. \A what \in {"return", "endExpression"} : Fit(Do(what), code)
  <2> TAKE what \in {"return", "endExpression"}
  <2>1. Do(what).do = what
    BY DEF Do
  <2>2. Do(what).do \in Simple /\ Inside(Do(what)) /\ Do(what).do # "block"
    BY <2>1 DEF Simple, Inside
  <2>3. QED
    BY <1>2, <2>2, SimpleOK, InsideFits
<1>6. ASSUME Accept(<<Do("return")>>), ParserOnly PROVE IInv'
  <2>1. Ready(<<Do("return")>>, code)
    BY <1>5, ReadyShort
  <2>2. QED
    BY <1>1, <1>2, <1>6, <2>1, PlainIs, ParserStep
<1>7. ASSUME Accept(<<>>), ParserOnly PROVE IInv'
  BY <1>1, <1>2, <1>7, ReadyShort, PlainIs, ParserStep
<1>8. ASSUME GoOn(<<Expr, Do("endExpression")>>), ParserOnly PROVE IInv'
  <2> DEFINE x == Operand(TRUE)
             y == Do("endExpression")
  <2>1. Fit(x, code) /\ Fit(y, code)
    BY <1>2, <1>5, ExprFits
  <2>2. GoOn(<<x, y>>)
    BY <1>8 DEF Expr
  <2> HIDE DEF x, y
  <2>3. Ready(<<x, y>>, code)
    BY <2>1, ReadyShort
  <2>4. QED
    BY <1>1, <1>2, <1>8, <2>2, <2>3, PlainIs, ParserStep
<1>9. CASE Fail
  BY <1>9, Failed
<1>10. QED
  BY <1>3, <1>4, <1>6, <1>7, <1>8, <1>9 DEF Stm

\* A declaration's step: the same domains are open, the same structs begun.
LEMMA PlainTableStep ==
  ASSUME IInv, status = "parsing", Plain(Item),
         NEW items, Accept(items) \/ GoOn(items), Ready(items, code),
         UNCHANGED <<owner, r, code, status>>,
         TableOK(domains', fns', structs', globals', Len(code)),
         Len(domains') = Len(domains), Len(fns') = Len(fns), Len(structs') = Len(structs)
  PROVE  IInv'
<1>1. Placed(todo) /\ OwnerFits(Base(todo), owner, Len(fns), Len(structs))
  BY DEF IInv
<1>2. free' \in Nat /\ todo' = items \o Tail(todo)
  BY ReadFree
<1>3. IsSequence(items) /\ Siblings(todo[1], items)
  BY DEF Ready, Fit, Siblings, Item
<1>4. Placed(todo') /\ SameBase(todo, todo')
  BY <1>1, <1>2, <1>3, PlainIs, Swapped DEF Item
<1>5. UNCHANGED owner /\ UNCHANGED r /\ UNCHANGED code /\ UNCHANGED status
      /\ Generating' = Generating
  BY DEF Generating
<1>6. OwnerFits(Base(todo'), owner', Len(fns'), Len(structs'))
  BY <1>1, <1>4, <1>5 DEF OwnerFits, SameBase, Owning, InHeading
<1>7. \A k \in DOMAIN items :
         ItemOK(items[k], Len(fns'), Len(structs'), code', Generating') /\ ~ Opens(items[k])
  BY <1>5 DEF Ready, Fit, Opens
<1>8. CodeOK(code', Len(code')) /\ OwnerOK(owner', Len(fns'), Len(structs'))
  BY <1>5 DEF IInv
<1>9. Keeping /\ Len(structs) <= Len(structs')
  BY <1>5, TablesAre, LensNat, ContinuesReflexive DEF Keeping
<1>10. Len(domains') - Owned(owner') = Len(domains) - Owned(owner)
  BY <1>5
<1>11. TableOK(domains', fns', structs', globals', Len(code'))
  BY <1>5
<1>12. QED
  BY <1>3, <1>4, <1>5, <1>6, <1>7, <1>8, <1>9, <1>10, <1>11, PlainIs, TableStep

\* A struct is being defined where a struct owns the domain: the last one.
LEMMA StructOwner ==
  ASSUME IInv, status = "parsing", owner.kind = "struct"
  PROVE  owner.no = Len(structs) /\ Len(structs) \in DOMAIN structs
<1>1. OwnerFits(Base(todo), owner, Len(fns), Len(structs))
  BY DEF IInv
<1>2. Base(todo) \in Owning
  BY <1>1 DEF OwnerFits, Nobody
<1>3. Base(todo) \in {"members", "endStruct"}
  BY <1>1, <1>2 DEF OwnerFits, Owning, InHeading
<1>4. Len(structs) > 0 /\ owner = [kind |-> "struct", no |-> Len(structs)]
  BY <1>1, <1>3 DEF OwnerFits
<1>5. QED
  BY <1>4, LensNat DEF Lens

LEMMA VariableStep ==
  ASSUME IInv, Variable
  PROVE  IInv'
<1>1. CASE Fail
  BY <1>1, Failed
<1>2. CASE End("undefined")
  BY <1>2, Ended
<1>3. CASE ~ Fail /\ ~ End("undefined")
  <2> DEFINE t == Item.type
             o == owner.no
             no == CASE owner.kind = "fn"     -> Len(fns[owner.no].locals)
                     [] owner.kind = "struct" -> Aligned(structs, NextOffset, t)
                     [] owner.kind = "none"   -> Len(globals) + 1
             m == [name |-> Item.name, type |-> t, offset |-> no]
             s == Symbol(Item.name, "variable", t, owner, no)
             y == [do |-> "initializer", type |-> t, slot |-> no + 1]
             z == [do |-> "declarators", type |-> [t EXCEPT !.dim = -1]]
             ls == Append(fns[o].locals, t)
             ms == Append(structs[o], m)
  <2>1. /\ status = "parsing" /\ Item.do = "variable"
        /\ fns' = IF owner.kind = "fn" THEN [fns EXCEPT ![owner.no].locals = ls] ELSE fns
        /\ structs' = IF owner.kind = "struct" THEN [structs EXCEPT ![owner.no] = ms] ELSE structs
        /\ globals' = IF owner.kind = "none" THEN Append(globals, t) ELSE globals
        /\ domains' = AddSymbol(s) /\ GoOn(<<y, z>>)
        /\ UNCHANGED <<owner, r, code, status>>
    BY <1>3 DEF Variable, Doing, Need, SymbolsOnly
  <2>2. Plain(Item) /\ Item.name \in Names /\ Proper(t, Len(structs))
    BY <2>1, ItemIs, PlainDo DEF ItemOK, Declaring, WithType
  <2>3. /\ SymbolsOK(domains, Len(fns), Len(structs), Len(globals))
        /\ FnsOK(fns, Len(structs), Len(code)) /\ StructsOK(structs) /\ IsSequence(globals)
        /\ Len(fns) \in Nat /\ Len(structs) \in Nat /\ Len(globals) \in Nat /\ Len(code) \in Nat
    BY TablesAre
  <2>4. /\ owner = Nobody \/ owner.kind \in {"fn", "struct"}
        /\ owner.kind = "fn" => o \in DOMAIN fns
        /\ owner.kind = "struct" => o = Len(structs) /\ o \in DOMAIN structs
    BY <2>1, <2>2, Compiling, StructOwner DEF IInv, OwnerOK, Generating
  <2>5. m.type = t
    OBVIOUS
  <2>6. s.name = Item.name /\ s.kind = "variable" /\ s.type = t /\ s.owner = owner /\ s.no = no
    BY DEF Symbol
  <2>7. y.do = "initializer" /\ y.type = t /\ z.do = "declarators" /\ z.type = WithDimension(t, -1)
    BY DEF WithDimension
  <2>8. owner = Nobody => no = Len(globals) + 1
    BY DEF Nobody
  <2>9. /\ owner.kind = "fn" => fns' = Put(fns, o, WithLocals(fns[o], ls))
        /\ owner.kind # "fn" => fns' = fns
    BY <2>1 DEF Put, WithLocals
  <2>10. /\ owner.kind = "struct" => structs' = Put(structs, o, ms)
         /\ owner.kind # "struct" => structs' = structs
    BY <2>1 DEF Put
  <2>11. /\ owner = Nobody => globals' = Append(globals, t)
         /\ owner.kind \in {"fn", "struct"} => globals' = globals
    BY <2>1 DEF Nobody
  <2>12. domains' = AddSymbol(s) /\ GoOn(<<y, z>>) /\ UNCHANGED <<owner, r, code, status>>
    BY <2>1
  <2> HIDE DEF t, o, no, m, s, y, z
  <2>13. FnsOK(fns', Len(structs), Len(code)) /\ Len(fns') = Len(fns)
    <3>1. CASE owner.kind = "fn"
      <4>1. TypeList(ls, Len(structs))
        BY <2>2, <2>3, <2>4, <3>1, TypeAppended DEF FnsOK, FnOK
      <4> HIDE DEF ls
      <4>2. QED
        BY <2>3, <2>4, <2>9, <3>1, <4>1, FnChanged
    <3>2. CASE owner.kind # "fn"
      BY <2>3, <2>9, <3>2
    <3>3. QED BY <3>1, <3>2
  <2>14. StructsOK(structs') /\ Len(structs') = Len(structs)
    <3>1. CASE owner.kind = "struct"
      <4>1. StructOK(structs[o], o) /\ Proper(m.type, o)
        BY <2>2, <2>3, <2>4, <2>5, <3>1 DEF StructsOK
      <4>2. StructOK(ms, o)
        BY <4>1, MemberAppended
      <4> HIDE DEF ms
      <4>3. QED
        BY <2>3, <2>4, <2>10, <3>1, <4>2, StructSet
    <3>2. CASE owner.kind # "struct"
      BY <2>3, <2>10, <3>2
    <3>3. QED BY <3>1, <3>2
  <2>15. /\ IsSequence(globals') /\ Len(globals') \in Nat /\ Len(globals) <= Len(globals')
         /\ owner = Nobody => Len(globals') = Len(globals) + 1
    <3>1. CASE owner = Nobody
      <4> DEFINE gs == Append(globals, t)
      <4>1. IsSequence(gs) /\ Len(gs) = Len(globals) + 1
        BY <2>3, AppendSequence
      <4>2. globals' = gs
        BY <2>11, <3>1
      <4> HIDE DEF gs
      <4>3. QED
        BY <2>3, <4>1, <4>2
    <3>2. CASE owner # Nobody
      BY <2>3, <2>4, <2>11, <3>2
    <3>3. QED BY <3>1, <3>2
  <2>16. SymbolsOK(domains', Len(fns), Len(structs), Len(globals')) /\ Len(domains') = Len(domains)
    <3>1. SymbolsOK(domains, Len(fns), Len(structs), Len(globals'))
      BY <2>3, <2>15, SymbolsMonotonic
    <3>2. SymbolOK(s, Len(fns), Len(structs), Len(globals'))
      <4>1. OwnerOK(owner, Len(fns), Len(structs))
        BY DEF IInv
      <4>2. QED
        BY <2>2, <2>3, <2>6, <2>8, <2>15, <4>1 DEF SymbolOK
    <3>3. QED
      BY <2>3, <2>12, <2>15, <3>1, <3>2, SymbolAdded
  <2>17. TableOK(domains', fns', structs', globals', Len(code))
    BY <2>13, <2>14, <2>15, <2>16 DEF TableOK
  <2>18. Fit(y, code) /\ Fit(z, code)
    <3>1. Proper(WithDimension(t, -1), Len(structs))
      BY <2>2, <2>3, DimensionProper
    <3>2. ItemOK(y, Len(fns), Len(structs), code, Generating)
      BY <2>2, <2>7 DEF ItemOK, Declaring, WithType
    <3>3. ItemOK(z, Len(fns), Len(structs), code, Generating)
      BY <2>7, <3>1 DEF ItemOK, Declaring, WithType
    <3>4. Loose(y) /\ Loose(z)
      BY <2>7 DEF Loose, AtTop, Heading, Inside, Owning, Reading
    <3>5. QED
      BY <2>2, <3>2, <3>3, <3>4, PlainFits
  <2>19. Ready(<<y, z>>, code)
    BY <2>18, ReadyShort
  <2>20. QED
    BY <2>1, <2>2, <2>12, <2>13, <2>14, <2>16, <2>17, <2>19, PlainTableStep
<1>4. QED BY <1>1, <1>2, <1>3

-----------------------------------------------------------------------------
(* The theorem.                                                            *)
LEMMA NextKeeps ==
  ASSUME IInv, Next
  PROVE  IInv'
<1>1. CASE ExpectedToken \/ Unit \/ TypeBase \/ StructName \/ StructTag \/ Members \/ EndStruct
  BY <1>1, ExpectedTokenStep, UnitStep, TypeBaseStep, StructNameStep, StructTagStep, MembersStep,
     EndStructStep
<1>2. CASE Name \/ Array \/ Dimension \/ EndArray \/ Variable \/ Initializer \/ Declarators
  BY <1>2, NameStep, ArrayStep, DimensionStep, EndArrayStep, VariableStep, InitializerStep,
     DeclaratorsStep
<1>3. CASE Declaration \/ Parameters \/ MoreParameters \/ Parameter \/ Body \/ EndFunction
  BY <1>3, DeclarationStep, ParametersStep, MoreParametersStep, ParameterStep, BodyStartStep,
     EndFunctionStep
<1>4. CASE Block \/ Stm \/ Return
  BY <1>4, BlockStep, StmStep, ReturnStep
<1>5. CASE Operator \/ Binary \/ Assignment \/ Assign \/ OperandOf \/ Paren \/ EndParen
  BY <1>5, OperatorStep, BinaryStep, AssignmentStep, AssignStep, OperandOfStep, ParenStep,
     EndParenStep
<1>6. CASE Cast \/ Convert \/ Unary \/ Postfix \/ Index \/ Field \/ Identifier
  BY <1>6, CastStep, ConvertStep, UnaryStep, PostfixStep, IndexStep, FieldStep, IdentifierStep
<1>7. CASE Arguments \/ Argument \/ Call
  BY <1>7, ArgumentsStep, ArgumentStep, CallStep
<1>8. CASE EndExpression \/ Initialize \/ ReturnValue \/ Condition \/ EndThen \/ EndIf \/ EndWhile
  BY <1>8, EndExpressionStep, InitializeStep, ReturnValueStep, ConditionStep, EndThenStep,
     EndIfStep, EndWhileStep
<1>9. QED
  BY <1>1, <1>2, <1>3, <1>4, <1>5, <1>6, <1>7, <1>8 DEF Next

\* free may begin at what the holes of the template allow at most.
LEMMA MostFree ==
  ASSUME NEW t \in Templates
  PROVE  Max({0} \cup {Fillers[h].most : h \in Holes \cap Range(t)}) \in Nat
<1> DEFINE n == Len(t)
           T == {0} \cup {Fillers[h].most : h \in Holes \cap Range(t)}
           f == [i \in 0 .. n |-> IF i > 0 /\ t[i] \in Holes THEN Fillers[t[i]].most ELSE 0]
           U == {f[i] : i \in 0 .. n}
<1>1. n \in Nat /\ DOMAIN t = 1 .. n
  BY TemplateAssumption, SequenceIs
<1>2. T \subseteq U
  <2>1. f[0] = 0 /\ 0 \in 0 .. n
    BY <1>1
  <2>2. ASSUME NEW h \in Holes \cap Range(t) PROVE Fillers[h].most \in U
    <3>1. PICK i \in DOMAIN t : t[i] = h
      BY DEF Range
    <3>2. i \in 0 .. n /\ i > 0 /\ t[i] \in Holes
      BY <1>1, <3>1
    <3>3. f[i] = Fillers[h].most
      BY <3>1, <3>2
    <3>4. QED
      BY <3>2, <3>3
  <2>3. 0 \in U
    BY <2>1
  <2> HIDE DEF U
  <2>4. QED
    BY <2>2, <2>3
<1>3. U \subseteq Nat
  <2> SUFFICES ASSUME NEW i \in 0 .. n PROVE f[i] \in Nat
    OBVIOUS
  <2>1. t[i] \in Holes => Fillers[t[i]].most \in Nat
    BY FillersAssumption
  <2>2. QED
    BY <2>1
<1>4. IsFiniteSet(U)
  <2>1. f \in Surjection(0 .. n, U)
    BY DEF Surjection
  <2>2. IsFiniteSet(0 .. n)
    BY <1>1, FS_Interval
  <2> HIDE DEF U, f
  <2>3. QED
    BY <2>1, <2>2, FS_Surjection
<1> HIDE DEF U, f
<1>5. PICK m \in Nat : \A x \in U : x <= m
  BY <1>3, <1>4, Bounded
<1>6. T \subseteq Int /\ T # {} /\ T \subseteq Nat /\ \A x \in T : x <= m
  <2>1. T \subseteq Nat /\ \A x \in T : x <= m
    <3> HIDE DEF T
    <3> QED BY <1>2, <1>3, <1>5
  <2>2. 0 \in T
    OBVIOUS
  <2> HIDE DEF T
  <2>3. QED
    BY <2>1, <2>2
<1>7. Max(T) \in T
  <2>1. m \in Int /\ T \subseteq Int /\ T # {} /\ \A x \in T : x <= m
    BY <1>5, <1>6
  <2> HIDE DEF T
  <2>2. QED
    BY <2>1, Largest
<1> HIDE DEF T
<1>8. Max(T) \in Nat
  BY <1>6, <1>7
<1>9. QED
  BY <1>8 DEF T

LEMMA ExternOK ==
  ASSUME NEW t, Proper(t, 0), NEW no
  PROVE  FnOK(Extern(t, no), 0, 0)
<1>1. IsSequence(<<t>>) /\ IsSequence(<<>>)
  BY ShortSequences
<1>2. TypeList(<<t>>, 0) /\ TypeList(<<>>, 0)
  BY <1>1 DEF TypeList
<1>3. Proper(VoidT, 0)
  BY TypeProper DEF VoidT
<1>4. QED
  BY <1>2, <1>3 DEF FnOK, Extern, Fn, NULL

LEMMA InitKeeps ==
  ASSUME Init
  PROVE  IInv
<1> DEFINE a == Symbol("put_int", "fn", VoidT, Nobody, 1)
           b == Symbol("put_double", "fn", VoidT, Nobody, 2)
           x == Extern(IntT, PutInt)
           y == Extern(DoubleT, PutDouble)
<1>1. /\ domains = << {a, b} >> /\ fns = <<x, y>> /\ structs = <<>> /\ globals = <<>> /\ code = <<>>
      /\ todo = <<Do("unit")>> /\ owner = Nobody /\ status = "parsing"
      /\ r = [type |-> VoidT, lval |-> FALSE]
  BY DEF Init
<1>2. free \in Nat
  BY MostFree DEF Init
<1>3. Proper(VoidT, 0) /\ Proper(IntT, 0) /\ Proper(DoubleT, 0)
  BY TypeProper DEF VoidT, IntT, DoubleT, Arithmetic
<1>4. FnOK(x, 0, 0) /\ FnOK(y, 0, 0)
  BY <1>3, ExternOK
<1>5. OwnerOK(Nobody, 2, 0)
  BY DEF OwnerOK
<1>6. SymbolOK(a, 2, 0, 0) /\ SymbolOK(b, 2, 0, 0)
  BY <1>3, <1>5, NamesAssumption DEF SymbolOK, Symbol
<1> HIDE DEF a, b, x, y
<1>7. IsSequence(domains) /\ IsSequence(fns) /\ IsSequence(structs) /\ IsSequence(globals)
      /\ IsSequence(code) /\ IsSequence(todo)
  BY <1>1, ShortSequences
<1>8. /\ Len(domains) = 1 /\ Len(fns) = 2 /\ Len(structs) = 0 /\ Len(globals) = 0 /\ Len(code) = 0
      /\ Len(todo) = 1
  BY <1>1
<1>9. SymbolsOK(domains, Len(fns), Len(structs), Len(globals))
  BY <1>1, <1>6, <1>7, <1>8 DEF SymbolsOK
<1>10. FnsOK(fns, Len(structs), Len(code))
  <2>1. DOMAIN fns = 1 .. 2 /\ fns[1] = x /\ fns[2] = y
    BY <1>1
  <2>2. QED
    BY <1>4, <1>7, <1>8, <2>1 DEF FnsOK
<1>11. StructsOK(structs)
  BY <1>1, <1>7 DEF StructsOK
<1>12. CodeOK(code, Len(code))
  BY <1>1, <1>7, <1>8 DEF CodeOK
<1>13. ValueOK(r, Len(structs))
  BY <1>1, <1>3, <1>8 DEF ValueOK, Value
<1>14. OwnerOK(owner, Len(fns), Len(structs))
  BY <1>1, <1>5, <1>8
<1>15. todo[1].do = "unit" /\ DOMAIN todo = 1 .. 1
  BY <1>1 DEF Do
<1>16. Placed(todo) /\ Base(todo) = "unit"
  BY <1>7, <1>8, <1>15, OnePlaced
<1>17. OwnerFits(Base(todo), owner, Len(fns), Len(structs))
  BY <1>1, <1>16 DEF OwnerFits, Owning, InHeading
<1>18. Nested(domains, owner, todo)
  <2>0. \A k \in DOMAIN todo : ~ Opens(todo[k])
    BY <1>15 DEF Opens
  <2>1. Opened(todo) = 0
    BY <1>7, <2>0, OpenedFinite
  <2>2. QED
    BY <1>1, <1>8, <2>1 DEF Nested
<1>19. \A k \in DOMAIN todo : ItemOK(todo[k], Len(fns), Len(structs), code, Generating)
  BY <1>15, UnitItem
<1>20. QED
  BY <1>1, <1>2, <1>7, <1>9, <1>10, <1>11, <1>12, <1>13, <1>14, <1>16, <1>17, <1>18, <1>19
     DEF IInv, TableOK

LEMMA StutterKeeps ==
  ASSUME IInv, UNCHANGED vars
  PROVE  IInv'
  BY DEF IInv, vars, input, table, Generating

\* The invariant says what TypeOK does.
LEMMA References ==
  ASSUME IInv
  PROVE  TypeOK
<1>1. /\ SymbolsOK(domains, Len(fns), Len(structs), Len(globals))
      /\ FnsOK(fns, Len(structs), Len(code)) /\ StructsOK(structs)
      /\ CodeOK(code, Len(code)) /\ ValueOK(r, Len(structs)) /\ OwnerOK(owner, Len(fns), Len(structs))
      /\ status \in {"parsing", "done", "error", "undefined"} /\ free \in Nat
  BY DEF IInv, TableOK
<1>2. /\ DOMAIN fns = 1 .. Len(fns) /\ DOMAIN structs = 1 .. Len(structs)
      /\ DOMAIN code = 1 .. Len(code) /\ DOMAIN globals = 1 .. Len(globals)
  BY LensNat
<1>3. \A t : Proper(t, Len(structs)) => t \in Types
  BY DEF Proper, Types, Bases
<1>4. \A o : OwnerOK(o, Len(fns), Len(structs)) => o \in Owners
  BY <1>2 DEF OwnerOK, Owners
<1>5. r \in [type : Types, lval : BOOLEAN]
  BY <1>1, <1>3 DEF ValueOK, Value
<1>6. domains # <<>> /\ \A d \in DOMAIN domains : \A s \in domains[d] :
        /\ s.name \in Names /\ s.type \in Types /\ s.owner \in Owners
        /\ s.kind = "fn" => s.no \in DOMAIN fns
        /\ s.kind = "struct" => s.type = StructT(s.no) /\ s.no \in DOMAIN structs
        /\ s.kind = "variable" /\ s.owner = Nobody => s.no \in DOMAIN globals
  BY <1>1, <1>2, <1>3, <1>4 DEF SymbolsOK, SymbolOK
<1>7. ASSUME NEW f \in DOMAIN fns
      PROVE  /\ fns[f].first \in 0 .. Len(code)
             /\ \A t \in Range(fns[f].params) \cup Range(fns[f].locals) : t \in Types
  <2>1. FnOK(fns[f], Len(structs), Len(code))
    BY <1>1 DEF FnsOK
  <2>2. \A s : TypeList(s, Len(structs)) => \A t \in Range(s) : t \in Types
    BY <1>3 DEF TypeList, Range
  <2>3. QED
    BY <2>1, <2>2 DEF FnOK
<1>8. \A k \in DOMAIN structs : \A i \in DOMAIN structs[k] : structs[k][i].type.sym \in 0 .. k
  BY <1>1 DEF StructsOK, StructOK, Proper
<1>9. \A i \in DOMAIN code :
        /\ code[i].next \in 0 .. Len(code)
        /\ code[i].op = "CALL" => code[i].arg \in 0 .. Len(code)
        /\ code[i].op \in {"JMP", "JF"} => code[i].arg \in {Unset} \cup DOMAIN code
  BY <1>1, <1>2 DEF CodeOK, NodeOK
<1>10. QED
  BY <1>1, <1>4, <1>5, <1>6, <1>7, <1>8, <1>9 DEF TypeOK

(* What the parser's suspended activations count on is there when they go  *)
(* on: the instruction to set a jump or insert a conversion at, the        *)
(* function called, the struct or function whose members are declared      *)
(* (the C locals across parser.c's recursive calls).                       *)
THEOREM Invariant == Spec => []IInv
<1>1. Init => IInv
  BY InitKeeps
<1>2. IInv /\ [Next]_vars => IInv'
  BY NextKeeps, StutterKeeps
<1>3. QED
  BY <1>1, <1>2, PTL DEF Spec

(* Every reference that the compiler keeps, between symbols, types,        *)
(* functions, structs and instructions, leads to something that exists,    *)
(* whatever the source: after a prototype's parameters were freed, a       *)
(* function's code was begun, a jump was set or a conversion was inserted  *)
(* (parser.c and the tables of analyzer/).                                 *)
THEOREM Typing == Spec => []TypeOK
<1>1. IInv => TypeOK
  BY References
<1>2. QED
  BY <1>1, Invariant, PTL
=============================================================================
