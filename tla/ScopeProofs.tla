------------------------------ MODULE ScopeProofs ------------------------------
(***************************************************************************)
(* Scopes, slots and layout: what the symbol table holds while a function  *)
(* or a struct is being defined, and where the members of structs are, for *)
(* every source.                                                           *)
(***************************************************************************)
EXTENDS CompilerProofs

-----------------------------------------------------------------------------
(* The invariant, of the values of domains, owner and fns.                 *)
FrameOf(s, f) == IF s.kind = "parameter" THEN f.params ELSE f.locals

\* The place of s is one of the frame's and has the type of s.
InFrame(s, f) ==
  /\ s.no \in Nat /\ s.no < Len(FrameOf(s, f)) /\ FrameOf(s, f)[s.no + 1] = s.type

\* What may be declared within the definition of o.
Local(s, o, fs) ==
  /\ s.owner = o /\ s.kind \in {"variable", "parameter"}
  /\ s.kind = "parameter" => o.kind = "fn"
  /\ o.kind = "fn" => InFrame(s, fs[o.no])

Distinct(ds) == \A d \in DOMAIN ds : \A s, u \in ds[d] : s.name = u.name => s = u
Locals(ds, o, fs) == \A d \in 2 .. Len(ds) : \A s \in ds[d] : Local(s, o, fs)
Apart(ds, o) ==
  o.kind = "fn" =>
    \A d, e \in 2 .. Len(ds) : \A s \in ds[d], u \in ds[e] : s.kind = u.kind /\ s.no = u.no => s = u

Scoped(ds, o, fs) == Distinct(ds) /\ Locals(ds, o, fs) /\ Apart(ds, o)

SInv == Scoped(domains, owner, fns)

-----------------------------------------------------------------------------
(* What opening and closing a domain, and declaring a name, preserve.      *)

\* At the global level there is nothing local.
LEMMA OneDomain ==
  ASSUME NEW ds, Distinct(ds), Len(ds) <= 1, Len(ds) \in Nat, NEW o, NEW fs
  PROVE  Scoped(ds, o, fs)
<1>1. 2 .. Len(ds) = {}
  OBVIOUS
<1>2. QED
  BY <1>1 DEF Scoped, Locals, Apart

LEMMA Pushed ==
  ASSUME NEW ds, IsSequence(ds), NEW o, NEW fs, Scoped(ds, o, fs)
  PROVE  Scoped(PushDomain(ds), o, fs)
<1> DEFINE es == Append(ds, {})
           n == Len(ds)
<1>1. n \in Nat /\ DOMAIN ds = 1 .. n
  BY SequenceProperties
<1>2. IsSequence(es) /\ Len(es) = n + 1 /\ (\A i \in 1 .. n : es[i] = ds[i]) /\ es[n + 1] = {}
  BY AppendSequence
<1>3. PushDomain(ds) = es
  BY DEF PushDomain
<1> HIDE DEF es, n
<1>4. DOMAIN es = 1 .. n + 1
  BY <1>2, SequenceProperties
<1>5. \A d \in 1 .. n + 1 : \A s \in es[d] : d \in 1 .. n /\ s \in ds[d] /\ es[d] = ds[d]
  <2> TAKE d \in 1 .. n + 1
  <2> TAKE s \in es[d]
  <2>1. d # n + 1
    BY <1>2
  <2>2. d \in 1 .. n
    BY <1>1, <2>1
  <2>3. QED
    BY <1>2, <2>2
<1>6. \A d \in 2 .. Len(es) : \A s \in es[d] : d \in 2 .. Len(ds) /\ s \in ds[d]
  <2> TAKE d \in 2 .. Len(es)
  <2> TAKE s \in es[d]
  <2>1. d \in 1 .. n + 1
    BY <1>1, <1>2
  <2>2. d \in 1 .. n /\ s \in ds[d]
    BY <1>5, <2>1
  <2>3. QED
    BY <1>1, <2>2 DEF n
<1>7. Distinct(es)
  BY <1>1, <1>4, <1>5 DEF Scoped, Distinct
<1>8. Locals(es, o, fs)
  BY <1>6 DEF Scoped, Locals
<1>9. Apart(es, o)
  BY <1>6 DEF Scoped, Apart
<1>10. QED
  BY <1>3, <1>7, <1>8, <1>9 DEF Scoped

LEMMA Dropped ==
  ASSUME NEW ds, IsSequence(ds), ds # <<>>, NEW o, NEW fs, Scoped(ds, o, fs)
  PROVE  Scoped(Front(ds), o, fs)
<1> DEFINE es == Front(ds)
           n == Len(ds)
<1>1. n \in Nat \ {0} /\ DOMAIN ds = 1 .. n
  BY SequenceProperties
<1>2. IsSequence(es) /\ Len(es) = n - 1 /\ (\A i \in 1 .. n - 1 : es[i] = ds[i])
  BY FrontSequence
<1> HIDE DEF es
<1>3. DOMAIN es = 1 .. n - 1
  BY <1>2, SequenceProperties
<1>4. \A d \in DOMAIN es : d \in DOMAIN ds /\ es[d] = ds[d]
  BY <1>1, <1>2, <1>3
<1>5. \A d \in 2 .. Len(es) : d \in 2 .. Len(ds) /\ es[d] = ds[d]
  BY <1>1, <1>2
<1>6. Distinct(es)
  BY <1>4 DEF Scoped, Distinct
<1>7. Locals(es, o, fs)
  BY <1>5 DEF Scoped, Locals
<1>8. Apart(es, o)
  BY <1>5 DEF Scoped, Apart
<1>9. QED
  BY <1>6, <1>7, <1>8 DEF Scoped, es

\* The domains once s is declared.
LEMMA AddedIs ==
  ASSUME IInv, NEW s
  PROVE  LET n == Len(domains)  ds == AddSymbol(s) IN
         /\ n \in Nat \ {0} /\ IsSequence(ds) /\ Len(ds) = n /\ DOMAIN ds = 1 .. n
         /\ DOMAIN domains = 1 .. n
         /\ ds[n] = Innermost \cup {s} /\ \A d \in 1 .. n - 1 : ds[d] = domains[d]
<1> DEFINE n == Len(domains)
           new == domains[n] \cup {s}
           ds == [domains EXCEPT ![n] = new]
<1>1. IsSequence(domains) /\ n \in Nat \ {0} /\ DOMAIN domains = 1 .. n /\ n \in DOMAIN domains
  BY TablesAre
<1>2. AddSymbol(s) = ds
  BY DEF AddSymbol
<1>3. IsSequence(ds) /\ Len(ds) = n /\ \A j \in 1 .. n : ds[j] = IF j = n THEN new ELSE domains[j]
  <2> HIDE DEF new
  <2> QED BY <1>1, ExceptSequence
<1>4. new = Innermost \cup {s}
  BY DEF Innermost
<1> HIDE DEF ds, new
<1>5. DOMAIN ds = 1 .. n
  BY <1>1, <1>3, SequenceProperties
<1>6. ds[n] = new /\ \A d \in 1 .. n - 1 : ds[d] = domains[d]
  <2>1. n \in Nat \ {0}
    BY <1>1
  <2> HIDE DEF n
  <2>2. n \in 1 .. n /\ \A d \in 1 .. n - 1 : d \in 1 .. n /\ d # n
    BY <2>1
  <2>3. QED
    BY <1>3, <2>2
<1>7. QED
  BY <1>1, <1>2, <1>3, <1>4, <1>5, <1>6

LEMMA AddedDistinct ==
  ASSUME IInv, Distinct(domains), NEW s, ~ Declared(s.name)
  PROVE  Distinct(AddSymbol(s))
<1> DEFINE ds == AddSymbol(s)
           n == Len(domains)
<1>1. /\ n \in Nat \ {0} /\ DOMAIN ds = 1 .. n /\ DOMAIN domains = 1 .. n
      /\ ds[n] = Innermost \cup {s} /\ \A d \in 1 .. n - 1 : ds[d] = domains[d]
  BY AddedIs
<1> HIDE DEF ds
<1>2. \A u \in Innermost : u.name # s.name
  BY DEF Declared
<1>3. \A u, v \in Innermost : u.name = v.name => u = v
  BY <1>1 DEF Distinct, Innermost
<1>4. \A u, v \in ds[n] : u.name = v.name => u = v
  BY <1>1, <1>2, <1>3
<1>5. ASSUME NEW d \in 1 .. n PROVE \A u, v \in ds[d] : u.name = v.name => u = v
  <2>1. CASE d = n
    BY <1>4, <2>1
  <2>2. CASE d # n
    <3>1. d \in 1 .. n - 1
      <4>1. n \in Nat
        BY <1>1
      <4> HIDE DEF n
      <4>2. QED
        BY <2>2, <4>1
    <3>2. QED
      BY <1>1, <3>1 DEF Distinct
  <2>3. QED BY <2>1, <2>2
<1>6. QED
  BY <1>1, <1>5 DEF Distinct, ds

\* A name that is new to the innermost domain, of a place that is its own.
LEMMA AddedScoped ==
  ASSUME IInv, SInv, NEW s, ~ Declared(s.name), NEW fs,
         Locals(domains, owner, fs), Len(domains) = 1 \/ Local(s, owner, fs),
         owner.kind = "fn" =>
           \A d \in 2 .. Len(domains) : \A u \in domains[d] : u.kind = s.kind => u.no # s.no
  PROVE  Scoped(AddSymbol(s), owner, fs)
<1> DEFINE ds == AddSymbol(s)
           n == Len(domains)
<1>1. /\ n \in Nat \ {0} /\ Len(ds) = n
      /\ ds[n] = Innermost \cup {s} /\ \A d \in 1 .. n - 1 : ds[d] = domains[d]
  BY AddedIs
<1>2. Distinct(ds)
  BY AddedDistinct DEF SInv, Scoped
<1> HIDE DEF ds
<1>3. ASSUME NEW d \in 2 .. n, NEW u \in ds[d]
      PROVE  u \in domains[d] \/ (u = s /\ d = n /\ Len(domains) # 1)
  <2>1. CASE d = n
    <3>1. u \in domains[n] \/ u = s
      BY <1>1, <1>3, <2>1 DEF Innermost
    <3>2. n # 1
      BY <1>1, <2>1
    <3>3. QED
      BY <2>1, <3>1, <3>2
  <2>2. CASE d # n
    <3>1. d \in 1 .. n - 1
      <4>1. n \in Nat
        BY <1>1
      <4> HIDE DEF n
      <4>2. QED
        BY <2>2, <4>1
    <3>2. QED
      BY <1>1, <1>3, <3>1
  <2>3. QED BY <2>1, <2>2
<1>4. Locals(ds, owner, fs)
  BY <1>1, <1>3 DEF Locals
<1>5. Apart(ds, owner)
  <2> SUFFICES ASSUME owner.kind = "fn", NEW d \in 2 .. n, NEW e \in 2 .. n,
                      NEW u \in ds[d], NEW v \in ds[e], u.kind = v.kind, u.no = v.no
               PROVE  u = v
    BY <1>1 DEF Apart
  <2>1. (u \in domains[d] \/ u = s) /\ (v \in domains[e] \/ v = s)
    BY <1>3
  <2>2. u \in domains[d] /\ v \in domains[e] => u = v
    BY DEF SInv, Scoped, Apart
  <2>3. QED
    BY <2>1, <2>2
<1>6. QED
  BY <1>2, <1>4, <1>5 DEF Scoped, ds

\* The fields that the parser does not set are the function's.
LEMMA WithFields ==
  ASSUME NEW f, NEW ns, NEW nc, FnOK(f, ns, nc), NEW x
  PROVE  /\ WithParams(f, x).params = x /\ WithParams(f, x).locals = f.locals
         /\ WithLocals(f, x).locals = x /\ WithLocals(f, x).params = f.params
         /\ WithDeclaration(f, x).params = f.params /\ WithDeclaration(f, x).locals = f.locals
         /\ WithFirst(f, x).params = f.params /\ WithFirst(f, x).locals = f.locals
<1> DEFINE g == Fn(f.type, f.params, f.locals, f.declaration, f.extern, f.first)
<1>1. f = g
  BY DEF FnOK
<1>2. /\ WithParams(g, x).params = x /\ WithParams(g, x).locals = f.locals
      /\ WithLocals(g, x).locals = x /\ WithLocals(g, x).params = f.params
      /\ WithDeclaration(g, x).params = f.params /\ WithDeclaration(g, x).locals = f.locals
      /\ WithFirst(g, x).params = f.params /\ WithFirst(g, x).locals = f.locals
  BY DEF WithParams, WithLocals, WithDeclaration, WithFirst, Fn
<1>3. QED
  BY <1>1, <1>2

\* A list is longer, and begins as it was.
Grown(s, t) == Len(s) \in Nat /\ Len(t) \in Nat /\ Len(s) <= Len(t) /\ \A i \in 1 .. Len(s) : t[i] = s[i]

LEMMA GrownInFrame ==
  ASSUME NEW s, NEW f, NEW g, InFrame(s, f), Grown(f.params, g.params), Grown(f.locals, g.locals)
  PROVE  InFrame(s, g)
<1> DEFINE a == FrameOf(s, f)
           b == FrameOf(s, g)
<1>1. Grown(a, b)
  BY DEF FrameOf
<1>2. s.no \in Nat /\ s.no < Len(a) /\ a[s.no + 1] = s.type
  BY DEF InFrame
<1> HIDE DEF a, b
<1>3. s.no + 1 \in 1 .. Len(a)
  BY <1>1, <1>2 DEF Grown
<1>4. s.no < Len(b) /\ b[s.no + 1] = s.type
  BY <1>1, <1>2, <1>3 DEF Grown
<1>5. QED
  BY <1>2, <1>4 DEF InFrame, a, b

LEMMA GrownReflexive ==
  ASSUME NEW s, IsSequence(s)
  PROVE  Grown(s, s)
  BY SequenceProperties DEF Grown

\* What is local stays so while the frame of the function grows.
LEMMA LocalsKept ==
  ASSUME SInv, NEW fs,
         owner.kind = "fn" => /\ Grown(fns[owner.no].params, fs[owner.no].params)
                              /\ Grown(fns[owner.no].locals, fs[owner.no].locals)
  PROVE  Locals(domains, owner, fs)
<1>1. ASSUME NEW d \in 2 .. Len(domains), NEW s \in domains[d] PROVE Local(s, owner, fs)
  <2>1. Local(s, owner, fns)
    BY DEF SInv, Scoped, Locals
  <2>2. owner.kind = "fn" => InFrame(s, fs[owner.no])
    BY <2>1, GrownInFrame DEF Local
  <2>3. QED
    BY <2>1, <2>2 DEF Local
<1>2. QED
  BY <1>1 DEF Locals

\* Where nobody owns what is declared the global domain is the only one: a
\* block is open within a function only.
LEMMA NobodysDomain ==
  ASSUME IInv, status = "parsing", owner = Nobody
  PROVE  Len(domains) = 1 /\ SymbolsOK(domains, Len(fns), Len(structs), Len(globals))
<1>1. Placed(todo) /\ OwnerFits(Base(todo), owner, Len(fns), Len(structs)) /\ Nested(domains, owner, todo)
  BY DEF IInv
<1>2. Base(todo) # "endFunction"
  BY <1>1 DEF OwnerFits, Nobody
<1>3. \A k \in DOMAIN todo : ~ Opens(todo[k])
  BY <1>1, <1>2 DEF Placed, Opens, Inside
<1>4. Opened(todo) = 0
  BY <1>1, <1>3, OpenedFinite DEF Placed
<1>5. QED
  BY <1>1, <1>4, TablesAre DEF Nested

\* What the global level owns is one domain.
LEMMA OwnedDomain ==
  ASSUME IInv, status = "parsing", AtTop(Item)
  PROVE  Len(domains) = 1 + Owned(owner)
<1>1. Placed(todo) /\ AtTop(todo[1]) /\ Nested(domains, owner, todo) /\ Item.do # "block"
  BY TopIs
<1>2. Len(todo) = 2 /\ todo[2].do = "unit" /\ DOMAIN todo = 1 .. 2 /\ IsSequence(todo)
  BY <1>1, OnTop
<1>3. \A k \in DOMAIN todo : k = 1 \/ k = 2
  BY <1>2
<1>4. \A k \in DOMAIN todo : ~ Opens(todo[k])
  BY <1>1, <1>2, <1>3 DEF Opens, Item
<1>5. Opened(todo) = 0
  BY <1>2, <1>4, OpenedFinite
<1>6. QED
  BY <1>1, <1>5 DEF Nested, Owned

-----------------------------------------------------------------------------
(* The steps that change the symbol table.                                 *)
LEMMA EnteredScoped ==
  ASSUME IInv, SInv, status = "parsing", AtTop(Item), Item.do \notin Owning,
         \/ domains' = PushDomain(domains)
         \/ \E s : ~ Declared(s.name) /\ domains' = PushDomain(AddSymbol(s))
  PROVE  SInv'
<1>1. owner = Nobody
  BY TopIs DEF OwnerFits
<1>2. Len(domains) = 1 /\ IsSequence(domains) /\ Distinct(domains)
  BY <1>1, NobodysDomain, TablesAre DEF SInv, Scoped
<1>3. ASSUME NEW ds, IsSequence(ds), Len(ds) = 1, Distinct(ds), domains' = PushDomain(ds) PROVE SInv'
  <2>1. Len(ds) <= 1 /\ Len(ds) \in Nat
    BY <1>3
  <2>2. Scoped(ds, owner', fns')
    BY <1>3, <2>1, OneDomain
  <2>3. Scoped(PushDomain(ds), owner', fns')
    BY <1>3, <2>2, Pushed
  <2>4. QED
    BY <1>3, <2>3 DEF SInv
<1>4. ASSUME NEW s, ~ Declared(s.name), domains' = PushDomain(AddSymbol(s)) PROVE SInv'
  <2> DEFINE ds == AddSymbol(s)
  <2>1. IsSequence(ds) /\ Len(ds) = 1
    BY <1>2, AddedIs
  <2>2. Distinct(ds)
    BY <1>2, <1>4, AddedDistinct
  <2>3. domains' = PushDomain(ds)
    BY <1>4
  <2> HIDE DEF ds
  <2>4. QED
    BY <1>3, <2>1, <2>2, <2>3
<1>5. QED
  BY <1>2, <1>3, <1>4

LEMMA LeftScoped ==
  ASSUME IInv, SInv, status = "parsing", AtTop(Item), Item.do \in Owning, domains' = DropDomain
  PROVE  SInv'
<1> DEFINE ds == Front(domains)
<1>1. owner # Nobody
  BY TopIs DEF OwnerFits, Owning, InHeading, Nobody
<1>2. Len(domains) = 2 /\ IsSequence(domains) /\ domains # <<>>
  BY <1>1, OwnedDomain, TablesAre DEF Owned, SymbolsOK
<1>3. Scoped(ds, owner, fns)
  BY <1>2, Dropped DEF SInv
<1>4. Len(ds) = Len(domains) - 1
  BY <1>2, FrontSequence
<1>5. domains' = ds
  BY DEF DropDomain
<1> HIDE DEF ds
<1>6. Scoped(ds, owner', fns')
  <2>1. Len(ds) <= 1 /\ Len(ds) \in Nat /\ Distinct(ds)
    BY <1>2, <1>3, <1>4 DEF Scoped
  <2>2. QED
    BY <2>1, OneDomain
<1>7. QED
  BY <1>5, <1>6 DEF SInv

\* A prototype's or a definition's body begins: its frame is what it was.
LEMMA FrameUntouched ==
  ASSUME IInv, SInv, UNCHANGED domains, UNCHANGED owner,
         owner.kind = "fn" => owner.no \in DOMAIN fns, NEW x,
         fns' = Put(fns, owner.no, WithFirst(fns[owner.no], x))
  PROVE  SInv'
<1>1. owner.kind = "fn" =>
        /\ fns'[owner.no].params = fns[owner.no].params /\ IsSequence(fns[owner.no].params)
        /\ fns'[owner.no].locals = fns[owner.no].locals /\ IsSequence(fns[owner.no].locals)
  <2> SUFFICES ASSUME owner.kind = "fn"
               PROVE  /\ fns'[owner.no].params = fns[owner.no].params /\ IsSequence(fns[owner.no].params)
                      /\ fns'[owner.no].locals = fns[owner.no].locals /\ IsSequence(fns[owner.no].locals)
    OBVIOUS
  <2> DEFINE o == owner.no
             f == fns[o]
             g == WithFirst(f, x)
  <2>1. FnOK(f, Len(structs), Len(code)) /\ o \in DOMAIN fns
    BY TablesAre DEF FnsOK
  <2>2. g.params = f.params /\ g.locals = f.locals
    BY <2>1, WithFields
  <2>3. fns'[o] = g
    BY <2>1 DEF Put
  <2>4. IsSequence(f.params) /\ IsSequence(f.locals)
    BY <2>1 DEF FnOK, TypeList
  <2> HIDE DEF g, f, o
  <2>5. fns'[o].params = f.params /\ fns'[o].locals = f.locals
    BY <2>2, <2>3
  <2>6. QED
    BY <2>4, <2>5 DEF o, f
<1>2. Locals(domains, owner, fns')
  BY <1>1, GrownReflexive, LocalsKept
<1>3. Scoped(domains, owner, fns')
  BY <1>2 DEF SInv, Scoped
<1>4. QED
  BY <1>3 DEF SInv

\* A symbol gets the next place of the frame.
LEMMA NextPlace ==
  ASSUME NEW f, NEW ns, NEW nc, FnOK(f, ns, nc), NEW t
  PROVE  /\ Grown(f.params, Append(f.params, t)) /\ Grown(f.locals, Append(f.locals, t))
         /\ Grown(f.params, f.params) /\ Grown(f.locals, f.locals)
         /\ Len(Append(f.params, t)) = Len(f.params) + 1 /\ Append(f.params, t)[Len(f.params) + 1] = t
         /\ Len(Append(f.locals, t)) = Len(f.locals) + 1 /\ Append(f.locals, t)[Len(f.locals) + 1] = t
<1>1. ASSUME NEW s, IsSequence(s)
      PROVE  /\ Grown(s, Append(s, t)) /\ Grown(s, s)
             /\ Len(Append(s, t)) = Len(s) + 1 /\ Append(s, t)[Len(s) + 1] = t
  <2> DEFINE u == Append(s, t)
  <2>1. Len(s) \in Nat /\ Len(u) = Len(s) + 1 /\ (\A i \in 1 .. Len(s) : u[i] = s[i]) /\ u[Len(s) + 1] = t
    BY <1>1, AppendSequence, SequenceProperties
  <2> HIDE DEF u
  <2>2. Grown(s, u) /\ Grown(s, s)
    BY <2>1 DEF Grown
  <2>3. QED
    BY <2>1, <2>2 DEF u
<1>2. IsSequence(f.params) /\ IsSequence(f.locals)
  BY DEF FnOK, TypeList
<1>3. QED
  BY <1>1, <1>2

LEMMA ParameterScoped ==
  ASSUME IInv, SInv, Parameter, ~ Fail
  PROVE  SInv'
<1> DEFINE o == owner.no
           f == fns[o]
           t == Item.type
           ps == Append(f.params, t)
           no == Len(f.params)
           g == WithParams(f, ps)
           s == Symbol(Item.name, "parameter", t, owner, no)
<1>1. /\ status = "parsing" /\ Item.do = "parameter" /\ ~ Declared(Item.name)
      /\ fns' = [fns EXCEPT ![o].params = ps]
      /\ domains' = AddSymbol(s) /\ owner' = owner
  BY DEF Parameter, Doing, Need
<1>2. owner.kind = "fn" /\ o \in DOMAIN fns
  BY <1>1, HeadingIs DEF Heading
<1>3. FnOK(f, Len(structs), Len(code)) /\ IsSequence(fns)
  BY <1>2, TablesAre DEF FnsOK
<1>4. Grown(f.params, ps) /\ Grown(f.locals, f.locals) /\ Len(ps) = no + 1 /\ ps[no + 1] = t
  BY <1>3, NextPlace
<1>5. fns' = Put(fns, o, g)
  BY <1>1 DEF Put, WithParams
<1>6. fns'[o] = g
  BY <1>2, <1>5 DEF Put
<1>7. g.params = ps /\ g.locals = f.locals
  <2> HIDE DEF ps, f
  <2> QED BY <1>3, WithFields
<1>8. s.name = Item.name /\ s.kind = "parameter" /\ s.type = t /\ s.owner = owner /\ s.no = no
  BY DEF Symbol
<1>9. no \in Nat
  BY <1>4 DEF Grown
<1> HIDE DEF s, g, ps, t, no
<1>10. Locals(domains, owner, fns')
  <2>1. Grown(f.params, fns'[o].params) /\ Grown(f.locals, fns'[o].locals)
    BY <1>4, <1>6, <1>7
  <2>2. QED
    BY <2>1, LocalsKept
<1>11. Local(s, owner, fns')
  <2>1. FrameOf(s, fns'[o]) = ps
    BY <1>6, <1>7, <1>8 DEF FrameOf
  <2>2. InFrame(s, fns'[o])
    BY <1>4, <1>8, <1>9, <2>1 DEF InFrame
  <2>3. QED
    BY <1>2, <1>8, <2>2 DEF Local
<1>12. \A d \in 2 .. Len(domains) : \A u \in domains[d] : u.kind = s.kind => u.no # s.no
  <2> SUFFICES ASSUME NEW d \in 2 .. Len(domains), NEW u \in domains[d], u.kind = "parameter"
               PROVE  u.no # no
    BY <1>8
  <2>1. InFrame(u, f)
    BY <1>2 DEF SInv, Scoped, Locals, Local
  <2>2. FrameOf(u, f) = f.params
    BY DEF FrameOf
  <2>3. u.no < no /\ u.no \in Nat
    BY <2>1, <2>2 DEF InFrame, no
  <2>4. QED
    BY <1>9, <2>3
<1>13. Scoped(AddSymbol(s), owner, fns')
  BY <1>1, <1>8, <1>10, <1>11, <1>12, AddedScoped
<1>14. QED
  BY <1>1, <1>13 DEF SInv

LEMMA VariableScoped ==
  ASSUME IInv, SInv, Variable, ~ Fail, ~ End("undefined")
  PROVE  SInv'
<1> DEFINE o == owner.no
           f == fns[o]
           t == Item.type
           ls == Append(f.locals, t)
           g == WithLocals(f, ls)
           no == CASE owner.kind = "fn"     -> Len(fns[owner.no].locals)
                   [] owner.kind = "struct" -> Aligned(structs, NextOffset, t)
                   [] owner.kind = "none"   -> Len(globals) + 1
           s == Symbol(Item.name, "variable", t, owner, no)
<1>1. /\ status = "parsing" /\ Item.do = "variable" /\ ~ Declared(Item.name)
      /\ fns' = IF owner.kind = "fn" THEN [fns EXCEPT ![o].locals = ls] ELSE fns
      /\ domains' = AddSymbol(s) /\ owner' = owner
  BY DEF Variable, Doing, Need
<1>2. s.name = Item.name /\ s.kind = "variable" /\ s.type = t /\ s.owner = owner /\ s.no = no
  BY DEF Symbol
<1>3. OwnerOK(owner, Len(fns), Len(structs)) /\ DOMAIN fns = 1 .. Len(fns)
  BY LensNat DEF IInv
<1>4. CASE owner.kind = "fn"
  <2>1. o \in DOMAIN fns
    BY <1>3, <1>4 DEF OwnerOK, Nobody
  <2>2. FnOK(f, Len(structs), Len(code)) /\ IsSequence(fns)
    BY <2>1, TablesAre DEF FnsOK
  <2>3. no = Len(f.locals)
    BY <1>4
  <2>4. /\ Grown(f.locals, ls) /\ Grown(f.params, f.params) /\ Len(ls) = Len(f.locals) + 1
        /\ ls[Len(f.locals) + 1] = t /\ Len(f.locals) \in Nat
    <3>1. /\ Grown(f.locals, ls) /\ Grown(f.params, f.params) /\ Len(ls) = Len(f.locals) + 1
          /\ ls[Len(f.locals) + 1] = t
      BY <2>2, NextPlace
    <3>2. QED
      BY <3>1 DEF Grown
  <2>5. fns' = Put(fns, o, g)
    BY <1>1, <1>4 DEF Put, WithLocals
  <2>6. fns'[o] = g
    BY <2>1, <2>5 DEF Put
  <2>7. g.locals = ls /\ g.params = f.params
    <3> HIDE DEF ls, f
    <3> QED BY <2>2, WithFields
  <2> HIDE DEF s, g, ls, t, no
  <2>8. Locals(domains, owner, fns')
    <3>1. Grown(f.params, fns'[o].params) /\ Grown(f.locals, fns'[o].locals)
      BY <2>4, <2>6, <2>7
    <3>2. QED
      BY <3>1, LocalsKept
  <2>9. Local(s, owner, fns')
    <3>1. FrameOf(s, fns'[o]) = ls
      BY <1>2, <2>6, <2>7 DEF FrameOf
    <3>2. InFrame(s, fns'[o])
      BY <1>2, <2>3, <2>4, <3>1 DEF InFrame
    <3>3. QED
      BY <1>2, <1>4, <3>2 DEF Local
  <2>10. \A d \in 2 .. Len(domains) : \A u \in domains[d] : u.kind = s.kind => u.no # s.no
    <3> SUFFICES ASSUME NEW d \in 2 .. Len(domains), NEW u \in domains[d], u.kind = "variable"
                 PROVE  u.no # no
      BY <1>2
    <3>1. InFrame(u, f)
      BY <1>4 DEF SInv, Scoped, Locals, Local
    <3>2. FrameOf(u, f) = f.locals
      BY DEF FrameOf
    <3>3. u.no < no /\ u.no \in Nat
      BY <2>3, <3>1, <3>2 DEF InFrame
    <3>4. QED
      BY <2>3, <2>4, <3>3
  <2>11. Scoped(AddSymbol(s), owner, fns')
    BY <1>1, <1>2, <2>8, <2>9, <2>10, AddedScoped
  <2>12. QED
    BY <1>1, <2>11 DEF SInv
<1>5. CASE owner.kind # "fn"
  <2>1. fns' = fns /\ (owner = Nobody \/ owner.kind = "struct")
    BY <1>1, <1>3, <1>5 DEF OwnerOK
  <2> HIDE DEF s
  <2>2. Len(domains) = 1 \/ Local(s, owner, fns')
    BY <1>1, <1>2, <2>1, NobodysDomain DEF Local
  <2>3. Locals(domains, owner, fns')
    BY <2>1 DEF SInv, Scoped
  <2>4. Scoped(AddSymbol(s), owner, fns')
    BY <1>1, <1>2, <1>5, <2>2, <2>3, AddedScoped
  <2>5. QED
    BY <1>1, <2>4 DEF SInv
<1>6. QED
  BY <1>4, <1>5

LEMMA DeclarationScoped ==
  ASSUME IInv, SInv, Declaration, ~ Fail, ~ UNCHANGED table
  PROVE  SInv'
<1>1. status = "parsing" /\ Item.do = "declaration"
  BY DEF Declaration, Doing
<1>2. AtTop(Item) /\ Item.do \notin Owning
  BY <1>1 DEF AtTop, Owning
<1>3. tk = "("
  BY DEF Declaration, Need, ParserOnly
<1>4. CASE Declared(Item.name)
  BY <1>1, <1>2, <1>3, <1>4, EnteredScoped DEF Declaration, Need
<1>5. CASE ~ Declared(Item.name)
  <2> DEFINE s == Symbol(Item.name, "fn", Item.type, Nobody, Len(fns) + 1)
  <2>1. domains' = PushDomain(AddSymbol(s))
    BY <1>3, <1>5 DEF Declaration
  <2>2. s.name = Item.name
    BY DEF Symbol
  <2> HIDE DEF s
  <2>3. QED
    BY <1>1, <1>2, <1>5, <2>1, <2>2, EnteredScoped
<1>6. QED
  BY <1>4, <1>5

LEMMA StructTagScoped ==
  ASSUME IInv, SInv, StructTag, ~ UNCHANGED table
  PROVE  SInv'
<1>1. status = "parsing" /\ Item.do = "structTag"
  BY DEF StructTag, Doing
<1> DEFINE s == Symbol(Item.name, "struct", StructT(Len(structs) + 1), Nobody, Len(structs) + 1)
<1>2. ~ Fail /\ ~ End("undefined") /\ ~ ParserOnly
  BY DEF Fail, End, ParserOnly
<1>3. /\ Item.for = "unit" /\ ~ Declared(Item.name) /\ domains' = PushDomain(AddSymbol(s))
  BY <1>2 DEF StructTag, Need
<1>4. AtTop(Item) /\ Item.do \notin Owning
  BY <1>1, <1>3 DEF AtTop, Owning, Reading
<1>5. s.name = Item.name
  BY DEF Symbol
<1> HIDE DEF s
<1>6. QED
  BY <1>1, <1>3, <1>4, <1>5, EnteredScoped

LEMMA BodyScoped ==
  ASSUME IInv, SInv, Body, ~ Fail
  PROVE  SInv'
<1>1. status = "parsing" /\ Item.do = "body"
  BY DEF Body, Doing
<1>2. AtTop(Item) /\ Item.do \in Owning
  BY <1>1 DEF AtTop, Owning
<1>3. CASE domains' = DropDomain
  BY <1>1, <1>2, <1>3, LeftScoped
<1>4. CASE domains' # DropDomain
  <2> DEFINE m == Len(code) + 1
  <2>1. fns' = [fns EXCEPT ![owner.no].first = m] /\ UNCHANGED domains /\ UNCHANGED owner
    BY <1>4 DEF Body
  <2>2. fns' = Put(fns, owner.no, WithFirst(fns[owner.no], m))
    BY <2>1 DEF Put, WithFirst
  <2> HIDE DEF m
  <2>3. owner.no \in DOMAIN fns
    BY <1>1, <1>2, TopIs, LensNat DEF OwnerFits, InHeading
  <2>4. QED
    BY <2>1, <2>2, <2>3, FrameUntouched
<1>5. QED
  BY <1>3, <1>4

LEMMA BlockScoped ==
  ASSUME IInv, SInv, Block \/ Stm, ~ UNCHANGED table
  PROVE  SInv'
<1>1. UNCHANGED owner /\ UNCHANGED fns /\ (domains' = PushDomain(domains) \/ domains' = DropDomain)
  BY DEF Block, Stm, Fail, End, ParserOnly, table
<1>2. IsSequence(domains) /\ domains # <<>>
  BY TablesAre DEF SymbolsOK
<1>3. Scoped(domains', owner, fns)
  BY <1>1, <1>2, Pushed, Dropped DEF SInv, DropDomain
<1>4. QED
  BY <1>1, <1>3 DEF SInv

LEMMA EndScoped ==
  ASSUME IInv, SInv, EndStruct \/ EndFunction, ~ Fail
  PROVE  SInv'
<1>1. /\ status = "parsing" /\ Item.do \in {"endStruct", "endFunction"} /\ domains' = DropDomain
  BY DEF EndStruct, EndFunction, Doing, Need
<1>2. AtTop(Item) /\ Item.do \in Owning
  BY <1>1 DEF AtTop, Owning
<1>3. QED
  BY <1>1, <1>2, LeftScoped

\* The other actions read the symbol table only.
LEMMA TableRead ==
  ASSUME Next
  PROVE  \/ UNCHANGED table
         \/ StructTag \/ EndStruct \/ Variable \/ Declaration \/ Parameter \/ Body \/ EndFunction
         \/ Block \/ Stm
<1>1. Fail => UNCHANGED table
  BY DEF Fail, End
<1>2. ParserOnly => UNCHANGED table
  BY DEF ParserOnly
<1>3. CodeOnly => UNCHANGED table
  BY DEF CodeOnly
<1>4. CASE ExpectedToken \/ Unit \/ TypeBase \/ StructName \/ Members
  BY <1>1, <1>2, <1>4 DEF ExpectedToken, Unit, TypeBase, StructName, Members, Need, End
<1>5. CASE Name \/ Array \/ Dimension \/ EndArray \/ Initializer \/ Declarators
  BY <1>1, <1>2, <1>3, <1>5 DEF Name, Array, Dimension, EndArray, Initializer, Declarators, Need
<1>6. CASE Parameters \/ MoreParameters \/ Return
  BY <1>1, <1>2, <1>3, <1>6 DEF Parameters, MoreParameters, Return, Need
<1>7. CASE Operator \/ Binary \/ Assignment \/ Assign \/ OperandOf \/ Paren \/ EndParen
  BY <1>1, <1>2, <1>3, <1>7 DEF Operator, Binary, Assignment, Assign, OperandOf, Paren, EndParen, Need
<1>8. CASE Cast \/ Convert \/ Unary \/ Postfix \/ Index \/ Field \/ Identifier
  BY <1>1, <1>2, <1>3, <1>8 DEF Cast, Convert, Unary, Postfix, Index, Field, Identifier, Need
<1>9. CASE Arguments \/ Argument \/ Call
  BY <1>1, <1>2, <1>3, <1>9 DEF Arguments, Argument, Call, Need
<1>10. CASE EndExpression \/ Initialize \/ ReturnValue \/ Condition
  BY <1>1, <1>2, <1>3, <1>10 DEF EndExpression, Initialize, ReturnValue, Condition, Need
<1>11. CASE EndThen \/ EndIf \/ EndWhile
  BY <1>1, <1>2, <1>3, <1>11 DEF EndThen, EndIf, EndWhile
<1>12. QED
  BY <1>4, <1>5, <1>6, <1>7, <1>8, <1>9, <1>10, <1>11 DEF Next

LEMMA NextScoped ==
  ASSUME IInv, SInv, Next
  PROVE  SInv'
<1>1. CASE UNCHANGED table
  BY <1>1 DEF SInv, table
<1>2. CASE Fail \/ End("undefined")
  BY <1>1, <1>2 DEF Fail, End
<1>3. CASE ~ UNCHANGED table /\ ~ Fail /\ ~ End("undefined")
  BY <1>3, TableRead, StructTagScoped, EndScoped, VariableScoped, DeclarationScoped,
     ParameterScoped, BodyScoped, BlockScoped
<1>4. QED
  BY <1>1, <1>2, <1>3

LEMMA InitScoped ==
  ASSUME Init
  PROVE  SInv
<1> DEFINE a == Symbol("put_int", "fn", VoidT, Nobody, 1)
           b == Symbol("put_double", "fn", VoidT, Nobody, 2)
<1>1. domains = << {a, b} >> /\ Len(domains) = 1
  BY DEF Init
<1>2. a.name = "put_int" /\ b.name = "put_double"
  BY DEF Symbol
<1> HIDE DEF a, b
<1>3. \A s, u \in {a, b} : s.name = u.name => s = u
  BY <1>2
<1>4. DOMAIN domains = 1 .. 1 /\ domains[1] = {a, b}
  BY <1>1
<1>5. Distinct(domains)
  BY <1>3, <1>4 DEF Distinct
<1>6. QED
  BY <1>1, <1>5, OneDomain DEF SInv

-----------------------------------------------------------------------------
(* The theorems.                                                           *)
(* The symbols of the open domains are those of one function or struct,    *)
(* and have places of its frame (add_symbol_to_domain, drop_domain).       *)
THEOREM ScopeInvariant == Spec => [](IInv /\ SInv)
<1>1. Init => SInv
  BY InitScoped
<1>2. IInv /\ SInv /\ [Next]_vars => SInv'
  <2>1. UNCHANGED vars => UNCHANGED table
    BY DEF vars
  <2>2. UNCHANGED table /\ SInv => SInv'
    BY DEF SInv, table
  <2>3. QED
    BY <2>1, <2>2, NextScoped
<1>3. QED
  BY <1>1, <1>2, Invariant, PTL DEF Spec

(* A domain is open for every block, function and struct that the parser   *)
(* is inside of, and for nothing else, whatever path it took there; names  *)
(* are distinct within a domain, and all that is declared beyond the       *)
(* global one belongs to the function or struct being defined              *)
(* (push_domain and drop_domain in parser.c).                              *)
THEOREM Nesting == Spec => []DomainsNested
<1>1. IInv /\ SInv => DomainsNested
  <2> SUFFICES ASSUME IInv, SInv, status = "parsing" PROVE DomainsNested
    BY DEF DomainsNested
  <2>1. Len(domains) = 1 + Cardinality({k \in DOMAIN todo : todo[k].do = "block" /\ todo[k].domain})
                         + (IF owner = Nobody THEN 0 ELSE 1)
    BY DEF IInv, Nested, Opened, Opens
  <2>2. Item.do \in {"unit", "declaration"} => owner = Nobody
    <3>1. CASE Item.do = "unit"
      <4>1. Placed(todo) /\ todo[1].do = "unit"
        BY <3>1 DEF IInv, Item
      <4>2. Base(todo) = "unit"
        BY <4>1, OnTop DEF Base
      <4>3. QED
        BY <4>2 DEF IInv, OwnerFits, Owning
    <3>2. CASE Item.do = "declaration"
      <4>1. AtTop(Item) /\ Item.do \notin Owning
        BY <3>2 DEF AtTop, Owning
      <4>2. QED
        BY <4>1, TopIs DEF OwnerFits
    <3>3. QED BY <3>1, <3>2
  <2>3. \A d \in DOMAIN domains : \A s, u \in domains[d] : s.name = u.name => s = u
    BY DEF SInv, Scoped, Distinct
  <2>4. \A s \in UNION {domains[d] : d \in 2 .. Len(domains)} : s.owner = owner
    BY DEF SInv, Scoped, Locals, Local
  <2>5. QED
    BY <2>1, <2>2, <2>3, <2>4 DEF DomainsNested
<1>2. QED
  BY <1>1, ScopeInvariant, PTL

(* No two of a function's names in scope share a place of its frame,       *)
(* whatever blocks they were declared in, and each place has the type that *)
(* its name was declared with (var_index and param_index in parser.c).     *)
THEOREM Slots == Spec => []SlotsAgree
<1>1. SInv => SlotsAgree
  <2> SUFFICES ASSUME SInv, NEW d \in 2 .. Len(domains), NEW s \in domains[d]
               PROVE  /\ s.kind = "variable" /\ owner.kind = "fn" =>
                           s.no < Len(fns[owner.no].locals) /\ fns[owner.no].locals[s.no + 1] = s.type
                      /\ s.kind = "parameter" =>
                           s.no < Len(fns[owner.no].params) /\ fns[owner.no].params[s.no + 1] = s.type
                      /\ owner.kind = "fn" =>
                           \A e \in 2 .. Len(domains) : \A u \in domains[e] :
                             s.kind = u.kind /\ s.no = u.no => s = u
    BY DEF SlotsAgree
  <2>1. Local(s, owner, fns)
    BY DEF SInv, Scoped, Locals
  <2>2. QED
    BY <2>1 DEF SInv, Scoped, Apart, Local, InFrame, FrameOf
<1>2. QED
  BY <1>1, ScopeInvariant, PTL

-----------------------------------------------------------------------------
(* Functions defined by recursion over 0 .. n, each value from those       *)
(* before it.                                                              *)

LEMMA LeastPlace ==
  ASSUME NEW S, S \subseteq Nat, S # {}
  PROVE  \E x \in S : \A y \in S : x <= y
<1>1. PICK x \in S : \A y \in S : ~ (<<y, x>> \in OpToRel(<, Nat))
  BY NatLessThanWellFounded, WFMin
<1>2. ASSUME NEW y \in S PROVE x <= y
  <2>1. ~ (y < x)
    BY <1>1 DEF OpToRel
  <2>2. QED BY <2>1
<1>3. QED BY <1>2

Below(f, g, k) == \A j \in 0 .. k - 1 : f[j] = g[j]

LooksBack(n, V, step) ==
  /\ V # {} /\ step \in [[0 .. n -> V] \X (0 .. n) -> V]
  /\ \A f, g \in [0 .. n -> V] : \A k \in 0 .. n :
       Below(f, g, k) => step[<<f, k>>] = step[<<g, k>>]

\* There is one when each value is given by a step that looks back only.
LEMMA Recursion ==
  ASSUME NEW n \in Nat, NEW V, NEW step, LooksBack(n, V, step)
  PROVE  \E f \in [0 .. n -> V] : \A k \in 0 .. n : f[k] = step[<<f, k>>]
<1> USE DEF LooksBack
<1>0. PICK u : u \in V
  OBVIOUS
<1> DEFINE Upto(f, m) == f \in [0 .. n -> V] /\ \A k \in 0 .. n : k < m => f[k] = step[<<f, k>>]
           Without == {m \in 0 .. n + 1 : ~ \E f : Upto(f, m)}
<1>1. ASSUME Without # {} PROVE FALSE
  <2>1. PICK m \in Without : \A k \in Without : m <= k
    <3> HIDE DEF Without
    <3>1. Without \subseteq Nat
      BY DEF Without
    <3>2. QED BY <1>1, <3>1, LeastPlace
  <2>2. m \in 0 .. n + 1 /\ ~ \E f : Upto(f, m)
    BY <2>1
  <2>3. CASE m = 0
    <3>1. Upto([k \in 0 .. n |-> u], 0)
      BY <1>0
    <3>2. QED BY <2>2, <2>3, <3>1
  <2>4. CASE m # 0
    <3>1. m - 1 \in 0 .. n /\ m - 1 \in 0 .. n + 1 /\ ~ (m <= m - 1)
      BY <2>2, <2>4
    <3>2. m - 1 \notin Without
      BY <2>1, <3>1
    <3>3. PICK f : Upto(f, m - 1)
      BY <3>1, <3>2
    <3> DEFINE g == [f EXCEPT ![m - 1] = step[<<f, m - 1>>]]
    <3>4. step[<<f, m - 1>>] \in V
      BY <3>1, <3>3
    <3>5. g \in [0 .. n -> V]
      BY <3>3, <3>4
    <3>6. \A k \in 0 .. n : k # m - 1 => g[k] = f[k]
      BY <3>3
    <3>7. g[m - 1] = step[<<f, m - 1>>]
      BY <3>1, <3>3
    <3> HIDE DEF g
    <3>8. ASSUME NEW k \in 0 .. n, k < m PROVE g[k] = step[<<g, k>>]
      <4>1. Below(f, g, k)
        BY <3>1, <3>6, <3>8 DEF Below
      <4>2. step[<<f, k>>] = step[<<g, k>>]
        BY <3>3, <3>5, <4>1
      <4>3. g[k] = step[<<f, k>>]
        <5>1. CASE k = m - 1
          BY <3>7, <5>1
        <5>2. CASE k # m - 1
          <6>1. k < m - 1
            BY <3>1, <3>8, <5>2
          <6>2. QED BY <3>3, <3>6, <5>2, <6>1
        <5>3. QED BY <5>1, <5>2
      <4>4. QED BY <4>2, <4>3
    <3>9. Upto(g, m)
      BY <3>5, <3>8
    <3>10. QED BY <2>2, <3>9
  <2>5. QED BY <2>3, <2>4
<1>2. Without = {}
  <2> HIDE DEF Without
  <2>1. QED BY <1>1
<1>3. n + 1 \in 0 .. n + 1
  OBVIOUS
<1>4. \E f : Upto(f, n + 1)
  <2> HIDE DEF Upto
  <2>1. QED BY <1>2, <1>3
<1>5. \A k \in 0 .. n : k < n + 1
  OBVIOUS
<1>6. QED BY <1>4, <1>5

\* What holds of a place when it holds of those before it holds of all.
LEMMA Everywhere ==
  ASSUME NEW n \in Nat, NEW S, \A k \in 0 .. n : 0 .. k - 1 \subseteq S => k \in S
  PROVE  0 .. n \subseteq S
<1> DEFINE Outside == {k \in 0 .. n : k \notin S}
<1>1. ASSUME Outside # {} PROVE FALSE
  <2>1. PICK m \in Outside : \A k \in Outside : m <= k
    <3> HIDE DEF Outside
    <3>1. Outside \subseteq Nat
      BY DEF Outside
    <3>2. QED BY <1>1, <3>1, LeastPlace
  <2>2. m \in 0 .. n /\ m \notin S
    BY <2>1
  <2>3. ASSUME NEW j \in 0 .. m - 1 PROVE j \in S
    <3>1. j \in 0 .. n /\ ~ (m <= j)
      BY <2>2
    <3>2. QED BY <2>1, <3>1
  <2>4. QED BY <2>2, <2>3
<1>2. QED BY <1>1

\* Two of them are the same as far as each step gives the same from the same.
LEMMA SameValues ==
  ASSUME NEW n \in Nat, NEW f, NEW g,
         \A k \in 0 .. n : Below(f, g, k) => f[k] = g[k]
  PROVE  \A k \in 0 .. n : f[k] = g[k]
<1> DEFINE S == {k \in 0 .. n : f[k] = g[k]}
<1>1. ASSUME NEW k \in 0 .. n, 0 .. k - 1 \subseteq S PROVE k \in S
  BY <1>1 DEF Below
<1> HIDE DEF S
<1>2. 0 .. n \subseteq S
  BY <1>1, Everywhere
<1>3. QED BY <1>2 DEF S

LEMMA ValuesIn ==
  ASSUME NEW n \in Nat, NEW f, NEW V,
         \A k \in 0 .. n : (\A j \in 0 .. k - 1 : f[j] \in V) => f[k] \in V
  PROVE  \A k \in 0 .. n : f[k] \in V
<1> DEFINE S == {k \in 0 .. n : f[k] \in V}
<1>1. ASSUME NEW k \in 0 .. n, 0 .. k - 1 \subseteq S PROVE k \in S
  BY <1>1
<1> HIDE DEF S
<1>2. 0 .. n \subseteq S
  BY <1>1, Everywhere
<1>3. QED BY <1>2 DEF S

-----------------------------------------------------------------------------
(* Alignments and sizes of structs.                                        *)
MemberType(ss, k, i) == ss[k][i].type

LEMMA EarlierTypes ==
  ASSUME NEW ss, StructsOK(ss), NEW k \in 0 .. Len(ss)
  PROVE  /\ Len(ss) \in Nat /\ (k # 0 => Len(ss[k]) \in Nat /\ DOMAIN ss[k] = 1 .. Len(ss[k]))
         /\ k # 0 => \A i \in DOMAIN ss[k] : Proper(MemberType(ss, k, i), k)
         /\ \A i \in Earlier(ss, k) :
              /\ k # 0 => i \in DOMAIN ss[k]
              /\ MemberType(ss, k, i).sym < k
              /\ k # 0 => MemberType(ss, k, i).sym \in 0 .. k - 1 /\ MemberType(ss, k, i).dim \in Int
<1>1. IsSequence(ss) /\ Len(ss) \in Nat /\ DOMAIN ss = 1 .. Len(ss)
  BY SequenceProperties DEF StructsOK
<1>2. k # 0 => StructOK(ss[k], k)
  BY <1>1 DEF StructsOK
<1>3. k # 0 => IsSequence(ss[k]) /\ Len(ss[k]) \in Nat /\ DOMAIN ss[k] = 1 .. Len(ss[k])
  BY <1>2, SequenceProperties DEF StructOK
<1>4. k # 0 => \A i \in DOMAIN ss[k] : Proper(MemberType(ss, k, i), k)
  BY <1>2 DEF StructOK, MemberType
<1>5. \A i \in Earlier(ss, k) : i \in DOMAIN ss[k] /\ MemberType(ss, k, i).sym < k
  BY DEF Earlier, MemberType
<1>6. ASSUME k # 0, NEW i \in Earlier(ss, k)
      PROVE  MemberType(ss, k, i).sym \in 0 .. k - 1 /\ MemberType(ss, k, i).dim \in Int
  <2>1. Proper(MemberType(ss, k, i), k) /\ MemberType(ss, k, i).sym < k
    BY <1>4, <1>5, <1>6
  <2>2. QED BY <1>1, <2>1 DEF Proper
<1>7. QED BY <1>1, <1>3, <1>4, <1>5, <1>6

AlignmentStep(ss, f, k) ==
  IF k = 0 THEN 1 ELSE Max({1} \cup {AlignmentIn(f, ss[k][i].type) : i \in Earlier(ss, k)})

LEMMA AlignmentSame ==
  ASSUME NEW ss, StructsOK(ss), NEW k \in 0 .. Len(ss), NEW ts, k # 0 => ts[k] = ss[k],
         NEW f, NEW g, Below(f, g, k)
  PROVE  AlignmentStep(ss, f, k) = AlignmentStep(ts, g, k)
<1>1. CASE k = 0
  BY <1>1 DEF AlignmentStep
<1>2. CASE k # 0
  <2>1. Earlier(ts, k) = Earlier(ss, k)
    BY <1>2 DEF Earlier
  <2>2. \A i \in Earlier(ss, k) : AlignmentIn(f, ss[k][i].type) = AlignmentIn(g, ts[k][i].type)
    BY <1>2, EarlierTypes DEF AlignmentIn, Below, MemberType
  <2>3. {AlignmentIn(f, ss[k][i].type) : i \in Earlier(ss, k)}
          = {AlignmentIn(g, ts[k][i].type) : i \in Earlier(ts, k)}
    BY <2>1, <2>2
  <2>4. QED BY <1>2, <2>3 DEF AlignmentStep
<1>3. QED BY <1>1, <1>2

Units == {1, 4, 8}

LEMMA BaseUnits == \A base : BaseAlignment(base) \in Units
  BY DEF BaseAlignment, Units

LEMMA MaxUnit ==
  ASSUME NEW S, S \subseteq Units
  PROVE  Max({1} \cup S) \in Units /\ \A x \in S : x <= Max({1} \cup S)
<1>1. \E x \in {1} \cup S : \A y \in {1} \cup S : x >= y
  <2>1. CASE 8 \in S
    BY <2>1 DEF Units
  <2>2. CASE 8 \notin S /\ 4 \in S
    BY <2>2 DEF Units
  <2>3. CASE 8 \notin S /\ 4 \notin S
    BY <2>3 DEF Units
  <2>4. QED BY <2>1, <2>2, <2>3
<1>2. Max({1} \cup S) \in {1} \cup S /\ \A y \in {1} \cup S : Max({1} \cup S) >= y
  BY <1>1 DEF Max
<1>3. QED BY <1>2 DEF Units

LEMMA AlignmentStepUnit ==
  ASSUME NEW ss, StructsOK(ss), NEW k \in 0 .. Len(ss), NEW f, \A j \in 0 .. k - 1 : f[j] \in Units
  PROVE  AlignmentStep(ss, f, k) \in Units
<1>1. CASE k = 0
  BY <1>1 DEF AlignmentStep, Units
<1>2. CASE k # 0
  <2>1. ASSUME NEW i \in Earlier(ss, k) PROVE AlignmentIn(f, ss[k][i].type) \in Units
    <3>1. ss[k][i].type.sym \in 0 .. k - 1
      BY <1>2, EarlierTypes DEF MemberType
    <3>2. QED BY <3>1, BaseUnits DEF AlignmentIn
  <2>2. {AlignmentIn(f, ss[k][i].type) : i \in Earlier(ss, k)} \subseteq Units
    BY <2>1
  <2>3. QED BY <1>2, <2>2, MaxUnit DEF AlignmentStep
<1>3. QED BY <1>1, <1>2

LEMMA AlignmentsUnfold ==
  ASSUME NEW ss, StructsOK(ss), NEW k \in 0 .. Len(ss)
  PROVE  Alignments(ss)[k] = AlignmentStep(ss, Alignments(ss), k) /\ Alignments(ss)[k] \in Units
<1> DEFINE n == Len(ss)
           step == [p \in [0 .. n -> Units] \X (0 .. n) |-> AlignmentStep(ss, p[1], p[2])]
           as == Alignments(ss)
<1>1. n \in Nat
  BY EarlierTypes
<1>2. \A f \in [0 .. n -> Units], j \in 0 .. n :
        step[<<f, j>>] = AlignmentStep(ss, f, j) /\ AlignmentStep(ss, f, j) \in Units
  <2>1. TAKE f \in [0 .. n -> Units], j \in 0 .. n
  <2>2. \A i \in 0 .. j - 1 : f[i] \in Units
    OBVIOUS
  <2>3. AlignmentStep(ss, f, j) \in Units
    BY <2>2, AlignmentStepUnit
  <2>4. QED BY <2>3
<1>3. step \in [[0 .. n -> Units] \X (0 .. n) -> Units]
  <2>1. \A p \in [0 .. n -> Units] \X (0 .. n) : AlignmentStep(ss, p[1], p[2]) \in Units
    BY <1>2
  <2>2. QED BY <2>1
<1> HIDE DEF step
<1>4. \A f, g \in [0 .. n -> Units] : \A j \in 0 .. n : Below(f, g, j) => step[<<f, j>>] = step[<<g, j>>]
  BY <1>2, AlignmentSame
<1>5. LooksBack(n, Units, step)
  <2>1. 1 \in Units
    BY DEF Units
  <2>2. QED BY <1>3, <1>4, <2>1 DEF LooksBack
<1>6. PICK f \in [0 .. n -> Units] : \A j \in 0 .. n : f[j] = step[<<f, j>>]
  <2> HIDE DEF n
  <2>1. QED BY <1>1, <1>5, Recursion
<1>7. f = [j \in 0 .. n |-> AlignmentStep(ss, f, j)]
  <2>1. \A j \in 0 .. n : f[j] = AlignmentStep(ss, f, j)
    BY <1>2, <1>6
  <2>2. QED BY <2>1
<1>8. as = CHOOSE of : of = [j \in 0 .. n |-> AlignmentStep(ss, of, j)]
  BY Zenon DEF Alignments, AlignmentStep
<1>9. as = [j \in 0 .. n |-> AlignmentStep(ss, as, j)]
  BY <1>7, <1>8, Zenon
<1> HIDE DEF as
<1>10. \A j \in 0 .. n : as[j] = AlignmentStep(ss, as, j)
  BY <1>9, Zenon
<1>11. ASSUME NEW j \in 0 .. n, \A i \in 0 .. j - 1 : as[i] \in Units PROVE as[j] \in Units
  BY <1>10, <1>11, AlignmentStepUnit
<1>12. \A j \in 0 .. n : as[j] \in Units
  BY <1>1, <1>11, ValuesIn
<1>13. QED BY <1>10, <1>12 DEF as

LEMMA AlignmentUnit ==
  ASSUME NEW ss, StructsOK(ss), NEW t, t.sym \in 0 .. Len(ss)
  PROVE  TypeAlignment(ss, t) \in Units
  BY AlignmentsUnfold, BaseUnits DEF TypeAlignment, AlignmentIn

LEMMA AlignedUp ==
  ASSUME NEW x \in Nat, NEW a \in Units
  PROVE  AlignUp(x, a) \in Nat /\ AlignUp(x, a) >= x /\ AlignUp(x, a) % a = 0
<1>1. CASE a = 1
  BY <1>1 DEF AlignUp
<1>2. CASE a = 4
  <2>1. AlignUp(x, a) = ((x + 3) \div 4) * 4
    BY <1>2 DEF AlignUp
  <2>2. QED BY <1>2, <2>1
<1>3. CASE a = 8
  <2>1. AlignUp(x, a) = ((x + 7) \div 8) * 8
    BY <1>3 DEF AlignUp
  <2>2. QED BY <1>3, <2>1
<1>4. QED BY <1>1, <1>2, <1>3 DEF Units

LEMMA AlignedIs ==
  ASSUME NEW ss, StructsOK(ss), NEW t, t.sym \in 0 .. Len(ss), NEW x \in Nat
  PROVE  /\ Aligned(ss, x, t) \in Nat /\ Aligned(ss, x, t) >= x
         /\ Aligned(ss, x, t) % TypeAlignment(ss, t) = 0
  BY AlignmentUnit, AlignedUp DEF Aligned

LEMMA SizeNat ==
  ASSUME NEW of, NEW t, t.sym = 0 \/ of[t.sym] \in Nat, t.dim \in Int
  PROVE  SizeIn(of, t) \in Nat
<1> DEFINE base == IF t.sym = 0 THEN BaseSize(t.base) ELSE of[t.sym]
<1>1. base \in Nat
  BY DEF BaseSize
<1> HIDE DEF base
<1>2. t.dim > 0 => t.dim * base \in Nat
  BY <1>1
<1>3. SizeIn(of, t) = IF t.dim < 0 THEN base ELSE IF t.dim = 0 THEN PointerSize ELSE t.dim * base
  BY DEF SizeIn, base
<1>4. QED BY <1>1, <1>2, <1>3 DEF PointerSize

\* How far the first i members of struct k reach.
EndStep(ss, k, of, f, i) ==
  IF i = 0 THEN 0
  ELSE Aligned(ss, f[i - 1], ss[k][i].type)
         + IF i \in Earlier(ss, k) THEN SizeIn(of, ss[k][i].type) ELSE 0

LEMMA EndStepNat ==
  ASSUME NEW ss, StructsOK(ss), NEW k \in 1 .. Len(ss), NEW of, \A j \in 0 .. k - 1 : of[j] \in Nat,
         NEW i \in 0 .. Len(ss[k]), NEW f, i # 0 => f[i - 1] \in Nat
  PROVE  /\ EndStep(ss, k, of, f, i) \in Nat
         /\ i # 0 => EndStep(ss, k, of, f, i) >= Aligned(ss, f[i - 1], ss[k][i].type)
<1>1. CASE i = 0
  BY <1>1 DEF EndStep
<1>2. CASE i # 0
  <2> DEFINE t == ss[k][i].type
             x == Aligned(ss, f[i - 1], t)
             y == IF i \in Earlier(ss, k) THEN SizeIn(of, t) ELSE 0
  <2>1. Len(ss) \in Nat /\ Len(ss[k]) \in Nat /\ Proper(t, k)
    BY <1>2, EarlierTypes DEF MemberType
  <2>2. t.sym \in 0 .. Len(ss)
    BY <2>1 DEF Proper
  <2>3. x \in Nat
    BY <1>2, <2>2, AlignedIs
  <2>4. y \in Nat
    <3>1. CASE i \in Earlier(ss, k)
      <4>1. t.sym \in 0 .. k - 1 /\ t.dim \in Int
        BY <3>1, EarlierTypes DEF MemberType
      <4>2. QED BY <3>1, <4>1, SizeNat
    <3>2. CASE i \notin Earlier(ss, k)
      BY <3>2
    <3>3. QED BY <3>1, <3>2
  <2>5. EndStep(ss, k, of, f, i) = x + y
    BY <1>2 DEF EndStep
  <2> HIDE DEF x, y
  <2>6. x + y \in Nat /\ x + y >= x
    BY <2>3, <2>4
  <2>7. QED BY <2>5, <2>6 DEF x
<1>3. QED BY <1>1, <1>2

LEMMA EndsUnfold ==
  ASSUME NEW ss, StructsOK(ss), NEW k \in 1 .. Len(ss), NEW of, \A j \in 0 .. k - 1 : of[j] \in Nat
  PROVE  LET es == Ends(ss, k, of) IN
         \A i \in 0 .. Len(ss[k]) : es[i] = EndStep(ss, k, of, es, i) /\ es[i] \in Nat
<1> DEFINE n == Len(ss[k])
           step == [p \in [0 .. n -> Nat] \X (0 .. n) |-> EndStep(ss, k, of, p[1], p[2])]
           es == Ends(ss, k, of)
<1>1. n \in Nat
  BY EarlierTypes
<1>2. \A f \in [0 .. n -> Nat], i \in 0 .. n :
        step[<<f, i>>] = EndStep(ss, k, of, f, i) /\ EndStep(ss, k, of, f, i) \in Nat
  <2>1. TAKE f \in [0 .. n -> Nat], i \in 0 .. n
  <2>2. i # 0 => f[i - 1] \in Nat
    BY <1>1
  <2>3. EndStep(ss, k, of, f, i) \in Nat
    BY <2>2, EndStepNat
  <2>4. QED BY <2>3
<1>3. step \in [[0 .. n -> Nat] \X (0 .. n) -> Nat]
  <2>1. \A p \in [0 .. n -> Nat] \X (0 .. n) : EndStep(ss, k, of, p[1], p[2]) \in Nat
    BY <1>2
  <2>2. QED BY <2>1
<1> HIDE DEF step
<1>4. ASSUME NEW f \in [0 .. n -> Nat], NEW g \in [0 .. n -> Nat], NEW i \in 0 .. n, Below(f, g, i)
      PROVE  step[<<f, i>>] = step[<<g, i>>]
  <2>1. i # 0 => f[i - 1] = g[i - 1]
    BY <1>1, <1>4 DEF Below
  <2>2. EndStep(ss, k, of, f, i) = EndStep(ss, k, of, g, i)
    BY <2>1 DEF EndStep
  <2>3. QED BY <1>2, <2>2
<1>5. LooksBack(n, Nat, step)
  BY <1>3, <1>4 DEF LooksBack
<1>6. PICK f \in [0 .. n -> Nat] : \A i \in 0 .. n : f[i] = step[<<f, i>>]
  <2> HIDE DEF n
  <2>1. QED BY <1>1, <1>5, Recursion
<1>7. f = [i \in 0 .. n |-> EndStep(ss, k, of, f, i)]
  <2>1. \A i \in 0 .. n : f[i] = EndStep(ss, k, of, f, i)
    BY <1>2, <1>6
  <2>2. QED BY <2>1
<1>8. es = CHOOSE e : e = [i \in 0 .. n |-> EndStep(ss, k, of, e, i)]
  BY Zenon DEF Ends, EndStep
<1>9. es = [i \in 0 .. n |-> EndStep(ss, k, of, es, i)]
  BY <1>7, <1>8, Zenon
<1> HIDE DEF es
<1>10. \A i \in 0 .. n : es[i] = EndStep(ss, k, of, es, i)
  BY <1>9, Zenon
<1>11. ASSUME NEW i \in 0 .. n, \A j \in 0 .. i - 1 : es[j] \in Nat PROVE es[i] \in Nat
  <2>1. i # 0 => es[i - 1] \in Nat
    BY <1>1, <1>11
  <2>2. QED BY <1>10, <2>1, EndStepNat
<1>12. \A i \in 0 .. n : es[i] \in Nat
  BY <1>1, <1>11, ValuesIn
<1>13. QED BY <1>10, <1>12 DEF es

\* Structs that are the same up to the k-th, laid out by the same sizes.
Agree(ss, ts, k) ==
  /\ StructsOK(ss) /\ StructsOK(ts) /\ k <= Len(ss) /\ k <= Len(ts)
  /\ \A j \in 1 .. k : ss[j] = ts[j]

LEMMA SameAlignments ==
  ASSUME NEW ss, NEW ts, NEW k \in Nat, Agree(ss, ts, k)
  PROVE  \A j \in 0 .. k : Alignments(ss)[j] = Alignments(ts)[j]
<1> DEFINE f == Alignments(ss)
           g == Alignments(ts)
<1>1. ASSUME NEW j \in 0 .. k, Below(f, g, j) PROVE f[j] = g[j]
  <2>1. Len(ss) \in Nat /\ Len(ts) \in Nat
    BY EarlierTypes, SequenceProperties DEF Agree, StructsOK
  <2>2. j \in 0 .. Len(ss) /\ j \in 0 .. Len(ts)
    BY <2>1 DEF Agree
  <2>3. j # 0 => ts[j] = ss[j]
    BY DEF Agree
  <2>4. StructsOK(ss) /\ StructsOK(ts)
    BY DEF Agree
  <2>5. AlignmentStep(ss, f, j) = AlignmentStep(ts, g, j)
    BY <1>1, <2>2, <2>3, <2>4, AlignmentSame
  <2>6. f[j] = AlignmentStep(ss, f, j)
    BY <2>2, <2>4, AlignmentsUnfold
  <2>7. g[j] = AlignmentStep(ts, g, j)
    BY <2>2, <2>4, AlignmentsUnfold
  <2>8. QED BY <2>5, <2>6, <2>7
<1> HIDE DEF f, g
<1>2. \A j \in 0 .. k : f[j] = g[j]
  BY <1>1, SameValues
<1>3. QED BY <1>2 DEF f, g

LEMMA SameAligned ==
  ASSUME NEW ss, NEW ts, NEW k \in Nat, Agree(ss, ts, k), NEW x, NEW t, t.sym \in 0 .. k
  PROVE  Aligned(ss, x, t) = Aligned(ts, x, t) /\ TypeAlignment(ss, t) = TypeAlignment(ts, t)
  BY SameAlignments DEF Aligned, TypeAlignment, AlignmentIn

LEMMA SameEnds ==
  ASSUME NEW ss, NEW ts, NEW k \in Nat \ {0}, Agree(ss, ts, k), NEW f, NEW g, Below(f, g, k),
         \A j \in 0 .. k - 1 : f[j] \in Nat
  PROVE  \A i \in 0 .. Len(ss[k]) : Ends(ss, k, f)[i] = Ends(ts, k, g)[i]
<1> DEFINE a == Ends(ss, k, f)
           b == Ends(ts, k, g)
           n == Len(ss[k])
<1>1. StructsOK(ss) /\ StructsOK(ts) /\ ts[k] = ss[k]
  BY DEF Agree
<1>2. k \in 1 .. Len(ss) /\ k \in 1 .. Len(ts)
  BY <1>1, SequenceProperties DEF Agree, StructsOK
<1>3. n \in Nat
  BY <1>1, <1>2, EarlierTypes
<1>4. \A j \in 0 .. k - 1 : g[j] \in Nat
  BY DEF Below
<1>5. \A i \in 0 .. n : a[i] = EndStep(ss, k, f, a, i)
  BY <1>1, <1>2, EndsUnfold
<1>6. \A i \in 0 .. n : b[i] = EndStep(ts, k, g, b, i)
  BY <1>1, <1>2, <1>4, EndsUnfold
<1> HIDE DEF a, b, n
<1>7. ASSUME NEW i \in 0 .. n, Below(a, b, i) PROVE a[i] = b[i]
  <2>1. CASE i = 0
    BY <1>5, <1>6, <2>1 DEF EndStep
  <2>2. CASE i # 0
    <3> DEFINE t == ss[k][i].type
    <3>1. a[i - 1] = b[i - 1]
      BY <1>3, <1>7, <2>2 DEF Below
    <3>2. Proper(t, k)
      BY <1>1, <1>2, <1>3, <2>2, EarlierTypes DEF MemberType, n
    <3>3. t.sym \in 0 .. k
      BY <3>2 DEF Proper
    <3>4. Aligned(ss, a[i - 1], t) = Aligned(ts, b[i - 1], t)
      BY <3>1, <3>3, SameAligned
    <3>5. Earlier(ss, k) = Earlier(ts, k)
      BY <1>1 DEF Earlier
    <3>6. i \in Earlier(ss, k) => SizeIn(f, t) = SizeIn(g, t)
      <4>1. i \in Earlier(ss, k) => t.sym \in 0 .. k - 1
        BY <1>1, <1>2, EarlierTypes DEF MemberType
      <4>2. QED BY <4>1 DEF SizeIn, Below
    <3>7. EndStep(ss, k, f, a, i) = EndStep(ts, k, g, b, i)
      BY <1>1, <2>2, <3>4, <3>5, <3>6 DEF EndStep
    <3>8. QED BY <1>5, <1>6, <3>7
  <2>3. QED BY <2>1, <2>2
<1>8. \A i \in 0 .. n : a[i] = b[i]
  BY <1>3, <1>7, SameValues
<1>9. QED BY <1>8 DEF a, b, n

SizeStep(ss, f, k) ==
  IF k = 0 THEN 0 ELSE Aligned(ss, Ends(ss, k, f)[Len(ss[k])], StructT(k))

LEMMA SizeStepNat ==
  ASSUME NEW ss, StructsOK(ss), NEW k \in 0 .. Len(ss), NEW f, \A j \in 0 .. k - 1 : f[j] \in Nat
  PROVE  /\ SizeStep(ss, f, k) \in Nat
         /\ k # 0 => SizeStep(ss, f, k) >= Ends(ss, k, f)[Len(ss[k])]
<1>1. CASE k = 0
  BY <1>1 DEF SizeStep
<1>2. CASE k # 0
  <2>1. Len(ss) \in Nat /\ Len(ss[k]) \in Nat
    BY <1>2, EarlierTypes
  <2>2. k \in 1 .. Len(ss) /\ Len(ss[k]) \in 0 .. Len(ss[k])
    BY <1>2, <2>1
  <2>3. Ends(ss, k, f)[Len(ss[k])] \in Nat
    BY <2>2, EndsUnfold
  <2>4. StructT(k).sym \in 0 .. Len(ss)
    BY DEF StructT
  <2>5. QED BY <1>2, <2>3, <2>4, AlignedIs DEF SizeStep
<1>3. QED BY <1>1, <1>2

LEMMA SizeSame ==
  ASSUME NEW ss, NEW ts, NEW k \in Nat, Agree(ss, ts, k), NEW f, NEW g, Below(f, g, k),
         \A j \in 0 .. k - 1 : f[j] \in Nat
  PROVE  SizeStep(ss, f, k) = SizeStep(ts, g, k)
<1>1. CASE k = 0
  BY <1>1 DEF SizeStep
<1>2. CASE k # 0
  <2>1. ss[k] = ts[k] /\ StructsOK(ss) /\ k <= Len(ss)
    BY <1>2 DEF Agree
  <2>2. Len(ss) \in Nat
    BY <2>1, SequenceProperties DEF StructsOK
  <2>3. k \in 0 .. Len(ss)
    BY <2>1, <2>2
  <2>4. Len(ss[k]) \in Nat
    BY <1>2, <2>1, <2>3, EarlierTypes
  <2>5. Len(ss[k]) \in 0 .. Len(ss[k])
    BY <2>4
  <2>6. Ends(ss, k, f)[Len(ss[k])] = Ends(ts, k, g)[Len(ss[k])]
    BY <1>2, <2>5, SameEnds
  <2>7. StructT(k).sym \in 0 .. k
    BY DEF StructT
  <2>8. QED BY <1>2, <2>1, <2>6, <2>7, SameAligned DEF SizeStep
<1>3. QED BY <1>1, <1>2

LEMMA SizesUnfold ==
  ASSUME NEW ss, StructsOK(ss)
  PROVE  \A k \in 0 .. Len(ss) : Sizes(ss)[k] = SizeStep(ss, Sizes(ss), k) /\ Sizes(ss)[k] \in Nat
<1> DEFINE n == Len(ss)
           step == [p \in [0 .. n -> Nat] \X (0 .. n) |-> SizeStep(ss, p[1], p[2])]
           of == Sizes(ss)
<1>1. n \in Nat
  BY EarlierTypes, SequenceProperties DEF StructsOK
<1>2. \A f \in [0 .. n -> Nat], k \in 0 .. n :
        step[<<f, k>>] = SizeStep(ss, f, k) /\ SizeStep(ss, f, k) \in Nat
  <2>1. TAKE f \in [0 .. n -> Nat], k \in 0 .. n
  <2>2. \A j \in 0 .. k - 1 : f[j] \in Nat
    OBVIOUS
  <2>3. SizeStep(ss, f, k) \in Nat
    BY <2>2, SizeStepNat
  <2>4. QED BY <2>3
<1>3. step \in [[0 .. n -> Nat] \X (0 .. n) -> Nat]
  <2>1. \A p \in [0 .. n -> Nat] \X (0 .. n) : SizeStep(ss, p[1], p[2]) \in Nat
    BY <1>2
  <2>2. QED BY <2>1
<1> HIDE DEF step
<1>4. ASSUME NEW f \in [0 .. n -> Nat], NEW g \in [0 .. n -> Nat], NEW k \in 0 .. n, Below(f, g, k)
      PROVE  step[<<f, k>>] = step[<<g, k>>]
  <2>1. \A j \in 0 .. k - 1 : f[j] \in Nat
    OBVIOUS
  <2>2. k \in Nat /\ Agree(ss, ss, k)
    BY <1>1 DEF Agree
  <2>3. SizeStep(ss, f, k) = SizeStep(ss, g, k)
    BY <1>4, <2>1, <2>2, SizeSame
  <2>4. QED BY <1>2, <2>3
<1>5. LooksBack(n, Nat, step)
  BY <1>3, <1>4 DEF LooksBack
<1>6. PICK f \in [0 .. n -> Nat] : \A k \in 0 .. n : f[k] = step[<<f, k>>]
  <2> HIDE DEF n
  <2>1. QED BY <1>1, <1>5, Recursion
<1>7. f = [k \in 0 .. n |-> SizeStep(ss, f, k)]
  <2>1. \A k \in 0 .. n : f[k] = SizeStep(ss, f, k)
    BY <1>2, <1>6
  <2>2. QED BY <2>1
<1>8. of = CHOOSE s : s = [k \in 0 .. n |-> SizeStep(ss, s, k)]
  BY Zenon DEF Sizes, SizeStep
<1>9. of = [k \in 0 .. n |-> SizeStep(ss, of, k)]
  BY <1>7, <1>8, Zenon
<1> HIDE DEF of
<1>10. \A k \in 0 .. n : of[k] = SizeStep(ss, of, k)
  BY <1>9, Zenon
<1>11. ASSUME NEW k \in 0 .. n, \A j \in 0 .. k - 1 : of[j] \in Nat PROVE of[k] \in Nat
  BY <1>10, <1>11, SizeStepNat
<1>12. \A k \in 0 .. n : of[k] \in Nat
  BY <1>1, <1>11, ValuesIn
<1>13. QED BY <1>10, <1>12 DEF of

LEMMA SameSizes ==
  ASSUME NEW ss, NEW ts, NEW k \in Nat, Agree(ss, ts, k)
  PROVE  \A j \in 0 .. k : Sizes(ss)[j] = Sizes(ts)[j]
<1> DEFINE f == Sizes(ss)
           g == Sizes(ts)
<1>1. Len(ss) \in Nat /\ Len(ts) \in Nat /\ StructsOK(ss) /\ StructsOK(ts)
  BY SequenceProperties DEF Agree, StructsOK
<1>2. ASSUME NEW j \in 0 .. k, Below(f, g, j) PROVE f[j] = g[j]
  <2>1. j \in 0 .. Len(ss) /\ j \in 0 .. Len(ts)
    BY <1>1 DEF Agree
  <2>2. j \in Nat /\ Agree(ss, ts, j)
    BY <1>1, <2>1 DEF Agree
  <2>3. \A i \in 0 .. j - 1 : i \in 0 .. Len(ss)
    BY <1>1, <2>1
  <2>4. \A i \in 0 .. j - 1 : f[i] \in Nat
    BY <1>1, <2>3, SizesUnfold
  <2>5. SizeStep(ss, f, j) = SizeStep(ts, g, j)
    BY <1>2, <2>2, <2>4, SizeSame
  <2>6. f[j] = SizeStep(ss, f, j) /\ g[j] = SizeStep(ts, g, j)
    BY <1>1, <2>1, SizesUnfold
  <2>7. QED BY <2>5, <2>6
<1> HIDE DEF f, g
<1>3. \A j \in 0 .. k : f[j] = g[j]
  BY <1>2, SameValues
<1>4. QED BY <1>3 DEF f, g

LEMMA SameSize ==
  ASSUME NEW ss, NEW ts, NEW k \in Nat, Agree(ss, ts, k), NEW t, t.sym \in 0 .. k
  PROVE  TypeSize(ss, t) = TypeSize(ts, t)
  BY SameSizes DEF TypeSize, SizeIn

LEMMA TypeSizeNat ==
  ASSUME NEW ss, StructsOK(ss), NEW t, t.sym \in 0 .. Len(ss), t.dim \in Int
  PROVE  TypeSize(ss, t) \in Nat
  BY SizesUnfold, SizeNat DEF TypeSize

-----------------------------------------------------------------------------
(* The members of a struct that does not hold itself are placed one after  *)
(* another, each where its type allows next.                               *)
Closed(ss, k) == \A i \in DOMAIN ss[k] : ss[k][i].type.sym < k

EndOf(ss, k, i) == IF i = 0 THEN 0 ELSE ss[k][i].offset + TypeSize(ss, ss[k][i].type)

InPlace(ss, k) ==
  Closed(ss, k) =>
    \A i \in DOMAIN ss[k] : ss[k][i].offset = Aligned(ss, EndOf(ss, k, i - 1), ss[k][i].type)

LaidOut(ss) == \A k \in DOMAIN ss : InPlace(ss, k)

LEMMA KeptInPlace ==
  ASSUME NEW ss, NEW ts, NEW k \in Nat \ {0}, Agree(ss, ts, k), InPlace(ss, k)
  PROVE  InPlace(ts, k)
<1>1. ss[k] = ts[k] /\ StructsOK(ss) /\ k \in 0 .. Len(ss)
  BY SequenceProperties DEF Agree, StructsOK
<1>2. Len(ss[k]) \in Nat /\ DOMAIN ss[k] = 1 .. Len(ss[k])
  BY <1>1, EarlierTypes
<1>3. \A i \in DOMAIN ss[k] : ss[k][i].type.sym \in 0 .. k
  BY <1>1, EarlierTypes DEF Proper, MemberType
<1>4. SUFFICES ASSUME Closed(ss, k), NEW i \in DOMAIN ss[k]
               PROVE  ts[k][i].offset = Aligned(ts, EndOf(ts, k, i - 1), ts[k][i].type)
  BY <1>1 DEF InPlace, Closed
<1>5. EndOf(ts, k, i - 1) = EndOf(ss, k, i - 1)
  <2>1. CASE i = 1
    BY <2>1 DEF EndOf
  <2>2. CASE i # 1
    <3>1. i - 1 \in DOMAIN ss[k]
      BY <1>2, <2>2
    <3>2. TypeSize(ss, ss[k][i - 1].type) = TypeSize(ts, ss[k][i - 1].type)
      BY <1>3, <3>1, SameSize
    <3>3. QED BY <1>1, <3>2 DEF EndOf
  <2>3. QED BY <2>1, <2>2
<1>6. ss[k][i].offset = Aligned(ss, EndOf(ss, k, i - 1), ss[k][i].type)
  BY <1>4 DEF InPlace
<1>7. QED BY <1>1, <1>3, <1>5, <1>6, SameAligned

LInv == LaidOut(structs)

\* A struct is begun, without members.
LEMMA BegunLaidOut ==
  ASSUME NEW ss, StructsOK(ss), LaidOut(ss)
  PROVE  LaidOut(Append(ss, <<>>))
<1> DEFINE none == <<>>
           ts == Append(ss, none)
           n == Len(ss)
<1>1. IsSequence(ss) /\ n \in Nat /\ DOMAIN ss = 1 .. n
  BY SequenceProperties DEF StructsOK
<1>2. StructsOK(ts)
  BY StructBegun
<1>3. DOMAIN none = {}
  OBVIOUS
<1> HIDE DEF none
<1>4. IsSequence(ts) /\ Len(ts) = n + 1 /\ (\A j \in 1 .. n : ts[j] = ss[j]) /\ ts[n + 1] = none
  BY <1>1, AppendSequence
<1> HIDE DEF ts
<1>5. DOMAIN ts = 1 .. n + 1
  BY <1>4, SequenceProperties
<1>6. ASSUME NEW k \in DOMAIN ts PROVE InPlace(ts, k)
  <2>1. CASE k = n + 1
    BY <1>3, <1>4, <2>1 DEF InPlace
  <2>2. CASE k # n + 1
    <3>1. k \in 1 .. n /\ k \in Nat \ {0}
      BY <1>1, <1>5, <2>2
    <3>2. k <= n /\ k <= n + 1
      BY <1>1, <3>1
    <3>3. \A j \in 1 .. k : j \in 1 .. n
      BY <1>1, <3>1
    <3>4. Agree(ss, ts, k)
      BY <1>2, <1>4, <3>2, <3>3 DEF Agree, ts
    <3>5. QED BY <1>1, <3>1, <3>4, KeptInPlace DEF LaidOut
  <2>3. QED BY <2>1, <2>2
<1>7. QED BY <1>6 DEF LaidOut, ts, none

\* The last struct gets another member.
LEMMA MemberLaidOut ==
  ASSUME NEW ss, StructsOK(ss), LaidOut(ss), NEW m, NEW n, n = Len(ss), n \in DOMAIN ss,
         Proper(m.type, n), m.offset = Aligned(ss, EndOf(ss, n, Len(ss[n])), m.type)
  PROVE  LaidOut(Put(ss, n, Append(ss[n], m)))
<1> DEFINE ms == ss[n]
           us == Append(ms, m)
           ts == Put(ss, n, us)
           q == Len(ms)
<1>1. IsSequence(ss) /\ n \in Nat \ {0} /\ DOMAIN ss = 1 .. n /\ StructOK(ms, n)
  BY SequenceProperties DEF StructsOK
<1>2. IsSequence(ms) /\ q \in Nat /\ DOMAIN ms = 1 .. q
  BY <1>1, SequenceProperties DEF StructOK
<1>3. StructOK(us, n)
  BY <1>1, MemberAppended
<1>4. IsSequence(us) /\ Len(us) = q + 1 /\ (\A i \in 1 .. q : us[i] = ms[i]) /\ us[q + 1] = m
  BY <1>2, AppendSequence
<1> HIDE DEF us
<1>5. DOMAIN us = 1 .. q + 1
  BY <1>4, SequenceProperties
<1>6. StructsOK(ts) /\ Len(ts) = n
  BY <1>3, StructSet
<1>7. DOMAIN ts = 1 .. n /\ \A j \in 1 .. n : ts[j] = IF j = n THEN us ELSE ss[j]
  BY <1>1 DEF Put
<1> HIDE DEF ts
<1>8. ASSUME NEW k \in 1 .. n - 1 PROVE InPlace(ts, k)
  <2>1. k \in DOMAIN ss /\ k \in Nat \ {0} /\ k <= n /\ \A j \in 1 .. k : j \in 1 .. n /\ j # n
    BY <1>1
  <2>2. Agree(ss, ts, k)
    BY <1>6, <1>7, <2>1 DEF Agree
  <2>3. QED BY <2>1, <2>2, KeptInPlace DEF LaidOut
<1>9. InPlace(ts, n)
  <2> SUFFICES ASSUME Closed(ts, n), NEW i \in 1 .. q + 1
               PROVE  us[i].offset = Aligned(ts, EndOf(ts, n, i - 1), us[i].type)
    BY <1>1, <1>5, <1>7 DEF InPlace
  <2>1. ts[n] = us
    BY <1>1, <1>7
  <2>2. \A j \in 1 .. q + 1 : us[j].type.sym \in 0 .. n - 1
    <3> TAKE j \in 1 .. q + 1
    <3>1. Proper(us[j].type, n) /\ us[j].type.sym < n
      BY <1>3, <1>5, <2>1 DEF StructOK, Closed
    <3>2. QED BY <1>1, <3>1 DEF Proper
  <2>3. n - 1 \in Nat /\ Agree(ss, ts, n - 1)
    <3>1. n - 1 \in Nat /\ n - 1 <= n /\ \A j \in 1 .. n - 1 : j \in 1 .. n /\ j # n
      BY <1>1
    <3>2. QED BY <1>6, <1>7, <3>1 DEF Agree
  <2>4. ASSUME NEW j \in 0 .. q PROVE EndOf(ss, n, j) = EndOf(ts, n, j)
    <3>1. CASE j = 0
      BY <3>1 DEF EndOf
    <3>2. CASE j # 0
      <4>1. j \in 1 .. q /\ j \in 1 .. q + 1
        BY <1>2, <3>2
      <4>2. us[j] = ms[j] /\ us[j].type.sym \in 0 .. n - 1
        BY <1>4, <2>2, <4>1
      <4>3. TypeSize(ss, us[j].type) = TypeSize(ts, us[j].type)
        BY <2>3, <4>2, SameSize
      <4>4. QED BY <2>1, <4>2, <4>3 DEF EndOf
    <3>3. QED BY <3>1, <3>2
  <2>5. i - 1 \in 0 .. q
    BY <1>2
  <2>6. us[i].offset = Aligned(ss, EndOf(ss, n, i - 1), us[i].type)
    <3>1. CASE i = q + 1
      <4>1. i - 1 = q
        BY <1>2, <3>1
      <4>2. QED BY <1>4, <3>1, <4>1
    <3>2. CASE i # q + 1
      <4>1. i \in 1 .. q
        BY <1>2, <3>2
      <4>2. \A j \in 1 .. q : j \in 1 .. q + 1
        BY <1>2
      <4>3. Closed(ss, n)
        BY <1>2, <1>4, <1>5, <2>1, <4>2 DEF Closed
      <4>4. ms[i].offset = Aligned(ss, EndOf(ss, n, i - 1), ms[i].type)
        BY <1>1, <1>2, <4>1, <4>3 DEF LaidOut, InPlace
      <4>5. QED BY <1>4, <4>1, <4>4
    <3>3. QED BY <3>1, <3>2
  <2>7. QED BY <2>2, <2>3, <2>4, <2>5, <2>6, SameAligned
<1>10. \A k \in 1 .. n : k = n \/ k \in 1 .. n - 1
  BY <1>1
<1>11. LaidOut(ts)
  BY <1>7, <1>8, <1>9, <1>10 DEF LaidOut
<1>12. QED BY <1>11 DEF ts, us

LEMMA VariableLaidOut ==
  ASSUME IInv, LInv, Variable, ~ Fail, ~ End("undefined")
  PROVE  LInv'
<1> DEFINE t == Item.type
           n == owner.no
           no == CASE owner.kind = "fn"     -> Len(fns[owner.no].locals)
                   [] owner.kind = "struct" -> Aligned(structs, NextOffset, t)
                   [] owner.kind = "none"   -> Len(globals) + 1
           m == [name |-> Item.name, type |-> t, offset |-> no]
<1>1. /\ status = "parsing" /\ Item.do = "variable"
      /\ structs' = IF owner.kind = "struct"
                    THEN [structs EXCEPT ![owner.no] = Append(structs[owner.no], m)] ELSE structs
  BY DEF Variable, Doing, Need
<1>2. CASE owner.kind # "struct"
  BY <1>1, <1>2 DEF LInv
<1>3. CASE owner.kind = "struct"
  <2>1. n = Len(structs) /\ n \in DOMAIN structs
    BY <1>1, <1>3, StructOwner
  <2>2. StructsOK(structs)
    BY TablesAre
  <2>3. Proper(t, Len(structs))
    BY <1>1, ItemIs, PlainDo DEF ItemOK, Declaring, WithType
  <2>4. m.type = t /\ m.offset = Aligned(structs, NextOffset, t)
    BY <1>3
  <2>5. IsSequence(structs[n])
    BY <2>1, <2>2 DEF StructsOK, StructOK
  <2>6. NextOffset = EndOf(structs, n, Len(structs[n]))
    <3>1. CASE structs[n] = <<>>
      <4>1. Len(structs[n]) = 0
        BY <3>1
      <4>2. QED BY <3>1, <4>1 DEF NextOffset, EndOf
    <3>2. CASE structs[n] # <<>>
      <4>1. Len(structs[n]) # 0
        BY <2>5, <3>2, SequenceProperties
      <4>2. QED BY <3>2, <4>1 DEF NextOffset, EndOf, Last
    <3>3. QED BY <3>1, <3>2
  <2>7. structs' = Put(structs, n, Append(structs[n], m))
    BY <1>1, <1>3 DEF Put
  <2> HIDE DEF m, n
  <2>8. QED BY <2>1, <2>2, <2>3, <2>4, <2>6, <2>7, MemberLaidOut DEF LInv
<1>4. QED BY <1>2, <1>3

LEMMA NextLaidOut ==
  ASSUME IInv, LInv, Next
  PROVE  LInv'
<1>1. CASE UNCHANGED structs
  BY <1>1 DEF LInv
<1>2. UNCHANGED table => UNCHANGED structs
  BY DEF table
<1>3. Fail \/ End("undefined") => UNCHANGED structs
  BY DEF Fail, End, table
<1>4. CASE StructTag
  <2>1. ParserOnly => UNCHANGED structs
    BY DEF ParserOnly, table
  <2>2. CASE structs' = Append(structs, <<>>)
    BY <2>2, TablesAre, BegunLaidOut DEF LInv
  <2>3. QED BY <1>1, <1>3, <1>4, <2>1, <2>2 DEF StructTag, Need
<1>5. CASE Variable
  BY <1>1, <1>3, <1>5, VariableLaidOut
<1>6. CASE EndStruct \/ Declaration \/ Parameter \/ Body \/ EndFunction
  <2>1. CASE EndStruct \/ Parameter \/ EndFunction
    BY <1>1, <1>3, <2>1 DEF EndStruct, Parameter, EndFunction, Need
  <2>2. CASE Declaration
    BY <1>1, <1>2, <1>3, <2>2 DEF Declaration, Need, ParserOnly
  <2>3. CASE Body
    BY <1>1, <1>2, <1>3, <2>3 DEF Body, Need
  <2>4. QED BY <1>6, <2>1, <2>2, <2>3
<1>7. CASE Block \/ Stm
  BY <1>1, <1>2, <1>3, <1>7 DEF Block, Stm, Need, ParserOnly, CodeOnly
<1>8. QED
  BY <1>1, <1>2, <1>4, <1>5, <1>6, <1>7, TableRead

-----------------------------------------------------------------------------
(* What the places of members say of sizes.                                *)
LEMMA InPlaceEnds ==
  ASSUME NEW ss, StructsOK(ss), NEW k \in DOMAIN ss, Closed(ss, k), InPlace(ss, k)
  PROVE  LET es == Ends(ss, k, Sizes(ss)) IN
         /\ Len(ss[k]) \in Nat /\ DOMAIN ss[k] = 1 .. Len(ss[k]) /\ k \in 1 .. Len(ss)
         /\ \A i \in 0 .. Len(ss[k]) : es[i] = EndOf(ss, k, i) /\ es[i] \in Nat
         /\ \A i \in DOMAIN ss[k] : ss[k][i].offset = Aligned(ss, es[i - 1], ss[k][i].type)
<1> DEFINE of == Sizes(ss)
           es == Ends(ss, k, of)
           n == Len(ss[k])
           g == [i \in 0 .. n |-> EndOf(ss, k, i)]
<1>1. k \in 1 .. Len(ss) /\ Len(ss) \in Nat
  BY SequenceProperties DEF StructsOK
<1>2. n \in Nat /\ DOMAIN ss[k] = 1 .. n
  BY <1>1, EarlierTypes
<1>3. \A j \in 0 .. k - 1 : j \in 0 .. Len(ss)
  BY <1>1
<1>4. \A j \in 0 .. k - 1 : of[j] \in Nat
  BY <1>3, SizesUnfold
<1>5. \A i \in 0 .. n : es[i] = EndStep(ss, k, of, es, i) /\ es[i] \in Nat
  BY <1>1, <1>4, EndsUnfold
<1>6. \A i \in 1 .. n : i \in Earlier(ss, k)
  BY <1>2 DEF Earlier, Closed
<1>7. ASSUME NEW i \in 0 .. n, Below(es, g, i) PROVE es[i] = g[i]
  <2> HIDE DEF es, of
  <2>1. CASE i = 0
    BY <1>5, <2>1 DEF EndStep, EndOf
  <2>2. CASE i # 0
    <3>1. i \in 1 .. n /\ i - 1 \in 0 .. i - 1 /\ i - 1 \in 0 .. n
      BY <1>2, <2>2
    <3>2. es[i - 1] = EndOf(ss, k, i - 1)
      BY <1>7, <3>1 DEF Below
    <3>3. ss[k][i].offset = Aligned(ss, es[i - 1], ss[k][i].type)
      BY <1>2, <3>1, <3>2 DEF InPlace
    <3>4. es[i] = ss[k][i].offset + SizeIn(of, ss[k][i].type)
      BY <1>5, <1>6, <2>2, <3>1, <3>3 DEF EndStep
    <3>5. QED BY <2>2, <3>4 DEF EndOf, TypeSize, of
  <2>3. QED BY <2>1, <2>2
<1> HIDE DEF es, g
<1>8. \A i \in 0 .. n : es[i] = g[i]
  BY <1>2, <1>7, SameValues
<1>9. \A i \in 0 .. n : es[i] = EndOf(ss, k, i)
  BY <1>8 DEF g
<1>10. \A i \in 1 .. n : i - 1 \in 0 .. n
  BY <1>2
<1>11. QED
  BY <1>1, <1>2, <1>5, <1>9, <1>10 DEF es, InPlace

LEMMA EndsGrow ==
  ASSUME NEW ss, StructsOK(ss), NEW k \in DOMAIN ss, Closed(ss, k), InPlace(ss, k),
         NEW i \in DOMAIN ss[k]
  PROVE  LET es == Ends(ss, k, Sizes(ss)) IN
         /\ \A j \in i .. Len(ss[k]) : es[i] <= es[j]
         /\ \A j \in i + 1 .. Len(ss[k]) : es[i] <= ss[k][j].offset
<1> DEFINE es == Ends(ss, k, Sizes(ss))
           n == Len(ss[k])
           S == {j \in Nat : i <= j => es[i] <= es[j]}
<1>1. /\ n \in Nat /\ DOMAIN ss[k] = 1 .. n /\ k \in 1 .. Len(ss)
      /\ \A j \in 0 .. n : es[j] = EndOf(ss, k, j) /\ es[j] \in Nat
      /\ \A j \in DOMAIN ss[k] : ss[k][j].offset = Aligned(ss, es[j - 1], ss[k][j].type)
  BY InPlaceEnds
<1> HIDE DEF es
<1>2. ASSUME NEW j \in 1 .. n
      PROVE  es[j - 1] \in Nat /\ ss[k][j].offset \in Nat /\ es[j - 1] <= ss[k][j].offset
             /\ ss[k][j].offset <= es[j]
  <2> DEFINE t == ss[k][j].type
  <2>1. j - 1 \in 0 .. n /\ j \in 0 .. n /\ j # 0
    BY <1>1
  <2>2. Len(ss) \in Nat
    BY SequenceProperties DEF StructsOK
  <2>3. Proper(t, k)
    BY <1>1, <2>2, EarlierTypes DEF MemberType
  <2>4. t.sym \in 0 .. Len(ss) /\ t.dim \in Int
    BY <1>1, <2>2, <2>3 DEF Proper
  <2>5. es[j - 1] \in Nat /\ es[j] = EndOf(ss, k, j)
    BY <1>1, <2>1
  <2>6. ss[k][j].offset \in Nat /\ ss[k][j].offset >= es[j - 1]
    BY <1>1, <2>4, <2>5, AlignedIs
  <2>7. es[j] = ss[k][j].offset + TypeSize(ss, t)
    BY <2>1, <2>5 DEF EndOf
  <2>8. TypeSize(ss, t) \in Nat
    BY <2>4, TypeSizeNat
  <2> HIDE DEF t
  <2>9. QED BY <2>5, <2>6, <2>7, <2>8
<1>3. i \in 1 .. n /\ i \in Nat
  BY <1>1
<1>4. ASSUME NEW j \in 0 .. n, 0 .. j - 1 \subseteq S PROVE j \in S
  <2> SUFFICES ASSUME i <= j PROVE es[i] <= es[j]
    BY <1>1
  <2>1. CASE i = j
    BY <1>1, <1>3, <2>1
  <2>2. CASE i # j
    <3>1. j \in 1 .. n /\ j - 1 \in 0 .. j - 1 /\ i <= j - 1 /\ j - 1 \in 0 .. n
      BY <1>1, <1>3, <2>2
    <3>2. es[i] <= es[j - 1]
      BY <1>4, <3>1
    <3>3. es[i] \in Nat /\ es[j] \in Nat
      BY <1>1, <1>3
    <3>4. es[j - 1] \in Nat /\ ss[k][j].offset \in Nat /\ es[j - 1] <= ss[k][j].offset
          /\ ss[k][j].offset <= es[j]
      BY <1>2, <3>1
    <3> DEFINE offset == ss[k][j].offset
    <3> HIDE DEF offset
    <3>5. es[i] <= es[j - 1] /\ es[j - 1] \in Nat /\ offset \in Nat
          /\ es[j - 1] <= offset /\ offset <= es[j]
      BY <3>2, <3>4 DEF offset
    <3>6. QED BY <3>3, <3>5
  <2>3. QED BY <2>1, <2>2
<1> HIDE DEF S
<1>5. 0 .. n \subseteq S
  BY <1>1, <1>4, Everywhere
<1>6. ASSUME NEW j \in i .. n PROVE es[i] <= es[j]
  <2>1. j \in 0 .. n /\ i <= j
    BY <1>1, <1>3
  <2>2. QED BY <1>5, <2>1 DEF S
<1>7. ASSUME NEW j \in i + 1 .. n PROVE es[i] <= ss[k][j].offset
  <2>1. j \in 1 .. n /\ j - 1 \in i .. n /\ j - 1 \in 0 .. n
    BY <1>1, <1>3
  <2>2. es[i] <= es[j - 1] /\ es[i] \in Nat
    BY <1>1, <1>3, <1>6, <2>1
  <2>3. QED BY <1>2, <2>1, <2>2
<1>8. QED BY <1>6, <1>7 DEF es

LEMMA InPlaceApart ==
  ASSUME NEW ss, StructsOK(ss), NEW k \in DOMAIN ss, Closed(ss, k), InPlace(ss, k),
         NEW i \in DOMAIN ss[k]
  PROVE  LET m == ss[k][i]
             end == m.offset + TypeSize(ss, m.type)
         IN  /\ m.offset % TypeAlignment(ss, m.type) = 0
             /\ end <= TypeSize(ss, StructT(k))
             /\ \A j \in i + 1 .. Len(ss[k]) : end <= ss[k][j].offset
<1> DEFINE es == Ends(ss, k, Sizes(ss))
           n == Len(ss[k])
           t == ss[k][i].type
<1>1. /\ n \in Nat /\ DOMAIN ss[k] = 1 .. n /\ k \in 1 .. Len(ss)
      /\ \A j \in 0 .. n : es[j] = EndOf(ss, k, j) /\ es[j] \in Nat
      /\ \A j \in DOMAIN ss[k] : ss[k][j].offset = Aligned(ss, es[j - 1], ss[k][j].type)
  BY InPlaceEnds
<1>2. (\A j \in i .. n : es[i] <= es[j]) /\ \A j \in i + 1 .. n : es[i] <= ss[k][j].offset
  BY EndsGrow
<1>3. Len(ss) \in Nat
  BY SequenceProperties DEF StructsOK
<1>4. TypeSize(ss, StructT(k)) = Sizes(ss)[k] /\ k # 0
  BY <1>1 DEF TypeSize, SizeIn, StructT
<1>5. Sizes(ss)[k] >= es[n] /\ Sizes(ss)[k] \in Nat
  <2>1. k \in 0 .. Len(ss) /\ \A j \in 0 .. k - 1 : j \in 0 .. Len(ss)
    BY <1>1, <1>3
  <2>2. \A j \in 0 .. k - 1 : Sizes(ss)[j] \in Nat
    BY <2>1, SizesUnfold
  <2>3. SizeStep(ss, Sizes(ss), k) >= es[n]
    BY <1>4, <2>1, <2>2, SizeStepNat
  <2>4. QED BY <2>1, <2>3, SizesUnfold
<1> HIDE DEF es
<1>6. i \in 0 .. n /\ i - 1 \in 0 .. n /\ i # 0 /\ n \in i .. n /\ n \in 0 .. n
  BY <1>1
<1>7. es[i] = ss[k][i].offset + TypeSize(ss, t)
  BY <1>1, <1>6 DEF EndOf
<1>8. es[i] <= TypeSize(ss, StructT(k))
  <2>1. es[i] <= es[n] /\ es[i] \in Nat /\ es[n] \in Nat
    BY <1>1, <1>2, <1>6
  <2>2. QED BY <1>4, <1>5, <2>1
<1>9. ss[k][i].offset % TypeAlignment(ss, t) = 0
  <2>1. Proper(t, k)
    BY <1>1, <1>3, EarlierTypes DEF MemberType
  <2>2. t.sym \in 0 .. Len(ss)
    BY <1>1, <1>3, <2>1 DEF Proper
  <2>3. es[i - 1] \in Nat
    BY <1>1, <1>6
  <2>4. ss[k][i].offset = Aligned(ss, es[i - 1], t)
    BY <1>1
  <2>5. Aligned(ss, es[i - 1], t) % TypeAlignment(ss, t) = 0
    BY <2>2, <2>3, AlignedIs
  <2>6. QED BY <2>4, <2>5
<1>10. QED BY <1>2, <1>7, <1>8, <1>9

LEMMA LaidOutIs ==
  ASSUME IInv, LInv
  PROVE  MembersLaidOut
<1> SUFFICES ASSUME NEW k \in DOMAIN structs, Measurable(structs, StructT(k)),
                    NEW i \in DOMAIN structs[k]
             PROVE  LET m == structs[k][i]
                        end == m.offset + TypeSize(structs, m.type)
                    IN  /\ m.offset % TypeAlignment(structs, m.type) = 0
                        /\ end <= TypeSize(structs, StructT(k))
                        /\ \A j \in i + 1 .. Len(structs[k]) : end <= structs[k][j].offset
  BY DEF MembersLaidOut
<1>1. StructsOK(structs) /\ k # 0
  BY TablesAre, SequenceProperties DEF StructsOK
<1>2. Closed(structs, k)
  <2>1. PICK S \in SUBSET DOMAIN structs :
          /\ StructT(k).sym \in {0} \cup S
          /\ \A l \in S : \A j \in DOMAIN structs[l] :
               LET s == structs[l][j].type.sym IN s < l /\ s \in {0} \cup S
    BY DEF Measurable
  <2>2. k \in S
    BY <1>1, <2>1 DEF StructT
  <2>3. QED BY <2>1, <2>2 DEF Closed
<1>3. InPlace(structs, k)
  BY DEF LInv, LaidOut
<1>4. QED BY <1>1, <1>2, <1>3, InPlaceApart

(* The members declared so far are where the layout rules put them, in     *)
(* every struct (varDeclarator in parser.c).                               *)
THEOREM LayoutInvariant == Spec => [](IInv /\ LInv)
<1>1. Init => LInv
  <2> SUFFICES ASSUME Init PROVE LInv
    OBVIOUS
  <2>1. structs = <<>>
    BY DEF Init
  <2>2. DOMAIN structs = {}
    BY <2>1
  <2>3. QED BY <2>2 DEF LInv, LaidOut
<1>2. IInv /\ LInv /\ [Next]_vars => LInv'
  <2>1. UNCHANGED vars /\ LInv => LInv'
    BY DEF vars, table, LInv
  <2>2. QED BY <2>1, NextLaidOut
<1>3. QED BY <1>1, <1>2, Invariant, PTL DEF Spec

(* Whatever structs a source defines, the members of each are aligned,     *)
(* follow one another without overlapping, and lie within what type_size   *)
(* says the struct takes: the offsets that the parser gives while a struct *)
(* is being defined (offset in parser.c) are those that type_base_size     *)
(* computes of the whole afterwards (type.c).  Structs that hold           *)
(* themselves are left out: their size is not defined.                     *)
THEOREM Layout == Spec => []MembersLaidOut
<1>1. IInv /\ LInv => MembersLaidOut
  BY LaidOutIs
<1>2. QED BY <1>1, LayoutInvariant, PTL
=============================================================================
