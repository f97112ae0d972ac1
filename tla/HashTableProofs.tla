--------------------------- MODULE HashTableProofs ---------------------------
(***************************************************************************)
(* Theorems about the hash table under the command registry: for every     *)
(* hash function, every list of table lengths and every sequence of calls, *)
(* it stays a hash table, and a walk through it misses nothing.            *)
(***************************************************************************)
EXTENDS Commands, FiniteSetTheorems, SequenceTheorems, TLAPS

-----------------------------------------------------------------------------
(* The least element of a set of numbers.                                  *)

LEMMA LessWellFounded ==
  \E R : IsWellFoundedOn(R, Nat) /\ \A x, y \in Nat : <<x, y>> \in R <=> x < y
<1>1. IsWellFoundedOn(OpToRel(<, Nat), Nat)
  BY NatLessThanWellFounded
<1>2. \A x, y \in Nat : <<x, y>> \in OpToRel(<, Nat) <=> x < y
  BY Zenon DEF OpToRel
<1>3. QED BY <1>1, <1>2, Zenon

LEMMA LeastExists ==
  ASSUME NEW T, T \subseteq Nat, T # {}
  PROVE  \E x \in T : \A y \in T : x <= y
<1>1. PICK R : IsWellFoundedOn(R, Nat) /\ \A x, y \in Nat : <<x, y>> \in R <=> x < y
  BY LessWellFounded
<1>2. \E x \in T : \A y \in T : ~ (<<y, x>> \in R)
  <2>1. IsWellFoundedOn(R, Nat)
    BY <1>1
  <2>2. QED BY <2>1, WFMin, Zenon
<1>3. PICK x \in T : \A y \in T : ~ (<<y, x>> \in R)
  BY <1>2
<1>4. \A y \in T : y \in Nat /\ x \in Nat /\ ~(y < x)
  BY <1>1, <1>3
<1>5. QED BY <1>4

LEMMA MinLeast ==
  ASSUME NEW T, T \subseteq Nat, T # {}
  PROVE  Min(T) \in T /\ \A y \in T : Min(T) <= y
<1>1. \E x \in T : \A y \in T : x <= y
  BY LeastExists
<1>2. QED BY <1>1 DEF Min

LEMMA MinOne ==
  ASSUME NEW j \in Nat
  PROVE  Min({j}) = j
BY MinLeast
-----------------------------------------------------------------------------
(* Chains.                                                                 *)
Entries == [k : Keys, v : Values]
Chains == Seq(Entries)
ChainKeys(c) == {c[j].k : j \in 1..Len(c)}
Distinct(c) == \A j, l \in 1..Len(c) : c[j].k = c[l].k => j = l
Cut(c, p) == SubSeq(c, 1, p - 1) \o SubSeq(c, p + 1, Len(c))
Consed(entry, c) == <<entry>> \o c

LEMMA ChainFacts ==
  ASSUME NEW c \in Chains
  PROVE  /\ Len(c) \in Nat /\ DOMAIN c = 1..Len(c)
         /\ \A j \in 1..Len(c) : c[j] \in Entries /\ c[j].k \in Keys
         /\ ChainKeys(c) \subseteq Keys
<1>1. Len(c) \in Nat /\ DOMAIN c = 1..Len(c) /\ \A j \in 1..Len(c) : c[j] \in Entries
  BY LenProperties, ElementOfSeq DEF Chains
<1>2. \A x \in Entries : x.k \in Keys
  BY DEF Entries
<1>3. QED BY <1>1, <1>2 DEF ChainKeys

LEMMA CutFacts ==
  ASSUME NEW c \in Chains, NEW p \in 1..Len(c)
  PROVE  /\ Cut(c, p) \in Chains /\ Len(Cut(c, p)) = Len(c) - 1
         /\ \A j \in 1..Len(c) - 1 : Cut(c, p)[j] = IF j < p THEN c[j] ELSE c[j + 1]
<1> DEFINE n == Len(c)
<1> DEFINE a == SubSeq(c, 1, p - 1)
<1> DEFINE b == SubSeq(c, p + 1, n)
<1>1. n \in Nat /\ p \in Int /\ 1 <= p /\ p <= n
  BY ChainFacts
<1>2. \A j \in 1..n : c[j] \in Entries
  BY ChainFacts
<1>3. a \in Seq(Entries) /\ Len(a) = p - 1 /\ \A j \in 1..p - 1 : a[j] = c[j]
  <2>1. \A j \in 1..p - 1 : c[j] \in Entries
    BY <1>1, <1>2
  <2>2. 1 \in Int /\ p - 1 \in Int
    BY <1>1
  <2>3. /\ a \in Seq(Entries)
        /\ Len(a) = IF 1 <= p - 1 THEN (p - 1) - 1 + 1 ELSE 0
        /\ \A j \in 1..(p - 1) - 1 + 1 : a[j] = c[1 + j - 1]
    BY <2>1, <2>2, SubSeqProperties
  <2> HIDE DEF a
  <2>4. Len(a) = p - 1
    BY <2>3, <1>1
  <2>5. \A j \in 1..p - 1 : j \in 1..(p - 1) - 1 + 1 /\ 1 + j - 1 = j
    BY <1>1
  <2>6. QED BY <2>3, <2>4, <2>5
<1>4. b \in Seq(Entries) /\ Len(b) = n - p /\ \A j \in 1..n - p : b[j] = c[p + j]
  <2>1. \A j \in p + 1..n : c[j] \in Entries
    BY <1>1, <1>2
  <2>2. p + 1 \in Int /\ n \in Int
    BY <1>1
  <2>3. /\ b \in Seq(Entries)
        /\ Len(b) = IF p + 1 <= n THEN n - (p + 1) + 1 ELSE 0
        /\ \A j \in 1..n - (p + 1) + 1 : b[j] = c[(p + 1) + j - 1]
    <3> HIDE DEF n
    <3> QED BY <2>1, <2>2, SubSeqProperties
  <2> HIDE DEF b, n
  <2>4. Len(b) = n - p
    BY <2>3, <1>1
  <2>5. \A j \in 1..n - p : j \in 1..n - (p + 1) + 1 /\ (p + 1) + j - 1 = p + j
    BY <1>1
  <2>6. QED BY <2>3, <2>4, <2>5
<1>5. Cut(c, p) = a \o b
  BY DEF Cut
<1> HIDE DEF a, b
<1>6. /\ a \o b \in Seq(Entries) /\ Len(a \o b) = Len(a) + Len(b)
      /\ \A j \in 1..Len(a) + Len(b) : (a \o b)[j] = IF j <= Len(a) THEN a[j] ELSE b[j - Len(a)]
  <2>1. a \in Seq(Entries) /\ b \in Seq(Entries)
    BY <1>3, <1>4
  <2>2. QED BY <2>1, ConcatProperties
<1>7. Len(a \o b) = n - 1
  <2> HIDE DEF n
  <2> QED BY <1>1, <1>3, <1>4, <1>6
<1>8. \A j \in 1..n - 1 : (a \o b)[j] = IF j < p THEN c[j] ELSE c[j + 1]
  <2> HIDE DEF n
  <2>1. \A j \in 1..n - 1 : /\ j \in 1..Len(a) + Len(b)
                            /\ j < p => j <= Len(a) /\ j \in 1..p - 1
                            /\ ~(j < p) => ~(j <= Len(a)) /\ j - Len(a) \in 1..n - p /\ p + (j - Len(a)) = j + 1
    <3>1. Len(a) = p - 1 /\ Len(b) = n - p
      BY <1>3, <1>4
    <3>2. QED BY <3>1, <1>1
  <2>2. QED BY <2>1, <1>3, <1>4, <1>6
<1>9. QED BY <1>5, <1>6, <1>7, <1>8 DEF Chains

LEMMA CutKeys ==
  ASSUME NEW c \in Chains, NEW p \in 1..Len(c), Distinct(c)
  PROVE  Distinct(Cut(c, p)) /\ ChainKeys(Cut(c, p)) = ChainKeys(c) \ {c[p].k}
<1> DEFINE n == Len(c)
<1> DEFINE d == Cut(c, p)
<1>1. n \in Nat /\ p \in Int /\ 1 <= p /\ p <= n
  BY ChainFacts
<1>2. Len(d) = n - 1 /\ \A j \in 1..n - 1 : d[j] = IF j < p THEN c[j] ELSE c[j + 1]
  BY CutFacts
<1>3. \A j, l \in 1..n : c[j].k = c[l].k => j = l
  BY DEF Distinct
<1>c. ChainKeys(c) = {c[j].k : j \in 1..n} /\ ChainKeys(d) = {d[j].k : j \in 1..Len(d)}
  BY DEF ChainKeys
<1> HIDE DEF n, d
<1>4. \A j, l \in 1..Len(d) : d[j].k = d[l].k => j = l
  <2> TAKE j, l \in 1..Len(d)
  <2> HAVE d[j].k = d[l].k
  <2> DEFINE J == IF j < p THEN j ELSE j + 1
  <2> DEFINE L == IF l < p THEN l ELSE l + 1
  <2>1. j \in 1..n - 1 /\ l \in 1..n - 1 /\ J \in 1..n /\ L \in 1..n
    BY <1>1, <1>2
  <2>2. d[j] = c[J] /\ d[l] = c[L]
    BY <1>2, <2>1
  <2>3. J = L
    <3> HIDE DEF J, L
    <3> QED BY <1>3, <2>1, <2>2
  <2>4. QED BY <2>1, <2>3, <1>1
<1>5. ChainKeys(d) \subseteq ChainKeys(c) \ {c[p].k}
  <2> SUFFICES ASSUME NEW j \in 1..Len(d) PROVE d[j].k \in ChainKeys(c) \ {c[p].k}
    BY <1>c
  <2> DEFINE J == IF j < p THEN j ELSE j + 1
  <2>1. j \in 1..n - 1 /\ J \in 1..n /\ J # p
    BY <1>1, <1>2
  <2>2. d[j] = c[J]
    BY <1>2, <2>1
  <2> HIDE DEF J
  <2>3. p \in 1..n
    BY <1>1
  <2>4. QED BY <2>1, <2>2, <2>3, <1>3, <1>c
<1>6. ChainKeys(c) \ {c[p].k} \subseteq ChainKeys(d)
  <2> SUFFICES ASSUME NEW j \in 1..n, c[j].k # c[p].k PROVE c[j].k \in ChainKeys(d)
    BY <1>c
  <2>1. j # p
    OBVIOUS
  <2> DEFINE J == IF j < p THEN j ELSE j - 1
  <2>2. J \in 1..n - 1 /\ (IF J < p THEN J ELSE J + 1) = j
    BY <1>1, <2>1
  <2>3. d[J] = IF J < p THEN c[J] ELSE c[J + 1]
    BY <1>2, <2>2
  <2>4. d[J] = c[j]
    BY <2>2, <2>3
  <2> HIDE DEF J
  <2>5. QED BY <2>2, <2>4, <1>2, <1>c
<1>7. QED BY <1>4, <1>5, <1>6 DEF Distinct, d

LEMMA ConsFacts ==
  ASSUME NEW c \in Chains, NEW x \in Entries
  PROVE  /\ Consed(x, c) \in Chains /\ Len(Consed(x, c)) = Len(c) + 1
         /\ Consed(x, c)[1] = x
         /\ \A j \in 1..Len(c) : Consed(x, c)[j + 1] = c[j]
<1> DEFINE one == <<x>>
<1>1. one \in Seq(Entries) /\ Len(one) = 1 /\ one[1] = x
  OBVIOUS
<1>2. c \in Seq(Entries) /\ Len(c) \in Nat
  BY ChainFacts DEF Chains
<1>d. Consed(x, c) = one \o c
  BY DEF Consed
<1> HIDE DEF one
<1>3. /\ one \o c \in Seq(Entries) /\ Len(one \o c) = Len(one) + Len(c)
      /\ \A j \in 1..Len(one) + Len(c) : (one \o c)[j] = IF j <= Len(one) THEN one[j] ELSE c[j - Len(one)]
  BY <1>1, <1>2, ConcatProperties
<1>4. (one \o c)[1] = x
  BY <1>1, <1>2, <1>3
<1>5. \A j \in 1..Len(c) : (one \o c)[j + 1] = c[j]
  <2> TAKE j \in 1..Len(c)
  <2>1. j + 1 \in 1..Len(one) + Len(c) /\ ~(j + 1 <= Len(one)) /\ (j + 1) - Len(one) = j
    BY <1>1, <1>2
  <2>2. QED BY <2>1, <1>3
<1>6. QED BY <1>1, <1>2, <1>d, <1>3, <1>4, <1>5 DEF Chains

LEMMA ConsKeys ==
  ASSUME NEW c \in Chains, NEW x \in Entries, Distinct(c), x.k \notin ChainKeys(c)
  PROVE  Distinct(Consed(x, c)) /\ ChainKeys(Consed(x, c)) = ChainKeys(c) \cup {x.k}
<1> DEFINE n == Len(c)
<1> DEFINE d == Consed(x, c)
<1>1. n \in Nat
  BY ChainFacts
<1>2. Len(d) = n + 1 /\ d[1] = x /\ \A j \in 1..n : d[j + 1] = c[j]
  BY ConsFacts
<1>3. \A j, l \in 1..n : c[j].k = c[l].k => j = l
  BY DEF Distinct
<1>4. \A j \in 1..n : c[j].k # x.k
  BY DEF ChainKeys
<1>c. ChainKeys(c) = {c[j].k : j \in 1..n} /\ ChainKeys(d) = {d[j].k : j \in 1..Len(d)}
  BY DEF ChainKeys
<1> HIDE DEF n, d
<1>5. \A j \in 1..n + 1 : j = 1 \/ (j - 1 \in 1..n /\ d[j] = c[j - 1])
  <2> TAKE j \in 1..n + 1
  <2>1. CASE j # 1
    <3>1. j - 1 \in 1..n /\ (j - 1) + 1 = j
      BY <1>1, <2>1
    <3>2. QED BY <3>1, <1>2
  <2>2. QED BY <2>1
<1>6. \A j, l \in 1..Len(d) : d[j].k = d[l].k => j = l
  <2> TAKE j, l \in 1..Len(d)
  <2> HAVE d[j].k = d[l].k
  <2>0. j \in 1..n + 1 /\ l \in 1..n + 1 /\ 1 \in 1..n + 1
    BY <1>1, <1>2
  <2>1. CASE j = 1 /\ l # 1
    BY <2>0, <2>1, <1>2, <1>4, <1>5
  <2>2. CASE j # 1 /\ l = 1
    BY <2>0, <2>2, <1>2, <1>4, <1>5
  <2>3. CASE j # 1 /\ l # 1
    <3>1. j - 1 = l - 1
      BY <2>0, <2>3, <1>3, <1>5
    <3>2. QED BY <3>1, <2>0
  <2>4. QED BY <2>1, <2>2, <2>3
<1>7. ChainKeys(d) \subseteq ChainKeys(c) \cup {x.k}
  <2> SUFFICES ASSUME NEW j \in 1..n + 1 PROVE d[j].k \in ChainKeys(c) \cup {x.k}
    BY <1>c, <1>2
  <2>1. QED BY <1>2, <1>5, <1>c
<1>8. ChainKeys(c) \cup {x.k} \subseteq ChainKeys(d)
  <2>1. x.k \in ChainKeys(d)
    <3>1. 1 \in 1..Len(d)
      BY <1>1, <1>2
    <3>2. QED BY <3>1, <1>2, <1>c
  <2>2. \A j \in 1..n : c[j].k \in ChainKeys(d)
    <3> TAKE j \in 1..n
    <3>1. j + 1 \in 1..Len(d)
      BY <1>1, <1>2
    <3>2. QED BY <3>1, <1>2, <1>c
  <2>3. QED BY <2>1, <2>2, <1>c
<1>9. QED BY <1>6, <1>7, <1>8 DEF Distinct, d
-----------------------------------------------------------------------------
(* Tables of a size: the entries are in the chains of their hashes.        *)
Sizes == Nat \ {0}
Put(t, i, c) == [t EXCEPT ![i] = c]
Sorted(t, size) ==
  /\ t \in Seq(Chains) /\ Len(t) = size
  /\ \A i \in 1..size : Distinct(t[i]) /\ \A x \in ChainKeys(t[i]) : IndexFor(size, x) = i

LEMMA IndexIn ==
  ASSUME NEW size \in Sizes, NEW k \in Keys
  PROVE  IndexFor(size, k) \in 1..size
<1>1. Hash[k] \in Nat
  BY TableAssumption
<1>2. Hash[k] % size \in 0..size - 1
  BY <1>1 DEF Sizes
<1>3. QED BY <1>2 DEF IndexFor, Sizes

LEMMA TableFacts ==
  ASSUME NEW t \in Seq(Chains)
  PROVE  Len(t) \in Nat /\ DOMAIN t = 1..Len(t) /\ \A i \in 1..Len(t) : t[i] \in Chains
BY LenProperties, ElementOfSeq

LEMMA PlacesAre ==
  ASSUME NEW t \in Seq(Chains), NEW p
  PROVE  p \in Places(t) <=> \E i \in 1..Len(t) : \E j \in 1..Len(t[i]) : p = <<i, j>>
<1>1. DOMAIN t = 1..Len(t) /\ \A i \in 1..Len(t) : DOMAIN t[i] = 1..Len(t[i])
  BY TableFacts, ChainFacts
<1>2. p \in Places(t) <=> \E i \in DOMAIN t : p \in {i} \X DOMAIN t[i]
  BY DEF Places
<1>3. \A i \in DOMAIN t : p \in {i} \X DOMAIN t[i] <=> \E j \in DOMAIN t[i] : p = <<i, j>>
  OBVIOUS
<1>4. QED BY <1>1, <1>2, <1>3

LEMMA PlaceParts ==
  ASSUME NEW t, NEW i, NEW j
  PROVE  EntryAt(t, <<i, j>>) = t[i][j] /\ <<i, j>>[1] = i /\ <<i, j>>[2] = j
BY DEF EntryAt

LEMMA KeysAre ==
  ASSUME NEW t \in Seq(Chains)
  PROVE  /\ KeysOf(t) = UNION {ChainKeys(t[i]) : i \in 1..Len(t)}
         /\ KeysOf(t) \subseteq Keys
<1>1. ASSUME NEW x PROVE x \in KeysOf(t) <=> \E i \in 1..Len(t) : x \in ChainKeys(t[i])
  <2>1. x \in KeysOf(t) <=> \E p \in Places(t) : x = EntryAt(t, p).k
    BY DEF KeysOf
  <2>2. \A i, j : EntryAt(t, <<i, j>>).k = t[i][j].k
    BY DEF EntryAt
  <2>3. ASSUME NEW p \in Places(t), x = EntryAt(t, p).k
        PROVE  \E i \in 1..Len(t) : x \in ChainKeys(t[i])
    <3>1. PICK i \in 1..Len(t) : \E j \in 1..Len(t[i]) : p = <<i, j>>
      BY PlacesAre
    <3>2. PICK j \in 1..Len(t[i]) : p = <<i, j>>
      BY <3>1
    <3>3. x = EntryAt(t, <<i, j>>).k
      BY <2>3, <3>2
    <3>4. x = t[i][j].k
      BY <2>2, <3>3
    <3>5. QED BY <3>4 DEF ChainKeys
  <2>4. ASSUME NEW i \in 1..Len(t), NEW j \in 1..Len(t[i]), x = t[i][j].k
        PROVE  \E p \in Places(t) : x = EntryAt(t, p).k
    <3>1. <<i, j>> \in Places(t)
      BY PlacesAre
    <3>2. QED BY <2>2, <2>4, <3>1
  <2>5. QED BY <2>1, <2>3, <2>4 DEF ChainKeys
<1>2. KeysOf(t) = UNION {ChainKeys(t[i]) : i \in 1..Len(t)}
  BY <1>1
<1>3. \A i \in 1..Len(t) : ChainKeys(t[i]) \subseteq Keys
  BY TableFacts, ChainFacts
<1>4. QED BY <1>2, <1>3

LEMMA KeyChain ==
  ASSUME NEW size \in Sizes, NEW t, Sorted(t, size), NEW k \in Keys
  PROVE  k \in KeysOf(t) <=> k \in ChainKeys(t[IndexFor(size, k)])
<1>1. KeysOf(t) = UNION {ChainKeys(t[i]) : i \in 1..Len(t)}
  BY KeysAre DEF Sorted
<1>2. IndexFor(size, k) \in 1..size
  BY IndexIn
<1>3. \A i \in 1..size : k \in ChainKeys(t[i]) => IndexFor(size, k) = i
  BY DEF Sorted
<1>4. Len(t) = size
  BY DEF Sorted
<1>5. QED BY <1>1, <1>2, <1>3, <1>4

LEMMA PutFacts ==
  ASSUME NEW t \in Seq(Chains), NEW i \in 1..Len(t), NEW c \in Chains
  PROVE  /\ Put(t, i, c) \in Seq(Chains) /\ Len(Put(t, i, c)) = Len(t)
         /\ \A j \in 1..Len(t) : Put(t, i, c)[j] = IF j = i THEN c ELSE t[j]
<1> DEFINE n == Len(t)
<1>1. n \in Nat /\ t \in [1..n -> Chains]
  BY TableFacts, LenProperties
<1>2. i \in 1..n
  OBVIOUS
<1> HIDE DEF n
<1>3. Put(t, i, c) \in [1..n -> Chains] /\ \A j \in 1..n : Put(t, i, c)[j] = IF j = i THEN c ELSE t[j]
  BY <1>1, <1>2 DEF Put
<1>4. Put(t, i, c) \in Seq(Chains) /\ Len(Put(t, i, c)) = n
  BY <1>1, <1>3, SeqDef, LenProperties
<1>5. QED BY <1>3, <1>4 DEF n

LEMMA PutAt ==
  ASSUME NEW t \in Seq(Chains), NEW i \in 1..Len(t), NEW c \in Chains, NEW j \in 1..Len(t)
  PROVE  Put(t, i, c)[j] = IF j = i THEN c ELSE t[j]
BY PutFacts

LEMMA PutSorted ==
  ASSUME NEW size \in Sizes, NEW t, Sorted(t, size), NEW i \in 1..size, NEW c \in Chains,
         Distinct(c), \A x \in ChainKeys(c) : IndexFor(size, x) = i
  PROVE  /\ Sorted(Put(t, i, c), size)
         /\ KeysOf(Put(t, i, c)) = (KeysOf(t) \ ChainKeys(t[i])) \cup ChainKeys(c)
<1> DEFINE u == Put(t, i, c)
<1>1. t \in Seq(Chains) /\ Len(t) = size
  BY DEF Sorted
<1>2. u \in Seq(Chains) /\ Len(u) = size /\ \A j \in 1..size : u[j] = IF j = i THEN c ELSE t[j]
  <2>1. i \in 1..Len(t)
    BY <1>1
  <2>2. u \in Seq(Chains) /\ Len(u) = Len(t)
    BY <1>1, <2>1, PutFacts
  <2>3. \A j \in 1..Len(t) : u[j] = IF j = i THEN c ELSE t[j]
    <3>1. t \in Seq(Chains)
      BY <1>1
    <3>2. \A j \in 1..Len(t) : Put(t, i, c)[j] = IF j = i THEN c ELSE t[j]
      BY <2>1, <3>1, PutAt
    <3>3. QED BY <3>2
  <2>4. QED BY <1>1, <2>2, <2>3
<1> HIDE DEF u
<1>3. \A j \in 1..size : Distinct(t[j]) /\ \A x \in ChainKeys(t[j]) : IndexFor(size, x) = j
  BY DEF Sorted
<1>4. \A j \in 1..size : Distinct(u[j]) /\ \A x \in ChainKeys(u[j]) : IndexFor(size, x) = j
  BY <1>2, <1>3
<1>5. KeysOf(t) = UNION {ChainKeys(t[j]) : j \in 1..size} /\ KeysOf(u) = UNION {ChainKeys(u[j]) : j \in 1..size}
  BY <1>1, <1>2, KeysAre
<1>6. \A j \in 1..size : j # i => ChainKeys(t[j]) \cap ChainKeys(t[i]) = {}
  BY <1>3
<1>7. KeysOf(u) = (KeysOf(t) \ ChainKeys(t[i])) \cup ChainKeys(c)
  <2>1. ASSUME NEW x PROVE x \in KeysOf(u) <=> x \in (KeysOf(t) \ ChainKeys(t[i])) \cup ChainKeys(c)
    <3>1. x \in KeysOf(u) <=> \E j \in 1..size : x \in ChainKeys(IF j = i THEN c ELSE t[j])
      BY <1>2, <1>5
    <3>2. x \in KeysOf(t) <=> \E j \in 1..size : x \in ChainKeys(t[j])
      BY <1>5
    <3>3. x \in KeysOf(u) <=> x \in ChainKeys(c) \/ \E j \in 1..size : j # i /\ x \in ChainKeys(t[j])
      BY <3>1
    <3>4. QED BY <3>2, <3>3, <1>6
  <2>2. QED BY <2>1
<1>8. QED BY <1>2, <1>4, <1>7 DEF Sorted, u

LEMMA EmptyChain == <<>> \in Chains /\ Len(<<>>) = 0 /\ Distinct(<<>>) /\ ChainKeys(<<>>) = {}
BY DEF Chains, Distinct, ChainKeys

LEMMA EmptySorted ==
  ASSUME NEW size \in Sizes
  PROVE  Sorted(EmptyTable(size), size) /\ KeysOf(EmptyTable(size)) = {}
<1> DEFINE t == EmptyTable(size)
<1>1. size \in Nat /\ t \in [1..size -> Chains] /\ \A i \in 1..size : t[i] = <<>>
  BY EmptyChain DEF EmptyTable, Sizes
<1> HIDE DEF t
<1>2. t \in Seq(Chains) /\ Len(t) = size
  BY <1>1, SeqDef, LenProperties
<1>3. Sorted(t, size)
  BY <1>1, <1>2, EmptyChain DEF Sorted
<1>4. KeysOf(t) = UNION {ChainKeys(t[i]) : i \in 1..size}
  BY <1>2, KeysAre
<1>5. KeysOf(t) = {}
  BY <1>1, <1>4, EmptyChain
<1>6. QED BY <1>3, <1>5 DEF t
LEMMA InsertSorted ==
  ASSUME NEW size \in Sizes, NEW t, Sorted(t, size), NEW x \in Entries, x.k \notin KeysOf(t)
  PROVE  LET i == IndexFor(size, x.k)
             u == Put(t, i, Consed(x, t[i]))
         IN  i \in 1..size /\ Sorted(u, size) /\ KeysOf(u) = KeysOf(t) \cup {x.k}
<1> DEFINE i == IndexFor(size, x.k)
<1> DEFINE c == t[i]
<1> DEFINE d == Consed(x, c)
<1>1. x.k \in Keys
  BY DEF Entries
<1>2. i \in 1..size
  BY <1>1, IndexIn
<1>3. t \in Seq(Chains) /\ Len(t) = size
  BY DEF Sorted
<1>4. c \in Chains
  <2> HIDE DEF i
  <2>1. QED BY <1>2, <1>3, TableFacts
<1>5. Distinct(c) /\ \A y \in ChainKeys(c) : IndexFor(size, y) = i
  <2> HIDE DEF i
  <2>1. QED BY <1>2 DEF Sorted
<1>6. x.k \notin ChainKeys(c)
  BY <1>1, KeyChain
<1>7. IndexFor(size, x.k) = i
  OBVIOUS
<1>8. d \in Chains /\ Distinct(d) /\ ChainKeys(d) = ChainKeys(c) \cup {x.k}
  <2> HIDE DEF c
  <2>1. d \in Chains
    BY <1>4, ConsFacts
  <2>2. QED BY <2>1, <1>4, <1>5, <1>6, ConsKeys
<1>9. Sorted(Put(t, i, d), size) /\ KeysOf(Put(t, i, d)) = (KeysOf(t) \ ChainKeys(t[i])) \cup ChainKeys(d)
  <2>1. \A y \in ChainKeys(d) : IndexFor(size, y) = i
    BY <1>5, <1>7, <1>8
  <2> HIDE DEF i, d
  <2>2. QED BY <2>1, <1>2, <1>8, PutSorted
<1>10. ChainKeys(t[i]) \subseteq KeysOf(t)
  <2>1. KeysOf(t) = UNION {ChainKeys(t[j]) : j \in 1..size}
    BY <1>3, KeysAre
  <2> HIDE DEF i
  <2>2. QED BY <2>1, <1>2
<1>11. KeysOf(Put(t, i, d)) = KeysOf(t) \cup {x.k}
  <2>1. ChainKeys(d) = ChainKeys(t[i]) \cup {x.k}
    BY <1>8
  <2> HIDE DEF i, c, d
  <2>2. QED BY <2>1, <1>9, <1>10
<1>12. QED BY <1>2, <1>9, <1>11

-----------------------------------------------------------------------------
(* The table of a state, and what the operators find in it.                *)
Ready == primeindex \in DOMAIN Primes /\ Sorted(table, TableLength)

LEMMA LengthIs ==
  ASSUME NEW i \in DOMAIN Primes
  PROVE  i \in Nat /\ 1 <= i /\ i <= Len(Primes) /\ Len(Primes) \in Nat /\ Primes[i] \in Sizes
BY TableAssumption, LenProperties, ElementOfSeq DEF Sizes

LEMMA ChainIs ==
  ASSUME Ready, NEW k \in Keys
  PROVE  /\ TableLength \in Sizes /\ IndexFor(TableLength, k) \in 1..TableLength
         /\ Chain(k) \in Chains /\ Distinct(Chain(k))
         /\ table \in Seq(Chains) /\ Len(table) = TableLength
         /\ \A x \in ChainKeys(Chain(k)) : IndexFor(TableLength, x) = IndexFor(TableLength, k)
<1>1. TableLength \in Sizes
  BY LengthIs DEF Ready, TableLength
<1>2. IndexFor(TableLength, k) \in 1..TableLength
  BY <1>1, IndexIn
<1>3. table \in Seq(Chains) /\ Len(table) = TableLength
  BY DEF Ready, Sorted
<1>4. table[IndexFor(TableLength, k)] \in Chains
  BY <1>2, <1>3, TableFacts
<1>5. /\ Distinct(table[IndexFor(TableLength, k)])
      /\ \A x \in ChainKeys(table[IndexFor(TableLength, k)]) : IndexFor(TableLength, x) = IndexFor(TableLength, k)
  BY <1>2 DEF Ready, Sorted
<1>6. QED BY <1>1, <1>2, <1>3, <1>4, <1>5 DEF Chain

LEMMA PlaceInChain ==
  ASSUME NEW c \in Chains, Distinct(c), NEW j \in 1..Len(c)
  PROVE  Min({l \in DOMAIN c : c[l].k = c[j].k}) = j
<1>1. DOMAIN c = 1..Len(c) /\ Len(c) \in Nat
  BY ChainFacts
<1>2. \A l \in 1..Len(c) : c[l].k = c[j].k => l = j
  BY DEF Distinct
<1>3. {l \in DOMAIN c : c[l].k = c[j].k} = {j}
  BY <1>1, <1>2
<1>4. j \in Nat
  BY <1>1
<1>5. QED BY <1>3, <1>4, MinOne

LEMMA PlaceIs ==
  ASSUME Ready, NEW k \in Keys, NEW j \in 1..Len(Chain(k)), Chain(k)[j].k = k
  PROVE  Has(k) /\ Place(k) = j
<1>1. Chain(k) \in Chains /\ Distinct(Chain(k))
  BY ChainIs
<1>2. DOMAIN Chain(k) = 1..Len(Chain(k))
  BY <1>1, ChainFacts
<1>3. Min({l \in DOMAIN Chain(k) : Chain(k)[l].k = Chain(k)[j].k}) = j
  BY <1>1, PlaceInChain
<1>4. Min({l \in DOMAIN Chain(k) : Chain(k)[l].k = k}) = j
  BY <1>3
<1>5. QED BY <1>2, <1>4 DEF Has, Place

LEMMA HasIs ==
  ASSUME Ready, NEW k \in Keys
  PROVE  /\ Has(k) <=> k \in KeysOf(table)
         /\ Has(k) => Place(k) \in 1..Len(Chain(k)) /\ Chain(k)[Place(k)].k = k
<1>1. Chain(k) \in Chains /\ TableLength \in Sizes
  BY ChainIs
<1>2. DOMAIN Chain(k) = 1..Len(Chain(k))
  BY <1>1, ChainFacts
<1>3. Has(k) <=> \E j \in 1..Len(Chain(k)) : Chain(k)[j].k = k
  BY <1>2 DEF Has
<1>4. k \in KeysOf(table) <=> k \in ChainKeys(Chain(k))
  BY <1>1, KeyChain DEF Ready, Chain
<1>5. Has(k) <=> k \in KeysOf(table)
  BY <1>3, <1>4 DEF ChainKeys
<1>6. ASSUME Has(k) PROVE Place(k) \in 1..Len(Chain(k)) /\ Chain(k)[Place(k)].k = k
  <2>1. PICK j \in 1..Len(Chain(k)) : Chain(k)[j].k = k
    BY <1>3, <1>6
  <2>2. Place(k) = j
    BY <2>1, PlaceIs
  <2>3. QED BY <2>1, <2>2
<1>7. QED BY <1>5, <1>6

LEMMA WithoutIs ==
  ASSUME Ready, NEW k \in Keys, Has(k)
  PROVE  Without(table, k) = Put(table, IndexFor(TableLength, k), Cut(Chain(k), Place(k)))
BY DEF Without, Put, Cut, Chain

LEMMA CutSorted ==
  ASSUME Ready, NEW k \in Keys, Has(k)
  PROVE  LET u == Put(table, IndexFor(TableLength, k), Cut(Chain(k), Place(k)))
         IN  Sorted(u, TableLength) /\ KeysOf(u) = KeysOf(table) \ {k}
<1> DEFINE i == IndexFor(TableLength, k)
<1> DEFINE c == Chain(k)
<1> DEFINE d == Cut(c, Place(k))
<1>1. /\ TableLength \in Sizes /\ i \in 1..TableLength /\ c \in Chains /\ Distinct(c)
      /\ \A x \in ChainKeys(c) : IndexFor(TableLength, x) = i
      /\ table \in Seq(Chains) /\ Len(table) = TableLength
  BY ChainIs
<1>2. Place(k) \in 1..Len(c) /\ c[Place(k)].k = k
  BY HasIs
<1>3. d \in Chains /\ Distinct(d) /\ ChainKeys(d) = ChainKeys(c) \ {k}
  <2> HIDE DEF c
  <2>1. d \in Chains
    BY <1>1, <1>2, CutFacts
  <2>2. Distinct(d) /\ ChainKeys(d) = ChainKeys(c) \ {c[Place(k)].k}
    BY <1>1, <1>2, CutKeys
  <2>3. QED BY <2>1, <2>2, <1>2
<1>4. Sorted(table, TableLength) /\ \A x \in ChainKeys(d) : IndexFor(TableLength, x) = i
  BY <1>1, <1>3 DEF Ready
<1>5. table[i] = c
  BY DEF Chain
<1>6. KeysOf(table) = UNION {ChainKeys(table[j]) : j \in 1..TableLength}
  BY <1>1, KeysAre
<1>7. ChainKeys(c) \subseteq KeysOf(table) /\ k \in ChainKeys(c)
  <2>1. k \in ChainKeys(c)
    BY <1>2 DEF ChainKeys
  <2> HIDE DEF i, c
  <2>2. ChainKeys(c) \subseteq KeysOf(table)
    BY <1>1, <1>5, <1>6
  <2>3. QED BY <2>1, <2>2
<1> HIDE DEF i, c, d
<1>8. Sorted(Put(table, i, d), TableLength) /\ KeysOf(Put(table, i, d)) = (KeysOf(table) \ ChainKeys(table[i])) \cup ChainKeys(d)
  BY <1>1, <1>3, <1>4, PutSorted
<1>9. KeysOf(Put(table, i, d)) = KeysOf(table) \ {k}
  BY <1>3, <1>5, <1>7, <1>8
<1>10. QED BY <1>8, <1>9 DEF i, c, d

LEMMA WithoutSorted ==
  ASSUME Ready, NEW k \in Keys
  PROVE  Sorted(Without(table, k), TableLength) /\ KeysOf(Without(table, k)) = KeysOf(table) \ {k}
<1>1. CASE Has(k)
  BY <1>1, WithoutIs, CutSorted
<1>2. CASE ~Has(k)
  <2>1. Without(table, k) = table /\ k \notin KeysOf(table)
    BY <1>2, HasIs DEF Without
  <2>2. QED BY <2>1 DEF Ready
<1>3. QED BY <1>1, <1>2

-----------------------------------------------------------------------------
(* Counting.                                                               *)

LEMMA PlacesFinite ==
  ASSUME NEW t \in Seq(Chains)
  PROVE  IsFiniteSet(Places(t))
<1> DEFINE n == Len(t)
<1> DEFINE S == {{i} \X DOMAIN t[i] : i \in 1..n}
<1> DEFINE f == [i \in 1..n |-> {i} \X DOMAIN t[i]]
<1>1. n \in Nat /\ DOMAIN t = 1..n /\ \A i \in 1..n : DOMAIN t[i] = 1..Len(t[i]) /\ Len(t[i]) \in Nat
  BY TableFacts, ChainFacts
<1>2. IsFiniteSet(S)
  <2>1. f \in Surjection(1..n, S)
    BY DEF Surjection
  <2>2. IsFiniteSet(1..n)
    BY <1>1, FS_Interval
  <2> HIDE DEF f, S, n
  <2>3. QED BY <2>1, <2>2, FS_Surjection
<1>3. \A T \in S : IsFiniteSet(T)
  <2> SUFFICES ASSUME NEW i \in 1..n PROVE IsFiniteSet({i} \X DOMAIN t[i])
    OBVIOUS
  <2>1. IsFiniteSet({i})
    BY FS_Singleton
  <2>2. DOMAIN t[i] = 1..Len(t[i]) /\ Len(t[i]) \in Int
    BY <1>1
  <2>3. IsFiniteSet(DOMAIN t[i])
    BY <2>2, FS_Interval
  <2>4. QED BY <2>1, <2>3, FS_Product
<1>4. Places(t) = UNION S
  BY <1>1 DEF Places
<1> HIDE DEF S
<1>5. QED BY <1>2, <1>3, <1>4, FS_UNION

LEMMA PlacesDistinct ==
  ASSUME NEW size \in Sizes, NEW t, Sorted(t, size), NEW p \in Places(t), NEW q \in Places(t),
         EntryAt(t, p).k = EntryAt(t, q).k
  PROVE  p = q
<1>1. t \in Seq(Chains) /\ Len(t) = size
  BY DEF Sorted
<1>2. PICK i \in 1..size : \E j \in 1..Len(t[i]) : p = <<i, j>>
  BY <1>1, PlacesAre
<1>3. PICK j \in 1..Len(t[i]) : p = <<i, j>>
  BY <1>2
<1>4. PICK g \in 1..size : \E h \in 1..Len(t[g]) : q = <<g, h>>
  BY <1>1, PlacesAre
<1>5. PICK h \in 1..Len(t[g]) : q = <<g, h>>
  BY <1>4
<1>6. t[i][j].k = t[g][h].k
  BY <1>3, <1>5 DEF EntryAt
<1>7. t[i][j].k \in ChainKeys(t[i]) /\ t[g][h].k \in ChainKeys(t[g])
  BY <1>3, <1>5 DEF ChainKeys
<1>8. i = g
  BY <1>2, <1>4, <1>6, <1>7 DEF Sorted
<1>9. j = h
  <2>1. Distinct(t[i])
    BY <1>2 DEF Sorted
  <2>2. QED BY <2>1, <1>3, <1>5, <1>6, <1>8 DEF Distinct
<1>10. QED BY <1>3, <1>5, <1>8, <1>9

LEMMA PlacesForKeys ==
  ASSUME NEW size \in Sizes, NEW t, Sorted(t, size)
  PROVE  /\ IsFiniteSet(KeysOf(t))
         /\ Cardinality(KeysOf(t)) = Cardinality(Places(t))
<1> DEFINE P == Places(t)
<1> DEFINE K == KeysOf(t)
<1> DEFINE f == [p \in P |-> EntryAt(t, p).k]
<1>1. IsFiniteSet(P)
  BY PlacesFinite DEF Sorted
<1>2. f \in Surjection(P, K)
  BY DEF Surjection, KeysOf
<1>3. f \in Injection(P, K)
  <2>1. \A p, q \in P : EntryAt(t, p).k = EntryAt(t, q).k => p = q
    BY PlacesDistinct
  <2>2. QED BY <1>2, <2>1 DEF Surjection, Injection, IsInjective
<1> HIDE DEF P, K, f
<1>4. IsFiniteSet(K) /\ Cardinality(K) = Cardinality(P)
  BY <1>1, <1>2, <1>3, FS_Surjection
<1>5. QED BY <1>4 DEF P, K

-----------------------------------------------------------------------------
(* Expansion: every place has a rank among those of its new chain.         *)
Rank(S, p) == Cardinality({q \in S : NotBefore(q, p)})

LEMMA RankType ==
  ASSUME NEW S, IsFiniteSet(S), S \subseteq Int \X Int, NEW p \in S
  PROVE  Rank(S, p) \in 1..Cardinality(S) /\ Cardinality(S) \in Nat
<1> DEFINE T == {q \in S : NotBefore(q, p)}
<1>1. p[1] \in Int /\ p[2] \in Int
  OBVIOUS
<1>2. p \in T
  BY <1>1 DEF NotBefore
<1>3. T \in SUBSET S
  OBVIOUS
<1> HIDE DEF T
<1>4. IsFiniteSet(T) /\ Cardinality(T) <= Cardinality(S)
  BY <1>3, FS_Subset
<1>5. Cardinality(T) \in Nat /\ Cardinality(S) \in Nat
  BY <1>4, FS_CardinalityType
<1>6. Cardinality(T) # 0
  BY <1>2, <1>4, FS_EmptySet
<1>7. Cardinality(T) \in 1..Cardinality(S)
  BY <1>4, <1>5, <1>6
<1>8. QED BY <1>5, <1>7 DEF Rank, T

LEMMA RankOrder ==
  ASSUME NEW S, IsFiniteSet(S), S \subseteq Int \X Int, NEW p \in S, NEW q \in S, p # q, NotBefore(q, p)
  PROVE  Rank(S, q) # Rank(S, p)
<1> DEFINE T(x) == {y \in S : NotBefore(y, x)}
<1>1. \A x \in S : x[1] \in Int /\ x[2] \in Int /\ x = <<x[1], x[2]>>
  OBVIOUS
<1>2. p[1] # q[1] \/ p[2] # q[2]
  BY <1>1
<1>3. ~NotBefore(p, q)
  BY <1>1, <1>2 DEF NotBefore
<1>4. p \in T(p) /\ p \notin T(q)
  BY <1>1, <1>3 DEF NotBefore
<1>5. T(q) \subseteq T(p)
  BY <1>1 DEF NotBefore
<1>6. T(p) \in SUBSET S
  OBVIOUS
<1>7. Rank(S, p) = Cardinality(T(p)) /\ Rank(S, q) = Cardinality(T(q))
  BY DEF Rank
<1> HIDE DEF T
<1>8. IsFiniteSet(T(p))
  BY <1>6, FS_Subset
<1>9. Cardinality(T(p)) # Cardinality(T(q))
  BY <1>4, <1>5, <1>8, FS_Subset
<1>10. QED BY <1>7, <1>9

LEMMA RankDistinct ==
  ASSUME NEW S, IsFiniteSet(S), S \subseteq Int \X Int, NEW p \in S, NEW q \in S, Rank(S, p) = Rank(S, q)
  PROVE  p = q
<1>1. p[1] \in Int /\ p[2] \in Int /\ q[1] \in Int /\ q[2] \in Int
  OBVIOUS
<1>2. NotBefore(p, q) \/ NotBefore(q, p)
  BY <1>1 DEF NotBefore
<1>3. QED BY <1>2, RankOrder

LEMMA FromLastIs ==
  ASSUME NEW S, IsFiniteSet(S), S \subseteq Int \X Int, NEW n \in 1..Cardinality(S)
  PROVE  FromLast(S, n) \in S /\ Rank(S, FromLast(S, n)) = n
<1> DEFINE m == Cardinality(S)
<1> DEFINE f == [p \in S |-> Rank(S, p)]
<1>1. m \in Nat
  BY FS_CardinalityType
<1>2. f \in [S -> 1..m]
  BY RankType
<1>3. \A p, q \in S : f[p] = f[q] => p = q
  BY RankDistinct
<1>4. f \in Injection(S, 1..m)
  <2> HIDE DEF f, m
  <2>1. QED BY <1>2, <1>3 DEF Injection, IsInjective
<1>5. IsFiniteSet(1..m) /\ Cardinality(1..m) = m
  <2> HIDE DEF m
  <2>1. m \in Int /\ 1 \in Int /\ m - 1 + 1 = m /\ (1 > m => m = 0)
    BY <1>1
  <2>2. IsFiniteSet(1..m) /\ Cardinality(1..m) = IF 1 > m THEN 0 ELSE m - 1 + 1
    BY <2>1, FS_Interval
  <2>3. QED BY <2>1, <2>2
<1>6. f \in Surjection(S, 1..m)
  <2>1. Cardinality(S) = Cardinality(1..m)
    BY <1>5
  <2> HIDE DEF f, m
  <2>2. QED BY <2>1, <1>4, <1>5, FS_Injection
<1>7. \E p \in S : f[p] = n
  <2>1. n \in 1..m
    OBVIOUS
  <2> HIDE DEF f, m
  <2>2. QED BY <2>1, <1>6 DEF Surjection
<1>8. \E p \in S : Rank(S, p) = n
  BY <1>7
<1>9. \E p \in S : Cardinality({q \in S : NotBefore(q, p)}) = n
  BY <1>8 DEF Rank
<1>10. FromLast(S, n) \in S /\ Cardinality({q \in S : NotBefore(q, FromLast(S, n))}) = n
  BY <1>9 DEF FromLast
<1>11. QED BY <1>10 DEF Rank

LEMMA PlaceTypes ==
  ASSUME NEW t \in Seq(Chains)
  PROVE  /\ Places(t) \subseteq Int \X Int
         /\ \A p \in Places(t) : EntryAt(t, p) \in Entries
<1> SUFFICES ASSUME NEW p \in Places(t) PROVE p \in Int \X Int /\ EntryAt(t, p) \in Entries
  OBVIOUS
<1>1. PICK i \in 1..Len(t) : \E j \in 1..Len(t[i]) : p = <<i, j>>
  BY PlacesAre
<1>2. PICK j \in 1..Len(t[i]) : p = <<i, j>>
  BY <1>1
<1>3. i \in Int /\ j \in Int
  BY <1>1, <1>2, TableFacts, ChainFacts
<1>4. t[i][j] \in Entries
  BY <1>1, <1>2, TableFacts, ChainFacts
<1>5. EntryAt(t, p) = t[i][j]
  BY <1>2 DEF EntryAt
<1>6. QED BY <1>2, <1>3, <1>4, <1>5

LEMMA PlacesForFacts ==
  ASSUME NEW size, NEW t \in Seq(Chains), NEW i
  PROVE  LET S == PlacesFor(t, size, i) IN
         /\ IsFiniteSet(S) /\ S \subseteq Int \X Int /\ S \subseteq Places(t) /\ Cardinality(S) \in Nat
         /\ \A p \in S : EntryAt(t, p) \in Entries /\ IndexFor(size, EntryAt(t, p).k) = i
<1> DEFINE S == PlacesFor(t, size, i)
<1>1. S \in SUBSET Places(t) /\ \A p \in S : IndexFor(size, EntryAt(t, p).k) = i
  BY DEF PlacesFor
<1> HIDE DEF S
<1>2. IsFiniteSet(S)
  BY <1>1, PlacesFinite, FS_Subset
<1>3. Cardinality(S) \in Nat
  BY <1>2, FS_CardinalityType
<1>4. S \subseteq Int \X Int /\ \A p \in S : EntryAt(t, p) \in Entries
  BY <1>1, PlaceTypes
<1>5. QED BY <1>1, <1>2, <1>3, <1>4 DEF S

(* The chain that rehashing makes of the places of an index.               *)
Gathered(t, S) == [n \in 1..Cardinality(S) |-> EntryAt(t, FromLast(S, n))]

LEMMA GatheredFacts ==
  ASSUME NEW size0 \in Sizes, NEW t, Sorted(t, size0), NEW size, NEW i
  PROVE  LET S == PlacesFor(t, size, i) IN
         /\ Gathered(t, S) \in Chains /\ Distinct(Gathered(t, S))
         /\ ChainKeys(Gathered(t, S)) = {EntryAt(t, p).k : p \in S}
<1> DEFINE S == PlacesFor(t, size, i)
<1> DEFINE c == Gathered(t, S)
<1> DEFINE m == Cardinality(S)
<1>1. t \in Seq(Chains)
  BY DEF Sorted
<1>2. IsFiniteSet(S) /\ S \subseteq Int \X Int /\ S \subseteq Places(t) /\ m \in Nat /\ \A p \in S : EntryAt(t, p) \in Entries
  BY <1>1, PlacesForFacts
<1> HIDE DEF S
<1>3. \A n \in 1..m : FromLast(S, n) \in S /\ Rank(S, FromLast(S, n)) = n
  BY <1>2, FromLastIs
<1>4. c \in [1..m -> Entries] /\ \A n \in 1..m : c[n] = EntryAt(t, FromLast(S, n))
  BY <1>2, <1>3 DEF Gathered
<1> HIDE DEF c, m
<1>5. c \in Chains /\ Len(c) = m
  BY <1>2, <1>4, SeqDef, LenProperties DEF Chains
<1>6. Distinct(c)
  <2> SUFFICES ASSUME NEW n \in 1..m, NEW l \in 1..m, c[n].k = c[l].k PROVE n = l
    BY <1>5 DEF Distinct
  <2>1. EntryAt(t, FromLast(S, n)).k = EntryAt(t, FromLast(S, l)).k
    BY <1>4
  <2>2. FromLast(S, n) \in Places(t) /\ FromLast(S, l) \in Places(t)
    BY <1>2, <1>3
  <2>3. FromLast(S, n) = FromLast(S, l)
    BY <2>1, <2>2, PlacesDistinct
  <2>4. QED BY <2>3, <1>3
<1>7. ChainKeys(c) = {c[n].k : n \in 1..m}
  BY <1>5 DEF ChainKeys
<1>8. ASSUME NEW p \in S PROVE \E n \in 1..m : c[n] = EntryAt(t, p)
  <2> DEFINE n == Rank(S, p)
  <2>1. n \in 1..m
    BY <1>2, RankType DEF m
  <2>2. FromLast(S, n) \in S /\ Rank(S, FromLast(S, n)) = n
    BY <2>1, <1>3
  <2>3. FromLast(S, n) = p
    BY <1>2, <2>2, RankDistinct
  <2> HIDE DEF n
  <2>4. c[n] = EntryAt(t, p)
    BY <2>1, <2>3, <1>4
  <2>5. QED BY <2>1, <2>4
<1>9. \A n \in 1..m : c[n].k \in {EntryAt(t, p).k : p \in S}
  BY <1>3, <1>4
<1>10. ChainKeys(c) = {EntryAt(t, p).k : p \in S}
  BY <1>7, <1>8, <1>9
<1>11. QED BY <1>5, <1>6, <1>10 DEF S, c

LEMMA RehashSorted ==
  ASSUME NEW size0 \in Sizes, NEW t, Sorted(t, size0), NEW size \in Sizes
  PROVE  Sorted(Rehashed(t, size), size) /\ KeysOf(Rehashed(t, size)) = KeysOf(t)
<1> DEFINE u == Rehashed(t, size)
<1> DEFINE S(i) == PlacesFor(t, size, i)
<1>1. t \in Seq(Chains)
  BY DEF Sorted
<1>2. u = [i \in 1..size |-> Gathered(t, S(i))]
  BY DEF Rehashed, Gathered
<1>3. \A i \in 1..size : /\ Gathered(t, S(i)) \in Chains /\ Distinct(Gathered(t, S(i)))
                         /\ ChainKeys(Gathered(t, S(i))) = {EntryAt(t, p).k : p \in S(i)}
  BY GatheredFacts
<1>4. \A i \in 1..size : \A p \in S(i) : p \in Places(t) /\ EntryAt(t, p) \in Entries /\ IndexFor(size, EntryAt(t, p).k) = i
  BY <1>1, PlacesForFacts
<1>5. \A p \in Places(t) : IndexFor(size, EntryAt(t, p).k) \in 1..size /\ p \in S(IndexFor(size, EntryAt(t, p).k))
  <2> TAKE p \in Places(t)
  <2>1. EntryAt(t, p).k \in Keys
    BY <1>1, PlaceTypes DEF Entries
  <2>2. QED BY <2>1, IndexIn DEF PlacesFor
<1> HIDE DEF u, S
<1>6. size \in Nat /\ u \in [1..size -> Chains] /\ \A i \in 1..size : u[i] = Gathered(t, S(i))
  BY <1>2, <1>3 DEF Sizes
<1>7. u \in Seq(Chains) /\ Len(u) = size
  BY <1>6, SeqDef, LenProperties
<1>8. \A i \in 1..size : Distinct(u[i]) /\ ChainKeys(u[i]) = {EntryAt(t, p).k : p \in S(i)}
  BY <1>3, <1>6
<1>9. \A i \in 1..size : \A x \in ChainKeys(u[i]) : IndexFor(size, x) = i
  BY <1>4, <1>8
<1>10. KeysOf(u) = UNION {ChainKeys(u[i]) : i \in 1..size}
  BY <1>7, KeysAre
<1>11. KeysOf(t) = {EntryAt(t, p).k : p \in Places(t)}
  BY DEF KeysOf
<1>12. KeysOf(u) \subseteq KeysOf(t)
  BY <1>4, <1>8, <1>10, <1>11
<1>13. KeysOf(t) \subseteq KeysOf(u)
  <2> SUFFICES ASSUME NEW p \in Places(t) PROVE EntryAt(t, p).k \in KeysOf(u)
    BY <1>11
  <2>1. PICK i \in 1..size : p \in S(i)
    BY <1>5
  <2>2. EntryAt(t, p).k \in ChainKeys(u[i])
    BY <1>8, <2>1
  <2>3. QED BY <1>10, <2>2
<1>14. QED BY <1>7, <1>8, <1>9, <1>12, <1>13 DEF Sorted, u

-----------------------------------------------------------------------------
(* The part of the invariant about the table alone.                        *)
Room(count, i) == i < Len(Primes) => count <= LoadLimit(Primes[i])
TInv == Ready /\ entrycount = Cardinality(KeysOf(table)) /\ Room(entrycount, primeindex)

LEMMA LoadLimitType ==
  ASSUME NEW size \in Sizes
  PROVE  LoadLimit(size) \in Int
<1>1. 65 * size + 99 \in Int
  BY DEF Sizes
<1>2. QED BY <1>1 DEF LoadLimit

LEMMA ExpandedIs ==
  ASSUME Ready, NEW t, Sorted(t, TableLength)
  PROVE  LET r == Expanded(t)
             i == IF primeindex = Len(Primes) THEN primeindex ELSE primeindex + 1
         IN  /\ i \in DOMAIN Primes /\ Sorted(r, Primes[i]) /\ KeysOf(r) = KeysOf(t)
             /\ Len(r) = Len(t) <=> i = primeindex
             /\ i = primeindex => r = t
<1>1. TableLength \in Sizes /\ TableLength = Primes[primeindex] /\ primeindex \in DOMAIN Primes
  BY LengthIs DEF Ready, TableLength
<1>2. primeindex \in Nat /\ 1 <= primeindex /\ primeindex <= Len(Primes) /\ Len(Primes) \in Nat
  BY <1>1, LengthIs
<1>3. Len(t) = TableLength
  BY DEF Sorted
<1>4. CASE primeindex = Len(Primes)
  BY <1>1, <1>2, <1>3, <1>4 DEF Expanded
<1>5. CASE primeindex # Len(Primes)
  <2> DEFINE i == primeindex + 1
  <2>1. i \in 1..Len(Primes) /\ DOMAIN Primes = 1..Len(Primes) /\ i > 1 /\ i - 1 = primeindex
    BY <1>2, <1>5, LenProperties, TableAssumption
  <2>2. Primes[i - 1] < Primes[i] /\ Primes[i] \in Sizes
    BY <2>1, TableAssumption, LengthIs
  <2>3. Expanded(t) = Rehashed(t, Primes[i])
    BY <1>5 DEF Expanded
  <2> HIDE DEF i
  <2>4. Sorted(Rehashed(t, Primes[i]), Primes[i]) /\ KeysOf(Rehashed(t, Primes[i])) = KeysOf(t)
    BY <1>1, <2>2, RehashSorted
  <2>5. Len(Rehashed(t, Primes[i])) = Primes[i]
    BY <2>4 DEF Sorted
  <2>6. Primes[primeindex] # Primes[i]
    BY <2>1, <2>2, <1>1 DEF Sizes
  <2>7. i # primeindex
    BY <2>1, <1>2
  <2>8. QED BY <1>1, <1>3, <1>5, <2>1, <2>3, <2>4, <2>5, <2>6, <2>7 DEF i
<1>6. QED BY <1>4, <1>5

LEMMA InsertStep ==
  ASSUME Ready, NEW t, Sorted(t, TableLength), NEW count, count = Cardinality(KeysOf(t)),
         Room(count, primeindex), NEW k \in Keys, NEW v \in Values, k \notin KeysOf(t),
         InsertInto(t, count, k, v)
  PROVE  /\ TInv' /\ KeysOf(table') = KeysOf(t) \cup {k}
         /\ primeindex' = primeindex =>
              table' = Put(t, IndexFor(TableLength, k), Consed([k |-> k, v |-> v], t[IndexFor(TableLength, k)]))
<1> DEFINE full == count + 1 > LoadLimit(TableLength)
<1> DEFINE room == IF full THEN Expanded(t) ELSE t
<1> DEFINE pi == IF full /\ primeindex # Len(Primes) THEN primeindex + 1 ELSE primeindex
<1> DEFINE i == IndexFor(Primes[pi], k)
<1> DEFINE x == [k |-> k, v |-> v]
<1>1. TableLength \in Sizes /\ TableLength = Primes[primeindex] /\ primeindex \in DOMAIN Primes
  BY LengthIs DEF Ready, TableLength
<1>2. primeindex \in Nat /\ 1 <= primeindex /\ primeindex <= Len(Primes) /\ Len(Primes) \in Nat
  BY <1>1, LengthIs
<1>3. /\ pi \in DOMAIN Primes /\ Sorted(room, Primes[pi]) /\ KeysOf(room) = KeysOf(t)
      /\ Len(room) = Len(t) <=> pi = primeindex
      /\ pi = primeindex => room = t
  <2>1. CASE full /\ primeindex # Len(Primes)
    <3> HIDE DEF full
    <3>1. pi = primeindex + 1 /\ room = Expanded(t)
      BY <2>1
    <3> HIDE DEF pi, room
    <3>2. QED BY <2>1, <3>1, ExpandedIs
  <2>2. CASE full /\ primeindex = Len(Primes)
    <3> HIDE DEF full
    <3>1. pi = primeindex /\ room = Expanded(t)
      BY <2>2
    <3> HIDE DEF pi, room
    <3>2. QED BY <2>2, <3>1, ExpandedIs
  <2>3. CASE ~full
    <3> HIDE DEF full
    <3>1. pi = primeindex /\ room = t
      BY <2>3
    <3> HIDE DEF pi, room
    <3>2. QED BY <3>1, <1>1
  <2>4. QED BY <2>1, <2>2, <2>3
<1>4. Primes[pi] \in Sizes /\ Len(room) = Primes[pi]
  <2> HIDE DEF pi, room
  <2>1. QED BY <1>3, LengthIs DEF Sorted
<1>5. /\ table' = Put(room, IndexFor(Len(room), k), Consed(x, room[IndexFor(Len(room), k)]))
      /\ primeindex' = IF Len(room) = Len(t) THEN primeindex ELSE primeindex + 1
      /\ entrycount' = count + 1
  BY DEF InsertInto, Put, Consed
<1>6. pi # primeindex => pi = primeindex + 1
  <2> HIDE DEF full
  <2>1. QED OBVIOUS
<1>7. x \in Entries /\ x.k = k
  BY DEF Entries
<1>8. full \/ count + 1 <= LoadLimit(TableLength)
  <2>1. LoadLimit(TableLength) \in Int /\ count \in Int
    <3>1. IsFiniteSet(KeysOf(t))
      BY <1>1, PlacesForKeys
    <3>2. QED BY <1>1, <3>1, LoadLimitType, FS_CardinalityType
  <2>2. QED BY <2>1
<1>9. Room(count + 1, pi)
  <2> SUFFICES ASSUME pi < Len(Primes) PROVE count + 1 <= LoadLimit(Primes[pi])
    BY DEF Room
  <2>1. CASE full
    <3> HIDE DEF full
    <3>1. primeindex # Len(Primes)
      BY <2>1, <1>2
    <3>2. pi = primeindex + 1
      BY <2>1, <3>1
    <3>3. pi \in DOMAIN Primes /\ 1 < pi /\ pi < Len(Primes) /\ pi - 1 = primeindex
      <4>1. pi \in DOMAIN Primes
        BY <1>3
      <4> HIDE DEF pi
      <4>2. QED BY <4>1, <3>2, <1>2
    <3> HIDE DEF pi, room
    <3>4. LoadLimit(Primes[primeindex]) < LoadLimit(Primes[pi])
      BY <3>3, RoomAssumption
    <3>5. count <= LoadLimit(Primes[primeindex])
      BY <3>3, <1>2 DEF Room
    <3>6. LoadLimit(Primes[primeindex]) \in Int /\ LoadLimit(Primes[pi]) \in Int
      BY <1>1, <1>4, LoadLimitType
    <3>7. count \in Int
      <4>1. IsFiniteSet(KeysOf(t))
        BY <1>1, PlacesForKeys
      <4>2. QED BY <4>1, FS_CardinalityType
    <3>8. QED BY <3>4, <3>5, <3>6, <3>7
  <2>2. CASE ~full
    <3>1. pi = primeindex
      <4> HIDE DEF full
      <4>1. QED BY <2>2
    <3>2. count + 1 <= LoadLimit(TableLength)
      BY <1>8, <2>2
    <3> HIDE DEF full, pi, room
    <3>3. QED BY <3>1, <3>2, <1>1
  <2>3. QED BY <2>1, <2>2
<1> HIDE DEF full, pi, room, x
<1>10. primeindex' = pi
  BY <1>3, <1>5, <1>6
<1>11. x.k \notin KeysOf(room)
  BY <1>3, <1>7
<1>12. /\ IndexFor(Primes[pi], k) \in 1..Primes[pi]
       /\ Sorted(Put(room, IndexFor(Primes[pi], k), Consed(x, room[IndexFor(Primes[pi], k)])), Primes[pi])
       /\ KeysOf(Put(room, IndexFor(Primes[pi], k), Consed(x, room[IndexFor(Primes[pi], k)]))) = KeysOf(room) \cup {k}
  BY <1>3, <1>4, <1>7, <1>11, InsertSorted
<1>13. TableLength' = Primes[pi]
  BY <1>10 DEF TableLength
<1>14. Ready' /\ KeysOf(table') = KeysOf(t) \cup {k}
  BY <1>3, <1>4, <1>5, <1>10, <1>12, <1>13 DEF Ready
<1>15. entrycount' = Cardinality(KeysOf(table'))
  <2>1. IsFiniteSet(KeysOf(t))
    BY <1>1, PlacesForKeys
  <2>2. Cardinality(KeysOf(t) \cup {k}) = Cardinality(KeysOf(t)) + 1
    BY <2>1, FS_AddElement
  <2>3. QED BY <2>2, <1>5, <1>14
<1>16. Room(entrycount, primeindex)'
  BY <1>5, <1>9, <1>10 DEF Room
<1>17. KeysOf(table)' = KeysOf(table')
  BY DEF KeysOf, Places, EntryAt
<1>18. primeindex' = primeindex =>
         table' = Put(t, IndexFor(TableLength, k), Consed(x, t[IndexFor(TableLength, k)]))
  BY <1>1, <1>3, <1>4, <1>5, <1>10
<1>19. QED BY <1>14, <1>15, <1>16, <1>17, <1>18 DEF TInv, x

-----------------------------------------------------------------------------
(* The iterator, and which entries it has passed.                          *)
Pointers == Keys \cup {NULL, Freed}
Iterators == [on : BOOLEAN, index : Sizes, e : Pointers, parent : Pointers]
Attached(t, it) == it.e \in KeysOf(t) \cup {NULL, Freed} /\ it.parent \in KeysOf(t) \cup {NULL, Freed}

UpTo(c, a, b) == \E j, l \in 1..Len(c) : c[j].k = a /\ c[l].k = b /\ j <= l
Passed(t, size, it, k) ==
  \/ IndexFor(size, k) < it.index
  \/ IndexFor(size, k) = it.index /\ UpTo(t[it.index], k, it.e)
Count(sn, k) == Cardinality({i \in DOMAIN sn : sn[i] = k})

Walked(t, size, it, sn, pr) ==
  it.on /\ pr # Unsure =>
    /\ pr \subseteq KeysOf(t)
    /\ it.e \in Keys => it.index = IndexFor(size, it.e)
    /\ it.e = NULL => it.index = size + 1
    /\ it.e # Freed => \A k \in pr : Count(sn, k) = IF Passed(t, size, it, k) THEN 1 ELSE 0

LEMMA KeysApart == NULL \notin Keys /\ Freed \notin Keys /\ "unsure" \notin Keys /\ NULL # Freed
BY TableAssumption DEF NULL, Freed

LEMMA CutUpTo ==
  ASSUME NEW c \in Chains, NEW p \in 1..Len(c), Distinct(c), NEW a, NEW b, a # c[p].k, b # c[p].k
  PROVE  UpTo(Cut(c, p), a, b) <=> UpTo(c, a, b)
<1> DEFINE n == Len(c)
<1> DEFINE d == Cut(c, p)
<1>1. n \in Nat /\ p \in Int /\ 1 <= p /\ p <= n
  BY ChainFacts
<1>2. Len(d) = n - 1 /\ \A j \in 1..n - 1 : d[j] = IF j < p THEN c[j] ELSE c[j + 1]
  BY CutFacts
<1>u. /\ UpTo(d, a, b) <=> \E j, l \in 1..Len(d) : d[j].k = a /\ d[l].k = b /\ j <= l
      /\ UpTo(c, a, b) <=> \E j, l \in 1..n : c[j].k = a /\ c[l].k = b /\ j <= l
  BY DEF UpTo
<1> HIDE DEF n, d
<1>3. ASSUME UpTo(d, a, b) PROVE UpTo(c, a, b)
  <2>1. PICK j \in 1..Len(d), l \in 1..Len(d) : d[j].k = a /\ d[l].k = b /\ j <= l
    BY <1>3, <1>u
  <2> DEFINE J == IF j < p THEN j ELSE j + 1
  <2> DEFINE L == IF l < p THEN l ELSE l + 1
  <2>2. j \in 1..n - 1 /\ l \in 1..n - 1 /\ J \in 1..n /\ L \in 1..n /\ J <= L
    BY <1>1, <1>2, <2>1
  <2>3. d[j] = c[J] /\ d[l] = c[L]
    BY <1>2, <2>2
  <2> HIDE DEF J, L
  <2>4. QED BY <2>1, <2>2, <2>3, <1>u
<1>4. ASSUME UpTo(c, a, b) PROVE UpTo(d, a, b)
  <2>1. PICK j \in 1..n, l \in 1..n : c[j].k = a /\ c[l].k = b /\ j <= l
    BY <1>4, <1>u
  <2>2. j # p /\ l # p
    BY <2>1
  <2> DEFINE J == IF j < p THEN j ELSE j - 1
  <2> DEFINE L == IF l < p THEN l ELSE l - 1
  <2>3. /\ J \in 1..n - 1 /\ L \in 1..n - 1 /\ J <= L
        /\ (IF J < p THEN J ELSE J + 1) = j /\ (IF L < p THEN L ELSE L + 1) = l
    BY <1>1, <2>1, <2>2
  <2>4. d[J] = c[j]
    <3>1. d[J] = IF J < p THEN c[J] ELSE c[J + 1]
      BY <1>2, <2>3
    <3>2. QED BY <3>1, <2>3
  <2>5. d[L] = c[l]
    <3>1. d[L] = IF L < p THEN c[L] ELSE c[L + 1]
      BY <1>2, <2>3
    <3>2. QED BY <3>1, <2>3
  <2>6. J \in 1..Len(d) /\ L \in 1..Len(d) /\ J <= L
    BY <2>3, <1>2
  <2> HIDE DEF J, L
  <2>7. QED BY <2>1, <2>4, <2>5, <2>6, <1>u
<1>5. QED BY <1>3, <1>4 DEF d

LEMMA ConsUpTo ==
  ASSUME NEW c \in Chains, NEW x \in Entries, NEW a, NEW b, a # x.k, b # x.k
  PROVE  UpTo(Consed(x, c), a, b) <=> UpTo(c, a, b)
<1> DEFINE n == Len(c)
<1> DEFINE d == Consed(x, c)
<1>1. n \in Nat
  BY ChainFacts
<1>2. Len(d) = n + 1 /\ d[1] = x /\ \A j \in 1..n : d[j + 1] = c[j]
  BY ConsFacts
<1>u. /\ UpTo(d, a, b) <=> \E j, l \in 1..Len(d) : d[j].k = a /\ d[l].k = b /\ j <= l
      /\ UpTo(c, a, b) <=> \E j, l \in 1..n : c[j].k = a /\ c[l].k = b /\ j <= l
  BY DEF UpTo
<1> HIDE DEF n, d
<1>3. ASSUME UpTo(d, a, b) PROVE UpTo(c, a, b)
  <2>1. PICK j \in 1..Len(d), l \in 1..Len(d) : d[j].k = a /\ d[l].k = b /\ j <= l
    BY <1>3, <1>u
  <2>2. j # 1 /\ l # 1
    BY <2>1, <1>2
  <2>3. j - 1 \in 1..n /\ l - 1 \in 1..n /\ (j - 1) + 1 = j /\ (l - 1) + 1 = l /\ j - 1 <= l - 1
    BY <1>1, <1>2, <2>1, <2>2
  <2>4. c[j - 1] = d[j] /\ c[l - 1] = d[l]
    BY <1>2, <2>3
  <2>5. QED BY <2>1, <2>3, <2>4, <1>u
<1>4. ASSUME UpTo(c, a, b) PROVE UpTo(d, a, b)
  <2>1. PICK j \in 1..n, l \in 1..n : c[j].k = a /\ c[l].k = b /\ j <= l
    BY <1>4, <1>u
  <2>2. j + 1 \in 1..Len(d) /\ l + 1 \in 1..Len(d) /\ j + 1 <= l + 1
    BY <1>1, <1>2, <2>1
  <2>3. d[j + 1] = c[j] /\ d[l + 1] = c[l]
    BY <1>2
  <2>4. QED BY <2>1, <2>2, <2>3, <1>u
<1>5. QED BY <1>3, <1>4 DEF d

(* A chain that keeps the order of k and the iterator's entry.             *)
LEMMA PassedPut ==
  ASSUME NEW size \in Sizes, NEW t, Sorted(t, size), NEW i \in 1..size, NEW d \in Chains,
         NEW it \in Iterators, NEW k \in Keys, UpTo(d, k, it.e) <=> UpTo(t[i], k, it.e)
  PROVE  Passed(Put(t, i, d), size, it, k) <=> Passed(t, size, it, k)
<1>1. t \in Seq(Chains) /\ Len(t) = size
  BY DEF Sorted
<1>2. ASSUME IndexFor(size, k) = it.index
      PROVE  UpTo(Put(t, i, d)[it.index], k, it.e) <=> UpTo(t[it.index], k, it.e)
  <2>1. it.index \in 1..size
    BY <1>2, IndexIn
  <2>2. Put(t, i, d)[it.index] = IF it.index = i THEN d ELSE t[it.index]
    BY <1>1, <2>1, PutAt
  <2>3. QED BY <2>2
<1>3. QED BY <1>2 DEF Passed

Loose(it, k) ==
  [it EXCEPT !.e = IF @ = k THEN Freed ELSE @, !.parent = IF @ = k THEN Freed ELSE @]

LEMMA LooseFacts ==
  ASSUME NEW it \in Iterators, NEW k \in Keys
  PROVE  /\ Loose(it, k) \in Iterators
         /\ Loose(it, k).on = it.on /\ Loose(it, k).index = it.index
         /\ Loose(it, k).e = IF it.e = k THEN Freed ELSE it.e
         /\ Loose(it, k).parent = IF it.parent = k THEN Freed ELSE it.parent
BY DEF Loose, Iterators, Pointers

LEMMA CutWalked ==
  ASSUME Ready, NEW k \in Keys, Has(k), NEW it \in Iterators, NEW sn, NEW pr \in (SUBSET Keys) \cup {Unsure},
         Walked(table, TableLength, it, sn, pr), Attached(table, it)
  PROVE  LET u == Put(table, IndexFor(TableLength, k), Cut(Chain(k), Place(k)))
         IN  Walked(u, TableLength, Loose(it, k), sn, pr \ {k}) /\ Attached(u, Loose(it, k))
<1> DEFINE i == IndexFor(TableLength, k)
<1> DEFINE c == Chain(k)
<1> DEFINE d == Cut(c, Place(k))
<1> DEFINE u == Put(table, i, d)
<1> DEFINE jt == Loose(it, k)
<1>1. /\ TableLength \in Sizes /\ i \in 1..TableLength /\ c \in Chains /\ Distinct(c)
      /\ table \in Seq(Chains) /\ Len(table) = TableLength
  BY ChainIs
<1>2. Place(k) \in 1..Len(c) /\ c[Place(k)].k = k
  BY HasIs
<1>3. Sorted(u, TableLength) /\ KeysOf(u) = KeysOf(table) \ {k}
  BY CutSorted
<1>4. jt \in Iterators /\ jt.on = it.on /\ jt.index = it.index /\ jt.e = IF it.e = k THEN Freed ELSE it.e
  BY LooseFacts
<1>5. jt.parent = IF it.parent = k THEN Freed ELSE it.parent
  BY LooseFacts
<1>6. d \in Chains /\ table[i] = c
  <2>1. d \in Chains
    BY <1>1, <1>2, CutFacts
  <2>2. QED BY <2>1 DEF Chain
<1>7. Attached(u, jt)
  <2> HIDE DEF u, jt
  <2>1. QED BY <1>3, <1>4, <1>5 DEF Attached
<1>8. pr = Unsure \/ (pr # Unsure /\ pr \ {k} # Unsure /\ pr \subseteq Keys)
  BY KeysApart DEF Unsure
<1>9. pr = Unsure => pr \ {k} = Unsure
  BY KeysApart DEF Unsure
<1>10. ASSUME it.on, pr # Unsure, it.e # k, NEW a \in pr, a # k
       PROVE  Passed(u, TableLength, it, a) <=> Passed(table, TableLength, it, a)
  <2>1. Sorted(table, TableLength) /\ a \in Keys
    BY <1>8, <1>10 DEF Ready
  <2>2. UpTo(d, a, it.e) <=> UpTo(c, a, it.e)
    <3> HIDE DEF c
    <3>1. QED BY <1>1, <1>2, <1>10, CutUpTo
  <2> HIDE DEF i, c, d
  <2>3. QED BY <1>1, <1>6, <2>1, <2>2, PassedPut
<1>11. ASSUME it.e # k PROVE jt = it \/ (jt.e = it.e /\ jt.index = it.index)
  BY <1>4, <1>11
<1>12. \A a : it.e # k => (Passed(u, TableLength, jt, a) <=> Passed(u, TableLength, it, a))
  <2> HIDE DEF u, jt
  <2>1. QED BY <1>4 DEF Passed
<1> HIDE DEF i, c, d, u, jt
<1>13. ASSUME jt.on, pr \ {k} # Unsure
       PROVE  /\ pr \ {k} \subseteq KeysOf(u)
              /\ jt.e \in Keys => jt.index = IndexFor(TableLength, jt.e)
              /\ jt.e = NULL => jt.index = TableLength + 1
              /\ jt.e # Freed => \A a \in pr \ {k} : Count(sn, a) = IF Passed(u, TableLength, jt, a) THEN 1 ELSE 0
  <2>1. it.on /\ pr # Unsure
    BY <1>4, <1>9, <1>13
  <2>2. /\ pr \subseteq KeysOf(table)
        /\ it.e \in Keys => it.index = IndexFor(TableLength, it.e)
        /\ it.e = NULL => it.index = TableLength + 1
        /\ it.e # Freed => \A a \in pr : Count(sn, a) = IF Passed(table, TableLength, it, a) THEN 1 ELSE 0
    BY <2>1 DEF Walked
  <2>3. pr \ {k} \subseteq KeysOf(u)
    BY <1>3, <2>2
  <2>4. /\ jt.e \in Keys => jt.index = IndexFor(TableLength, jt.e)
        /\ jt.e = NULL => jt.index = TableLength + 1
    BY <1>4, <2>2, KeysApart
  <2>5. ASSUME jt.e # Freed, NEW a \in pr \ {k}
        PROVE  Count(sn, a) = IF Passed(u, TableLength, jt, a) THEN 1 ELSE 0
    <3>1. it.e # k /\ it.e # Freed
      BY <1>4, <2>5
    <3>2. Count(sn, a) = IF Passed(table, TableLength, it, a) THEN 1 ELSE 0
      BY <3>1, <2>2
    <3>3. Passed(u, TableLength, jt, a) <=> Passed(table, TableLength, it, a)
      BY <3>1, <2>1, <1>10, <1>12
    <3>4. QED BY <3>2, <3>3
  <2>6. QED BY <2>3, <2>4, <2>5
<1>14. Walked(u, TableLength, jt, sn, pr \ {k})
  BY <1>13 DEF Walked
<1>15. QED BY <1>7, <1>14 DEF u, i, c, d, jt

LEMMA InsertWalked ==
  ASSUME NEW size \in Sizes, NEW t, Sorted(t, size), NEW x \in Entries, x.k \notin KeysOf(t),
         NEW it \in Iterators, NEW sn, NEW pr \in (SUBSET Keys) \cup {Unsure},
         Walked(t, size, it, sn, pr), Attached(t, it)
  PROVE  LET u == Put(t, IndexFor(size, x.k), Consed(x, t[IndexFor(size, x.k)]))
         IN  Walked(u, size, it, sn, pr)
<1> DEFINE i == IndexFor(size, x.k)
<1> DEFINE c == t[i]
<1> DEFINE d == Consed(x, c)
<1> DEFINE u == Put(t, i, d)
<1>1. x.k \in Keys
  BY DEF Entries
<1>2. i \in 1..size /\ Sorted(u, size) /\ KeysOf(u) = KeysOf(t) \cup {x.k}
  BY InsertSorted
<1>3. t \in Seq(Chains) /\ Len(t) = size
  BY DEF Sorted
<1>4. c \in Chains
  <2> HIDE DEF i
  <2>1. QED BY <1>2, <1>3, TableFacts
<1>5. d \in Chains
  <2> HIDE DEF c
  <2>1. QED BY <1>4, ConsFacts
<1>6. it.e # x.k
  BY <1>1, KeysApart DEF Attached
<1>7. ASSUME it.on, pr # Unsure, NEW a \in pr
      PROVE  Passed(u, size, it, a) <=> Passed(t, size, it, a)
  <2>1. a \in KeysOf(t)
    BY <1>7 DEF Walked
  <2>2. a \in Keys /\ a # x.k
    BY <2>1, <1>3, KeysAre
  <2>3. UpTo(d, a, it.e) <=> UpTo(c, a, it.e)
    <3> HIDE DEF c
    <3>1. QED BY <1>4, <1>6, <2>2, ConsUpTo
  <2>4. UpTo(d, a, it.e) <=> UpTo(t[i], a, it.e)
    BY <2>3
  <2> HIDE DEF i, c, d
  <2>5. QED BY <1>2, <1>5, <2>2, <2>4, PassedPut
<1> HIDE DEF i, c, d, u
<1>8. ASSUME it.on, pr # Unsure
      PROVE  /\ pr \subseteq KeysOf(u)
             /\ it.e \in Keys => it.index = IndexFor(size, it.e)
             /\ it.e = NULL => it.index = size + 1
             /\ it.e # Freed => \A a \in pr : Count(sn, a) = IF Passed(u, size, it, a) THEN 1 ELSE 0
  <2>1. /\ pr \subseteq KeysOf(t)
        /\ it.e \in Keys => it.index = IndexFor(size, it.e)
        /\ it.e = NULL => it.index = size + 1
        /\ it.e # Freed => \A a \in pr : Count(sn, a) = IF Passed(t, size, it, a) THEN 1 ELSE 0
    BY <1>8 DEF Walked
  <2>2. \A a \in pr : Passed(u, size, it, a) <=> Passed(t, size, it, a)
    BY <1>7, <1>8
  <2>3. pr \subseteq KeysOf(u)
    BY <1>2, <2>1
  <2>4. QED BY <2>1, <2>2, <2>3
<1>9. Walked(u, size, it, sn, pr)
  BY <1>8 DEF Walked
<1>10. QED BY <1>9 DEF u, i, c, d

-----------------------------------------------------------------------------
(* Walking.                                                                *)

LEMMA FirstFromIs ==
  ASSUME Ready, NEW i \in Sizes
  PROVE  LET f == FirstFrom(i) IN
         \/ /\ f.index \in i..TableLength /\ 1 <= Len(table[f.index]) /\ f.e = table[f.index][1].k
            /\ \A g \in i..f.index - 1 : table[g] = <<>>
         \/ /\ f.index = TableLength + 1 /\ f.e = NULL
            /\ \A g \in i..TableLength : table[g] = <<>>
<1> DEFINE J == {j \in i..Len(table) : table[j] # <<>>}
<1>1. table \in Seq(Chains) /\ Len(table) = TableLength
  BY DEF Ready, Sorted
<1>2. TableLength \in Sizes
  BY LengthIs DEF Ready, TableLength
<1>3. i \in Nat /\ 1 <= i /\ TableLength \in Nat
  BY <1>2 DEF Sizes
<1>4. CASE \E j \in i..Len(table) : table[j] # <<>>
  <2>1. J \subseteq Nat /\ J # {}
    BY <1>1, <1>3, <1>4
  <2> DEFINE m == Min(J)
  <2>2. m \in J /\ \A j \in J : m <= j
    <3> HIDE DEF J
    <3>1. QED BY <2>1, MinLeast
  <2>3. FirstFrom(i) = [index |-> m, e |-> table[m][1].k]
    BY <1>4 DEF FirstFrom
  <2> HIDE DEF m
  <2>4. m \in i..TableLength /\ table[m] # <<>>
    BY <1>1, <2>2
  <2>5. m \in 1..Len(table)
    BY <1>1, <1>3, <2>4
  <2>6. Len(table[m]) \in Nat /\ 1 <= Len(table[m])
    <3>1. table[m] \in Chains
      BY <1>1, <2>5, TableFacts
    <3>2. Len(table[m]) \in Nat /\ Len(table[m]) # 0
      BY <3>1, <2>4, EmptySeq, LenProperties DEF Chains
    <3>3. QED BY <3>2
  <2>7. \A g \in i..m - 1 : table[g] = <<>>
    <3> SUFFICES ASSUME NEW g \in i..m - 1, table[g] # <<>> PROVE FALSE
      OBVIOUS
    <3>1. m \in Int /\ g \in i..Len(table) /\ ~(m <= g)
      BY <1>1, <1>3, <2>4
    <3>2. g \in J
      BY <3>1
    <3> HIDE DEF J
    <3>3. QED BY <3>1, <3>2, <2>2
  <2>8. QED BY <2>3, <2>4, <2>6, <2>7
<1>5. CASE ~\E j \in i..Len(table) : table[j] # <<>>
  <2>1. FirstFrom(i) = [index |-> Len(table) + 1, e |-> NULL]
    BY <1>5 DEF FirstFrom
  <2>2. QED BY <2>1, <1>1, <1>5
<1>6. QED BY <1>4, <1>5

(* The iterator at the first entry from the bucket i on has passed the     *)
(* buckets before i and that entry.                                        *)
LEMMA Landing ==
  ASSUME Ready, NEW i \in Sizes, NEW it \in Iterators,
         it.index = FirstFrom(i).index, it.e = FirstFrom(i).e
  PROVE  /\ it.e \in KeysOf(table) => it.index = IndexFor(TableLength, it.e) /\ it.index >= i
         /\ it.e = NULL \/ it.e \in KeysOf(table)
         /\ it.e = NULL => it.index = TableLength + 1
         /\ \A k \in KeysOf(table) : Passed(table, TableLength, it, k) <=> IndexFor(TableLength, k) < i \/ k = it.e
<1> DEFINE f == FirstFrom(i)
<1>1. table \in Seq(Chains) /\ Len(table) = TableLength /\ Sorted(table, TableLength)
  BY DEF Ready, Sorted
<1>2. TableLength \in Sizes
  BY LengthIs DEF Ready, TableLength
<1>3. i \in Nat /\ 1 <= i /\ TableLength \in Nat
  BY <1>2 DEF Sizes
<1>4. KeysOf(table) \subseteq Keys
  BY <1>1, KeysAre
<1>5. \A k \in KeysOf(table) : IndexFor(TableLength, k) \in 1..TableLength /\ table[IndexFor(TableLength, k)] # <<>>
  <2> TAKE k \in KeysOf(table)
  <2>1. k \in Keys
    BY <1>4
  <2>2. k \in ChainKeys(table[IndexFor(TableLength, k)])
    BY <1>1, <1>2, <2>1, KeyChain
  <2>3. IndexFor(TableLength, k) \in 1..TableLength
    BY <1>2, <2>1, IndexIn
  <2>4. QED BY <2>2, <2>3, EmptyChain
<1>6. CASE /\ f.index \in i..TableLength /\ 1 <= Len(table[f.index]) /\ f.e = table[f.index][1].k
           /\ \A g \in i..f.index - 1 : table[g] = <<>>
  <2> DEFINE m == it.index
  <2>1. /\ m \in i..TableLength /\ 1 <= Len(table[m]) /\ it.e = table[m][1].k
        /\ \A g \in i..m - 1 : table[g] = <<>>
    BY <1>6
  <2> HIDE DEF m, f
  <2>2. m \in 1..TableLength /\ m \in Int /\ m >= i
    BY <1>3, <2>1
  <2>3. table[m] \in Chains /\ Distinct(table[m]) /\ \A y \in ChainKeys(table[m]) : IndexFor(TableLength, y) = m
    BY <1>1, <2>2, TableFacts DEF Sorted
  <2>4. Len(table[m]) \in Nat /\ 1 \in 1..Len(table[m])
    BY <2>1, <2>3, ChainFacts
  <2>5. it.e \in ChainKeys(table[m])
    BY <2>1, <2>4 DEF ChainKeys
  <2>6. it.e \in KeysOf(table)
    <3>1. KeysOf(table) = UNION {ChainKeys(table[g]) : g \in 1..TableLength}
      BY <1>1, KeysAre
    <3>2. QED BY <3>1, <2>2, <2>5
  <2>7. IndexFor(TableLength, it.e) = m
    BY <2>3, <2>5
  <2>8. it.e # NULL
    BY <1>4, <2>6, KeysApart
  <2>9. ASSUME NEW k \in KeysOf(table)
        PROVE  Passed(table, TableLength, it, k) <=> IndexFor(TableLength, k) < i \/ k = it.e
    <3> DEFINE h == IndexFor(TableLength, k)
    <3>1. h \in 1..TableLength /\ table[h] # <<>>
      BY <1>5
    <3>2. h \notin i..m - 1
      BY <2>1, <3>1
    <3>3. h < m <=> h < i
      <4> HIDE DEF h
      <4>1. QED BY <1>3, <2>2, <3>1, <3>2
    <3>4. UpTo(table[m], k, it.e) => k = it.e
      <4> SUFFICES ASSUME UpTo(table[m], k, it.e) PROVE k = it.e
        OBVIOUS
      <4>1. PICK j \in 1..Len(table[m]), l \in 1..Len(table[m]) : table[m][j].k = k /\ table[m][l].k = it.e /\ j <= l
        BY DEF UpTo
      <4>2. l = 1
        BY <2>1, <2>3, <2>4, <4>1 DEF Distinct
      <4>3. j = 1
        BY <2>4, <4>1, <4>2
      <4>4. QED BY <2>1, <4>1, <4>3
    <3>5. UpTo(table[m], it.e, it.e)
      BY <2>1, <2>4 DEF UpTo
    <3>6. Passed(table, TableLength, it, k) <=> h < m \/ (h = m /\ UpTo(table[m], k, it.e))
      BY DEF Passed, m
    <3>7. k = it.e => h = m
      BY <2>7
    <3> HIDE DEF h
    <3>8. (h < i \/ k = it.e) <=> (IndexFor(TableLength, k) < i \/ k = it.e)
      BY DEF h
    <3>9. QED BY <3>3, <3>4, <3>5, <3>6, <3>7, <3>8
  <2>10. it.index = m
    BY DEF m
  <2>11. QED BY <2>2, <2>6, <2>7, <2>8, <2>9, <2>10
<1>7. CASE /\ f.index = TableLength + 1 /\ f.e = NULL
           /\ \A g \in i..TableLength : table[g] = <<>>
  <2>1. it.e = NULL /\ it.index = TableLength + 1
    BY <1>7
  <2>2. it.e \notin KeysOf(table)
    BY <1>4, <2>1, KeysApart
  <2>3. ASSUME NEW k \in KeysOf(table)
        PROVE  Passed(table, TableLength, it, k) /\ IndexFor(TableLength, k) < i
    <3> DEFINE h == IndexFor(TableLength, k)
    <3>1. h \in 1..TableLength /\ table[h] # <<>>
      BY <1>5
    <3>2. h < it.index
      <4> HIDE DEF h
      <4>1. QED BY <1>3, <2>1, <3>1
    <3>3. h < i
      <4> HIDE DEF h
      <4>1. QED BY <1>3, <1>7, <3>1
    <3>4. QED BY <3>2, <3>3 DEF Passed
  <2>4. QED BY <2>1, <2>2, <2>3
<1>8. QED BY <1>6, <1>7, FirstFromIs

LEMMA CountAppend ==
  ASSUME NEW sn \in Seq(Keys), NEW x \in Keys, NEW k
  PROVE  /\ Append(sn, x) \in Seq(Keys)
         /\ Count(sn, k) \in Nat
         /\ Count(Append(sn, x), k) = IF k = x THEN Count(sn, k) + 1 ELSE Count(sn, k)
<1> DEFINE n == Len(sn)
<1> DEFINE un == Append(sn, x)
<1> DEFINE A == {i \in 1..n : sn[i] = k}
<1> DEFINE B == {i \in 1..n + 1 : un[i] = k}
<1>1. n \in Nat /\ DOMAIN sn = 1..n
  BY LenProperties
<1>2. un \in Seq(Keys) /\ Len(un) = n + 1 /\ DOMAIN un = 1..n + 1 /\ un[n + 1] = x /\ \A i \in 1..n : un[i] = sn[i]
  BY AppendProperties, LenProperties
<1>3. Count(sn, k) = Cardinality(A) /\ Count(un, k) = Cardinality(B)
  BY <1>1, <1>2 DEF Count
<1>4. IsFiniteSet(A) /\ Cardinality(A) \in Nat
  <2>1. IsFiniteSet(1..n)
    BY <1>1, FS_Interval
  <2>2. A \in SUBSET (1..n)
    OBVIOUS
  <2> HIDE DEF A
  <2>3. IsFiniteSet(A)
    BY <2>1, <2>2, FS_Subset
  <2>4. QED BY <2>3, FS_CardinalityType
<1> HIDE DEF un, n
<1>5. CASE k = x
  <2>1. B = A \cup {n + 1} /\ n + 1 \notin A
    BY <1>1, <1>2, <1>5
  <2> HIDE DEF A, B
  <2>2. Cardinality(B) = Cardinality(A) + 1
    BY <1>4, <2>1, FS_AddElement
  <2>3. QED BY <1>2, <1>3, <1>4, <1>5, <2>2 DEF un
<1>6. CASE k # x
  <2>1. B = A
    BY <1>1, <1>2, <1>6
  <2> HIDE DEF A, B
  <2>2. QED BY <1>2, <1>3, <1>4, <1>6, <2>1 DEF un
<1>7. QED BY <1>5, <1>6

LEMMA CountNone ==
  ASSUME NEW k
  PROVE  Count(<<>>, k) = 0
<1>1. {i \in DOMAIN <<>> : <<>>[i] = k} = {}
  OBVIOUS
<1>2. QED BY <1>1, FS_EmptySet DEF Count

LEMMA BehindFacts ==
  ASSUME Ready, NEW k \in Keys, Has(k)
  PROVE  /\ Behind(k) # <<>> <=> Place(k) < Len(Chain(k))
         /\ Place(k) < Len(Chain(k)) => Behind(k)[1] = Chain(k)[Place(k) + 1]
<1> DEFINE c == Chain(k)
<1> DEFINE p == Place(k)
<1> DEFINE b == Behind(k)
<1>1. c \in Chains /\ p \in 1..Len(c)
  BY ChainIs, HasIs
<1>2. Len(c) \in Nat /\ p \in Nat /\ p <= Len(c) /\ \A j \in 1..Len(c) : c[j] \in Entries
  BY <1>1, ChainFacts
<1>3. b = SubSeq(c, p + 1, Len(c))
  BY DEF Behind
<1> HIDE DEF c, p, b
<1>4. \A j \in p + 1..Len(c) : c[j] \in Entries
  BY <1>2
<1>5. p + 1 \in Int /\ Len(c) \in Int
  BY <1>2
<1>6. /\ b \in Seq(Entries)
      /\ Len(b) = IF p + 1 <= Len(c) THEN Len(c) - (p + 1) + 1 ELSE 0
      /\ \A j \in 1..Len(c) - (p + 1) + 1 : b[j] = c[(p + 1) + j - 1]
  BY <1>3, <1>4, <1>5, SubSeqProperties
<1>7. Len(b) = Len(c) - p
  BY <1>2, <1>6
<1>8. b # <<>> <=> p < Len(c)
  BY <1>2, <1>6, <1>7, EmptySeq
<1>9. ASSUME p < Len(c) PROVE b[1] = c[p + 1]
  <2>1. 1 \in 1..Len(c) - (p + 1) + 1 /\ (p + 1) + 1 - 1 = p + 1
    BY <1>2, <1>9
  <2>2. QED BY <1>6, <2>1
<1>10. QED BY <1>8, <1>9 DEF c, p, b

(* One step on.                                                            *)
Onward == Advanced(itr, Behind(itr.e))

Within(it, e) == [it EXCEPT !.e = e, !.parent = it.e]
Across(it, e, index) == [it EXCEPT !.e = e, !.parent = NULL, !.index = index]

LEMMA OnwardFields ==
  ASSUME NEW it \in Iterators, NEW behind
  PROVE  LET nx == Advanced(it, behind)
             f == FirstFrom(it.index + 1)
         IN  /\ behind # <<>> => nx = Within(it, behind[1].k)
             /\ behind = <<>> => nx = Across(it, f.e, f.index)
BY DEF Advanced, Within, Across

LEMMA WithinFields ==
  ASSUME NEW it \in Iterators, NEW e \in Pointers
  PROVE  /\ Within(it, e) \in Iterators
         /\ Within(it, e).on = it.on /\ Within(it, e).index = it.index
         /\ Within(it, e).e = e /\ Within(it, e).parent = it.e
BY DEF Iterators, Within

LEMMA AcrossFields ==
  ASSUME NEW it \in Iterators, NEW e \in Pointers, NEW index \in Sizes
  PROVE  /\ Across(it, e, index) \in Iterators
         /\ Across(it, e, index).on = it.on /\ Across(it, e, index).index = index
         /\ Across(it, e, index).e = e /\ Across(it, e, index).parent = NULL
BY DEF Iterators, Pointers, Across

LEMMA FirstFromType ==
  ASSUME Ready, NEW i \in Sizes
  PROVE  FirstFrom(i).index \in Sizes /\ FirstFrom(i).e \in KeysOf(table) \cup {NULL}
<1> DEFINE f == FirstFrom(i)
<1>1. table \in Seq(Chains) /\ Len(table) = TableLength
  BY DEF Ready, Sorted
<1>2. TableLength \in Sizes
  BY LengthIs DEF Ready, TableLength
<1>3. i \in Nat /\ 1 <= i /\ TableLength \in Nat
  BY <1>2 DEF Sizes
<1>4. CASE f.index \in i..TableLength /\ 1 <= Len(table[f.index]) /\ f.e = table[f.index][1].k
  <2> DEFINE m == f.index
  <2>1. m \in i..TableLength /\ 1 <= Len(table[m]) /\ f.e = table[m][1].k
    BY <1>4
  <2> HIDE DEF m, f
  <2>2. m \in 1..TableLength /\ m \in Sizes
    BY <1>3, <2>1 DEF Sizes
  <2>3. table[m] \in Chains
    BY <1>1, <2>2, TableFacts
  <2>4. 1 \in 1..Len(table[m])
    BY <2>1, <2>3, ChainFacts
  <2>5. f.e \in ChainKeys(table[m])
    BY <2>1, <2>4 DEF ChainKeys
  <2>6. KeysOf(table) = UNION {ChainKeys(table[g]) : g \in 1..TableLength}
    BY <1>1, KeysAre
  <2>7. f.e \in KeysOf(table)
    BY <2>2, <2>5, <2>6
  <2>8. QED BY <2>2, <2>7 DEF m, f
<1>5. CASE f.index = TableLength + 1 /\ f.e = NULL
  BY <1>3, <1>5 DEF Sizes
<1>6. QED BY <1>4, <1>5, FirstFromIs

LEMMA OnwardFacts ==
  ASSUME Ready, itr \in Iterators, Live(itr.e), Attached(table, itr)
  PROVE  /\ Onward \in Iterators /\ Onward.on = itr.on /\ Attached(table, Onward)
         /\ Onward.e # Freed /\ Onward.parent \in {NULL, itr.e}
         /\ itr.index = IndexFor(TableLength, itr.e) =>
              /\ Onward.e # itr.e
              /\ Onward.e \in Keys => Onward.index = IndexFor(TableLength, Onward.e)
              /\ Onward.e = NULL => Onward.index = TableLength + 1
              /\ \A k \in KeysOf(table) :
                   Passed(table, TableLength, Onward, k) <=> Passed(table, TableLength, itr, k) \/ k = Onward.e
              /\ Onward.e \in Keys => ~Passed(table, TableLength, itr, Onward.e)
<1> DEFINE e == itr.e
<1> DEFINE c == Chain(e)
<1> DEFINE p == Place(e)
<1>1. e \in KeysOf(table) /\ e \in Keys
  BY KeysAre DEF Attached, Live, Ready, Sorted
<1>2. Has(e) /\ p \in 1..Len(c) /\ c[p].k = e
  BY <1>1, HasIs
<1>3. /\ TableLength \in Sizes /\ IndexFor(TableLength, e) \in 1..TableLength /\ c \in Chains /\ Distinct(c)
      /\ table \in Seq(Chains) /\ Len(table) = TableLength
      /\ \A x \in ChainKeys(c) : IndexFor(TableLength, x) = IndexFor(TableLength, e)
  BY <1>1, ChainIs
<1>4. KeysOf(table) = UNION {ChainKeys(table[g]) : g \in 1..TableLength} /\ KeysOf(table) \subseteq Keys
  BY <1>3, KeysAre
<1>5. c = table[IndexFor(TableLength, e)]
  BY DEF Chain
<1>6. p \in Nat /\ Len(c) \in Nat /\ 1 <= p /\ p <= Len(c)
  BY <1>2, <1>3, ChainFacts
<1>7. itr.index \in Sizes /\ itr.index + 1 \in Sizes /\ itr.e \in Pointers
  BY DEF Iterators, Sizes
<1>i. \A k \in KeysOf(table) : IndexFor(TableLength, k) \in Int /\ k \in Keys
  BY <1>3, <1>4, IndexIn
<1>8. CASE p < Len(c)
  <2> DEFINE y == c[p + 1].k
  <2>1. Onward = Within(itr, y)
    <3>1. Behind(e) # <<>> /\ Behind(e)[1] = c[p + 1]
      BY <1>1, <1>2, <1>8, BehindFacts
    <3>2. QED BY <3>1, OnwardFields DEF Onward
  <2>2. p + 1 \in 1..Len(c)
    <3> HIDE DEF c, p
    <3>1. QED BY <1>6, <1>8
  <2> HIDE DEF p
  <2>3. y \in ChainKeys(c) /\ c[p + 1].k = y
    BY <2>2 DEF ChainKeys
  <2>4. y # e
    <3> HIDE DEF c, e
    <3>1. p # p + 1
      BY <1>6
    <3>2. QED BY <3>1, <1>2, <1>3, <2>2 DEF Distinct
  <2> HIDE DEF y, c
  <2>5. y \in KeysOf(table) /\ y \in Keys
    BY <1>3, <1>4, <1>5, <2>3
  <2>6. Onward \in Iterators /\ Onward.on = itr.on /\ Onward.index = itr.index /\ Onward.e = y /\ Onward.parent = e
    <3>1. y \in Pointers /\ e \in Pointers
      BY <1>1, <2>5 DEF Pointers
    <3>2. QED BY <2>1, <3>1, WithinFields
  <2>7. Attached(table, Onward) /\ Onward.e # Freed
    BY <1>1, <2>5, <2>6, KeysApart DEF Attached
  <2>8. IndexFor(TableLength, y) = IndexFor(TableLength, e)
    BY <1>3, <2>3
  <2>9. ASSUME itr.index = IndexFor(TableLength, itr.e), NEW k \in KeysOf(table)
        PROVE  Passed(table, TableLength, Onward, k) <=> Passed(table, TableLength, itr, k) \/ k = y
    <3>1. table[itr.index] = c
      BY <1>5, <2>9
    <3>2. Passed(table, TableLength, itr, k)
            <=> IndexFor(TableLength, k) < itr.index \/ (IndexFor(TableLength, k) = itr.index /\ UpTo(c, k, e))
      BY <3>1 DEF Passed
    <3>3. Passed(table, TableLength, Onward, k)
            <=> IndexFor(TableLength, k) < itr.index \/ (IndexFor(TableLength, k) = itr.index /\ UpTo(c, k, y))
      BY <3>1, <2>6 DEF Passed
    <3>4. UpTo(c, k, y) <=> UpTo(c, k, e) \/ k = y
      <4> HIDE DEF e
      <4>1. ASSUME UpTo(c, k, y) PROVE UpTo(c, k, e) \/ k = y
        <5>1. PICK j \in 1..Len(c), l \in 1..Len(c) : c[j].k = k /\ c[l].k = y /\ j <= l
          BY <4>1 DEF UpTo
        <5>2. l = p + 1
          BY <1>3, <2>2, <2>3, <5>1 DEF Distinct
        <5>3. j = p + 1 \/ j <= p
          BY <1>6, <5>1, <5>2
        <5>4. CASE j <= p
          BY <1>2, <5>1, <5>4 DEF UpTo
        <5>5. CASE j = p + 1
          BY <2>3, <5>1, <5>5
        <5>6. QED BY <5>3, <5>4, <5>5
      <4>2. ASSUME UpTo(c, k, e) PROVE UpTo(c, k, y)
        <5>1. PICK j \in 1..Len(c), l \in 1..Len(c) : c[j].k = k /\ c[l].k = e /\ j <= l
          BY <4>2 DEF UpTo
        <5>2. l = p
          BY <1>2, <1>3, <5>1 DEF Distinct
        <5>3. j <= p + 1
          BY <1>6, <5>1, <5>2
        <5>4. QED BY <2>2, <2>3, <5>1, <5>3 DEF UpTo
      <4>3. ASSUME k = y PROVE UpTo(c, k, y)
        <5>1. p + 1 <= p + 1
          BY <1>6
        <5>2. QED BY <2>2, <2>3, <4>3, <5>1 DEF UpTo
      <4>4. QED BY <4>1, <4>2, <4>3
    <3>5. k = y => IndexFor(TableLength, k) = itr.index
      BY <2>8, <2>9
    <3>6. QED BY <3>2, <3>3, <3>4, <3>5
  <2>10. ASSUME itr.index = IndexFor(TableLength, itr.e)
         PROVE  ~Passed(table, TableLength, itr, y)
    <3>1. table[itr.index] = c
      BY <1>5, <2>10
    <3>2. IndexFor(TableLength, y) = itr.index /\ itr.index \in Int
      BY <2>8, <2>10, <1>7 DEF Sizes
    <3>3. ~UpTo(c, y, e)
      <4> HIDE DEF e
      <4> SUFFICES ASSUME UpTo(c, y, e) PROVE FALSE
        OBVIOUS
      <4>1. PICK j \in 1..Len(c), l \in 1..Len(c) : c[j].k = y /\ c[l].k = e /\ j <= l
        BY DEF UpTo
      <4>2. j = p + 1 /\ l = p
        BY <1>2, <1>3, <2>2, <2>3, <4>1 DEF Distinct
      <4>3. QED BY <4>1, <4>2, <1>6
    <3>4. QED BY <3>1, <3>2, <3>3 DEF Passed
  <2>11. QED BY <2>4, <2>5, <2>6, <2>7, <2>8, <2>9, <2>10, KeysApart
<1>9. CASE p = Len(c)
  <2> DEFINE i == itr.index + 1
  <2> DEFINE f == FirstFrom(i)
  <2>1. Onward = Across(itr, f.e, f.index)
    <3>1. Behind(e) = <<>>
      <4>1. Behind(e) # <<>> <=> p < Len(c)
        BY <1>1, <1>2, BehindFacts
      <4> HIDE DEF p, c
      <4>2. ~(p < Len(c))
        BY <1>6, <1>9
      <4>3. QED BY <4>1, <4>2
    <3>2. QED BY <3>1, OnwardFields DEF Onward
  <2>2. i \in Sizes
    BY <1>7
  <2> HIDE DEF p, c, i
  <2>3. f.index \in Sizes /\ f.e \in KeysOf(table) \cup {NULL}
    BY <2>2, FirstFromType
  <2>4. Onward \in Iterators /\ Onward.on = itr.on /\ Onward.index = f.index /\ Onward.e = f.e /\ Onward.parent = NULL
    <3>1. f.e \in Pointers /\ NULL \in Pointers
      BY <1>4, <2>3 DEF Pointers
    <3> HIDE DEF f
    <3>2. QED BY <2>1, <2>3, <3>1, AcrossFields
  <2>5. Attached(table, Onward) /\ Onward.e # Freed
    BY <1>4, <2>3, <2>4, KeysApart DEF Attached
  <2>6. /\ Onward.e \in KeysOf(table) => Onward.index = IndexFor(TableLength, Onward.e) /\ Onward.index >= i
        /\ Onward.e = NULL \/ Onward.e \in KeysOf(table)
        /\ Onward.e = NULL => Onward.index = TableLength + 1
        /\ \A k \in KeysOf(table) : Passed(table, TableLength, Onward, k) <=> IndexFor(TableLength, k) < i \/ k = Onward.e
    <3>1. Onward.index = FirstFrom(i).index /\ Onward.e = FirstFrom(i).e
      BY <2>4
    <3> HIDE DEF f
    <3>2. QED BY <2>2, <2>4, <3>1, Landing
  <2> HIDE DEF f
  <2>7. i = itr.index + 1 /\ itr.index \in Int /\ i \in Int
    BY <1>7 DEF i, Sizes
  <2>8. ASSUME itr.index = IndexFor(TableLength, itr.e)
        PROVE  \A k \in KeysOf(table) : Passed(table, TableLength, itr, k) <=> IndexFor(TableLength, k) < i
    <3> TAKE k \in KeysOf(table)
    <3>1. table[itr.index] = c
      BY <1>5, <2>8
    <3>2. Passed(table, TableLength, itr, k)
            <=> IndexFor(TableLength, k) < itr.index \/ (IndexFor(TableLength, k) = itr.index /\ UpTo(c, k, e))
      BY <3>1 DEF Passed
    <3>3. IndexFor(TableLength, k) = itr.index => UpTo(c, k, e)
      <4> SUFFICES ASSUME IndexFor(TableLength, k) = itr.index PROVE UpTo(c, k, e)
        OBVIOUS
      <4>1. k \in ChainKeys(table[IndexFor(TableLength, k)])
        BY <1>3, <1>4, KeyChain DEF Ready
      <4>2. k \in ChainKeys(c)
        BY <3>1, <4>1
      <4>3. PICK j \in 1..Len(c) : c[j].k = k
        BY <4>2 DEF ChainKeys
      <4>4. j <= p
        BY <1>6, <1>9, <4>3
      <4>5. QED BY <1>2, <4>3, <4>4 DEF UpTo
    <3>4. IndexFor(TableLength, k) \in Int
      BY <1>i
    <3>5. QED BY <3>2, <3>3, <3>4, <2>7
  <2>9. ASSUME itr.index = IndexFor(TableLength, itr.e)
        PROVE  /\ Onward.e # itr.e
               /\ Onward.e \in Keys => ~Passed(table, TableLength, itr, Onward.e)
    <3>1. Passed(table, TableLength, itr, e)
      BY <1>1, <2>7, <2>8, <2>9
    <3>2. ASSUME Onward.e \in Keys PROVE ~Passed(table, TableLength, itr, Onward.e)
      <4>1. Onward.e \in KeysOf(table)
        BY <2>6, <3>2, KeysApart
      <4>2. IndexFor(TableLength, Onward.e) >= i /\ IndexFor(TableLength, Onward.e) \in Int
        BY <2>6, <4>1, <1>i
      <4>3. ~(IndexFor(TableLength, Onward.e) < i)
        BY <4>2, <2>7
      <4>4. QED BY <2>8, <2>9, <4>1, <4>3
    <3>3. QED BY <3>1, <3>2, <1>1
  <2>10. ASSUME itr.index = IndexFor(TableLength, itr.e)
         PROVE  \A k \in KeysOf(table) :
                  Passed(table, TableLength, Onward, k) <=> Passed(table, TableLength, itr, k) \/ k = Onward.e
    BY <2>6, <2>8, <2>10
  <2>11. Onward.e \in Keys => Onward.index = IndexFor(TableLength, Onward.e)
    BY <2>6, KeysApart
  <2>12. Onward.parent \in {NULL, itr.e}
    BY <2>4
  <2>13. QED BY <2>4, <2>5, <2>6, <2>9, <2>10, <2>11, <2>12
<1>10. QED BY <1>6, <1>8, <1>9

LEMMA OnwardWalked ==
  ASSUME Ready, itr \in Iterators, itr.on, Live(itr.e), Attached(table, itr),
         seen \in Seq(Keys), present \in (SUBSET Keys) \cup {Unsure},
         Walked(table, TableLength, itr, seen, present),
         NEW sn, sn = IF Onward.e = NULL \/ present = Unsure THEN seen ELSE Append(seen, Onward.e)
  PROVE  sn \in Seq(Keys) /\ Walked(table, TableLength, Onward, sn, present)
<1>1. KeysOf(table) \subseteq Keys
  BY KeysAre DEF Ready, Sorted
<1>2. Onward.e \in Keys \cup {NULL}
  BY <1>1, OnwardFacts DEF Attached
<1>3. itr.e \in Keys /\ itr.e # Freed
  BY <1>1, KeysApart DEF Attached, Live
<1>4. sn \in Seq(Keys)
  BY <1>2, CountAppend
<1>5. ASSUME present # Unsure
      PROVE  /\ present \subseteq KeysOf(table)
             /\ Onward.e \in Keys => Onward.index = IndexFor(TableLength, Onward.e)
             /\ Onward.e = NULL => Onward.index = TableLength + 1
             /\ \A k \in present : Count(sn, k) = IF Passed(table, TableLength, Onward, k) THEN 1 ELSE 0
  <2>1. /\ present \subseteq KeysOf(table) /\ itr.index = IndexFor(TableLength, itr.e)
        /\ \A k \in present : Count(seen, k) = IF Passed(table, TableLength, itr, k) THEN 1 ELSE 0
    BY <1>3, <1>5 DEF Walked
  <2>2. /\ Onward.e \in Keys => Onward.index = IndexFor(TableLength, Onward.e)
        /\ Onward.e = NULL => Onward.index = TableLength + 1
    BY <2>1, OnwardFacts
  <2>3. \A k \in KeysOf(table) :
          Passed(table, TableLength, Onward, k) <=> Passed(table, TableLength, itr, k) \/ k = Onward.e
    BY <2>1, OnwardFacts
  <2>4. Onward.e \in Keys => ~Passed(table, TableLength, itr, Onward.e)
    BY <2>1, OnwardFacts
  <2>5. ASSUME NEW k \in present
        PROVE  Count(sn, k) = IF Passed(table, TableLength, Onward, k) THEN 1 ELSE 0
    <3>1. k \in Keys /\ k \in KeysOf(table)
      BY <1>1, <2>1
    <3>2. CASE Onward.e = NULL
      <4>1. sn = seen /\ k # Onward.e
        BY <3>1, <3>2, KeysApart
      <4>2. QED BY <2>1, <2>3, <3>1, <4>1
    <3>3. CASE Onward.e # NULL
      <4>1. sn = Append(seen, Onward.e) /\ Onward.e \in Keys
        BY <1>2, <1>5, <3>3
      <4>2. Count(sn, k) = IF k = Onward.e THEN Count(seen, k) + 1 ELSE Count(seen, k)
        BY <4>1, CountAppend
      <4>3. Count(seen, k) = IF Passed(table, TableLength, itr, k) THEN 1 ELSE 0
        BY <2>1
      <4>4. CASE k = Onward.e
        <5>1. ~Passed(table, TableLength, itr, k) /\ Passed(table, TableLength, Onward, k)
          BY <2>3, <2>4, <3>1, <4>1, <4>4
        <5>2. QED BY <4>2, <4>3, <4>4, <5>1
      <4>5. CASE k # Onward.e
        <5>1. Passed(table, TableLength, Onward, k) <=> Passed(table, TableLength, itr, k)
          BY <2>3, <3>1, <4>5
        <5>2. QED BY <4>2, <4>3, <4>5, <5>1
      <4>6. QED BY <4>4, <4>5
    <3>4. QED BY <3>2, <3>3
  <2>6. QED BY <2>1, <2>2, <2>5
<1>6. Walked(table, TableLength, Onward, sn, present)
  BY <1>5 DEF Walked
<1>7. QED BY <1>4, <1>6

(* The pointer to the parent says nothing about what was passed.           *)
LEMMA WalkedSame ==
  ASSUME NEW t, NEW size, NEW it, NEW jt, NEW sn, NEW pr, Walked(t, size, it, sn, pr),
         jt.on = it.on, jt.index = it.index, jt.e = it.e
  PROVE  Walked(t, size, jt, sn, pr)
<1>1. \A k : Passed(t, size, jt, k) <=> Passed(t, size, it, k)
  BY DEF Passed
<1>2. QED BY <1>1 DEF Walked

-----------------------------------------------------------------------------
(* The invariant of the table and its iterator, and what each operation    *)
(* does to it.                                                             *)
WInv ==
  /\ itr \in Iterators /\ seen \in Seq(Keys) /\ present \in (SUBSET Keys) \cup {Unsure}
  /\ Attached(table, itr) /\ Walked(table, TableLength, itr, seen, present)
HInv == TInv /\ WInv

LEMMA NoIteratorFacts ==
  ASSUME NEW t, NEW size, NEW sn, NEW pr
  PROVE  NoIterator \in Iterators /\ Attached(t, NoIterator) /\ Walked(t, size, NoIterator, sn, pr)
<1>1. NoIterator \in Iterators /\ ~NoIterator.on /\ NoIterator.e = NULL /\ NoIterator.parent = NULL
  BY DEF NoIterator, Iterators, Pointers, Sizes
<1>2. QED BY <1>1 DEF Attached, Walked

LEMMA EmptyStep ==
  ASSUME table' = EmptyTable(Primes[1]), primeindex' = 1, entrycount' = 0,
         itr' = NoIterator, seen' = <<>>, present' = {}
  PROVE  HInv'
<1>1. 1 \in DOMAIN Primes
  BY TableAssumption, LenProperties, EmptySeq
<1>2. Primes[1] \in Sizes
  BY <1>1, LengthIs
<1>3. Sorted(table', Primes[1]) /\ KeysOf(table') = {}
  BY <1>2, EmptySorted
<1>4. TableLength' = Primes[1]
  BY DEF TableLength
<1>5. Ready'
  BY <1>1, <1>3, <1>4 DEF Ready
<1>6. entrycount' = Cardinality(KeysOf(table'))
  BY <1>3, FS_EmptySet
<1>7. Room(entrycount', primeindex')
  <2>1. LoadLimit(Primes[1]) \in Int /\ 0 <= LoadLimit(Primes[1])
    BY <1>2 DEF LoadLimit, Sizes
  <2>2. QED BY <2>1 DEF Room
<1>8. TInv'
  BY <1>5, <1>6, <1>7 DEF TInv
<1>9. WInv'
  <2>1. seen' \in Seq(Keys) /\ present' \in (SUBSET Keys) \cup {Unsure}
    OBVIOUS
  <2>2. QED BY <2>1, NoIteratorFacts DEF WInv
<1>10. QED BY <1>8, <1>9 DEF HInv

LEMMA HashInitInv == HashInit => HInv
<1> SUFFICES ASSUME HashInit PROVE HInv
  OBVIOUS
<1>0. /\ primeindex = 1 /\ table = EmptyTable(Primes[1]) /\ entrycount = 0
      /\ itr = NoIterator /\ seen = <<>> /\ present = {}
  BY DEF HashInit
<1>1. 1 \in DOMAIN Primes
  BY TableAssumption, LenProperties, EmptySeq
<1>2. Primes[1] \in Sizes
  BY <1>1, LengthIs
<1>3. Sorted(table, Primes[1]) /\ KeysOf(table) = {}
  BY <1>0, <1>2, EmptySorted
<1>4. Ready
  BY <1>0, <1>1, <1>3 DEF Ready, TableLength
<1>5. entrycount = Cardinality(KeysOf(table))
  BY <1>0, <1>3, FS_EmptySet
<1>6. Room(entrycount, primeindex)
  <2>1. LoadLimit(Primes[1]) \in Int /\ 0 <= LoadLimit(Primes[1])
    BY <1>2 DEF LoadLimit, Sizes
  <2>2. QED BY <2>1, <1>0 DEF Room
<1>7. WInv
  BY <1>0, NoIteratorFacts DEF WInv
<1>8. QED BY <1>4, <1>5, <1>6, <1>7 DEF HInv, TInv

(* The facts about a state that the steps start from.                      *)
LEMMA HInvFacts ==
  ASSUME HInv
  PROVE  /\ Ready /\ TableLength \in Sizes /\ Sorted(table, TableLength)
         /\ entrycount = Cardinality(KeysOf(table)) /\ IsFiniteSet(KeysOf(table)) /\ entrycount \in Nat
         /\ primeindex \in DOMAIN Primes /\ TableLength = Primes[primeindex]
         /\ KeysOf(table) \subseteq Keys
<1>1. Ready /\ entrycount = Cardinality(KeysOf(table))
  BY DEF HInv, TInv
<1>2. primeindex \in DOMAIN Primes /\ TableLength = Primes[primeindex] /\ Sorted(table, TableLength)
  BY <1>1 DEF Ready, TableLength
<1>3. TableLength \in Sizes
  BY <1>2, LengthIs
<1>4. IsFiniteSet(KeysOf(table))
  BY <1>2, <1>3, PlacesForKeys
<1>5. entrycount \in Nat
  BY <1>1, <1>4, FS_CardinalityType
<1>6. KeysOf(table) \subseteq Keys
  BY <1>2, KeysAre DEF Sorted
<1>7. QED BY <1>1, <1>2, <1>3, <1>4, <1>5, <1>6

LEMMA RoomLess ==
  ASSUME NEW count \in Nat, NEW i \in DOMAIN Primes, Room(count, i)
  PROVE  Room(count - 1, i)
<1>1. LoadLimit(Primes[i]) \in Int
  BY LengthIs, LoadLimitType
<1>2. QED BY <1>1 DEF Room

(* One entry less in a table of the same size.                             *)
LEMMA LessStep ==
  ASSUME HInv, NEW k \in KeysOf(table), Sorted(table', TableLength), KeysOf(table') = KeysOf(table) \ {k},
         entrycount' = entrycount - 1, primeindex' = primeindex
  PROVE  TInv'
<1>1. /\ IsFiniteSet(KeysOf(table)) /\ entrycount = Cardinality(KeysOf(table)) /\ entrycount \in Nat
      /\ primeindex \in DOMAIN Primes
  BY HInvFacts
<1>2. Ready'
  BY <1>1 DEF Ready, TableLength
<1>3. entrycount' = Cardinality(KeysOf(table'))
  BY <1>1, FS_RemoveElement
<1>4. Room(entrycount', primeindex')
  BY <1>1, RoomLess DEF HInv, TInv
<1>5. QED BY <1>2, <1>3, <1>4 DEF TInv

LEMMA LoosenedIs ==
  ASSUME NEW k
  PROVE  Loosened(k) = Loose(itr, k)
BY DEF Loosened, Loose

LEMMA PresentLess ==
  ASSUME present \in (SUBSET Keys) \cup {Unsure}, NEW k \in Keys
  PROVE  present \ {k} \in (SUBSET Keys) \cup {Unsure}
BY KeysApart DEF Unsure

LEMMA RemoveKeyStep ==
  ASSUME HInv, NEW k \in Keys, RemoveKey(k)
  PROVE  HInv'
<1>1. Ready /\ KeysOf(table) \subseteq Keys /\ Sorted(table, TableLength)
  BY HInvFacts
<1>2. /\ itr \in Iterators /\ seen \in Seq(Keys) /\ present \in (SUBSET Keys) \cup {Unsure}
      /\ Attached(table, itr) /\ Walked(table, TableLength, itr, seen, present)
  BY DEF HInv, WInv
<1>3. seen' = seen /\ present' = present \ {k} /\ primeindex' = primeindex /\ TableLength' = TableLength
  BY DEF RemoveKey, TableLength
<1>4. seen' \in Seq(Keys) /\ present' \in (SUBSET Keys) \cup {Unsure}
  BY <1>2, <1>3, PresentLess
<1>5. CASE Has(k)
  <2> DEFINE u == Put(table, IndexFor(TableLength, k), Cut(Chain(k), Place(k)))
  <2>1. table' = u /\ entrycount' = entrycount - 1 /\ itr' = Loose(itr, k)
    BY <1>1, <1>5, WithoutIs, LoosenedIs DEF RemoveKey
  <2>2. Sorted(u, TableLength) /\ KeysOf(u) = KeysOf(table) \ {k}
    BY <1>1, <1>5, CutSorted
  <2>3. k \in KeysOf(table)
    BY <1>1, <1>5, HasIs
  <2>4. Walked(u, TableLength, Loose(itr, k), seen, present \ {k}) /\ Attached(u, Loose(itr, k))
    BY <1>1, <1>2, <1>5, CutWalked
  <2>5. Loose(itr, k) \in Iterators
    BY <1>2, LooseFacts
  <2> HIDE DEF u
  <2>6. TInv'
    BY <1>3, <2>1, <2>2, <2>3, LessStep
  <2>7. WInv'
    BY <1>3, <1>4, <2>1, <2>4, <2>5 DEF WInv
  <2>8. QED BY <2>6, <2>7 DEF HInv
<1>6. CASE ~Has(k)
  <2>1. table' = table /\ entrycount' = entrycount /\ itr' = itr
    BY <1>6 DEF RemoveKey, Without
  <2>2. TInv'
    BY <1>3, <2>1 DEF HInv, TInv, Ready, TableLength
  <2>3. k \notin KeysOf(table)
    BY <1>1, <1>6, HasIs
  <2>4. present \ {k} # Unsure => present # Unsure
    BY KeysApart DEF Unsure
  <2>5. Walked(table, TableLength, itr, seen, present \ {k})
    BY <1>2, <2>4 DEF Walked
  <2>6. WInv'
    BY <1>2, <1>3, <1>4, <2>1, <2>5 DEF WInv
  <2>7. QED BY <2>2, <2>6 DEF HInv
<1>7. QED BY <1>5, <1>6

LEMMA ReplaceStep ==
  ASSUME HInv, NEW k \in Keys, NEW v \in Values, Replace(k, v)
  PROVE  HInv'
<1> DEFINE t == Without(table, k)
<1> DEFINE count == IF Has(k) THEN entrycount - 1 ELSE entrycount
<1> DEFINE jt == IF Has(k) THEN Loosened(k) ELSE itr
<1> DEFINE x == [k |-> k, v |-> v]
<1> DEFINE i == IndexFor(TableLength, k)
<1>1. /\ Ready /\ TableLength \in Sizes /\ KeysOf(table) \subseteq Keys /\ Sorted(table, TableLength)
      /\ IsFiniteSet(KeysOf(table)) /\ entrycount = Cardinality(KeysOf(table)) /\ entrycount \in Nat
      /\ primeindex \in DOMAIN Primes
  BY HInvFacts
<1>2. /\ itr \in Iterators /\ seen \in Seq(Keys) /\ present \in (SUBSET Keys) \cup {Unsure}
      /\ Attached(table, itr) /\ Walked(table, TableLength, itr, seen, present)
  BY DEF HInv, WInv
<1>3. Sorted(t, TableLength) /\ KeysOf(t) = KeysOf(table) \ {k}
  BY <1>1, WithoutSorted
<1>4. count = Cardinality(KeysOf(t)) /\ Room(count, primeindex)
  <2>1. Has(k) <=> k \in KeysOf(table)
    BY <1>1, HasIs
  <2>2. Room(entrycount, primeindex)
    BY DEF HInv, TInv
  <2>3. Room(entrycount - 1, primeindex)
    BY <1>1, <2>2, RoomLess
  <2>4. Cardinality(KeysOf(table) \ {k}) = IF k \in KeysOf(table) THEN entrycount - 1 ELSE entrycount
    BY <1>1, FS_RemoveElement
  <2>5. QED BY <1>3, <2>1, <2>2, <2>3, <2>4
<1>5. jt \in Iterators /\ Attached(t, jt) /\ Walked(t, TableLength, jt, seen, present \ {k})
  <2>1. CASE Has(k)
    <3>1. t = Put(table, i, Cut(Chain(k), Place(k))) /\ jt = Loose(itr, k)
      BY <1>1, <2>1, WithoutIs, LoosenedIs
    <3> HIDE DEF t, jt
    <3>2. Walked(t, TableLength, jt, seen, present \ {k}) /\ Attached(t, jt)
      BY <1>1, <1>2, <2>1, <3>1, CutWalked
    <3>3. QED BY <3>1, <3>2, <1>2, LooseFacts
  <2>2. CASE ~Has(k)
    <3>1. t = table /\ jt = itr
      BY <2>2 DEF Without
    <3> HIDE DEF t, jt
    <3>2. present \ {k} # Unsure => present # Unsure
      BY KeysApart DEF Unsure
    <3>3. Walked(table, TableLength, itr, seen, present \ {k})
      BY <1>2, <3>2 DEF Walked
    <3>4. QED BY <3>1, <3>3, <1>2
  <2>3. QED BY <2>1, <2>2
<1>6. /\ InsertInto(t, count, k, v) /\ itr' = jt
      /\ present' = IF primeindex' # primeindex THEN Unsure ELSE present \ {k}
      /\ seen' = IF present' = Unsure THEN <<>> ELSE seen
  BY DEF Replace
<1>7. x \in Entries /\ x.k = k
  BY DEF Entries
<1>8. k \notin KeysOf(t)
  BY <1>3
<1> HIDE DEF t, count, jt
<1>9. /\ TInv' /\ KeysOf(table') = KeysOf(t) \cup {k}
      /\ primeindex' = primeindex => table' = Put(t, i, Consed(x, t[i]))
  BY <1>1, <1>3, <1>4, <1>6, <1>8, InsertStep
<1>10. Attached(table', itr')
  BY <1>5, <1>6, <1>9 DEF Attached
<1>11. seen' \in Seq(Keys) /\ present' \in (SUBSET Keys) \cup {Unsure}
  BY <1>2, <1>6, PresentLess
<1>12. Walked(table', TableLength', itr', seen', present')
  <2>1. CASE present' = Unsure
    BY <2>1 DEF Walked
  <2>2. CASE present' # Unsure
    <3>1. primeindex' = primeindex /\ seen' = seen /\ present' = present \ {k} /\ TableLength' = TableLength
      BY <1>6, <2>2 DEF TableLength
    <3>2. IndexFor(TableLength, x.k) = i
      BY <1>7
    <3>3. x.k \notin KeysOf(t) /\ present \ {k} \in (SUBSET Keys) \cup {Unsure}
      BY <1>7, <1>8, <1>2, PresentLess
    <3> HIDE DEF x, i
    <3>4. Walked(Put(t, i, Consed(x, t[i])), TableLength, jt, seen, present \ {k})
      BY <1>1, <1>3, <1>5, <1>7, <3>2, <3>3, InsertWalked
    <3>5. QED BY <1>6, <1>9, <3>1, <3>4
  <2>3. QED BY <2>1, <2>2
<1>13. WInv'
  <2>1. itr' \in Iterators
    BY <1>5, <1>6
  <2>2. QED BY <2>1, <1>10, <1>11, <1>12 DEF WInv
<1>14. QED BY <1>9, <1>13 DEF HInv

(* An entry that gets another value.                                       *)
Changed(c, p, v) == [c EXCEPT ![p].v = v]

LEMMA ChangedFacts ==
  ASSUME NEW c \in Chains, NEW p \in 1..Len(c), NEW v \in Values
  PROVE  /\ Changed(c, p, v) \in Chains /\ Len(Changed(c, p, v)) = Len(c)
         /\ \A j \in 1..Len(c) : Changed(c, p, v)[j].k = c[j].k
<1> DEFINE n == Len(c)
<1> DEFINE d == Changed(c, p, v)
<1>1. n \in Nat /\ c \in [1..n -> Entries] /\ p \in 1..n
  BY LenProperties, ChainFacts DEF Chains
<1>2. \A y \in Entries : [y EXCEPT !.v = v] \in Entries /\ [y EXCEPT !.v = v].k = y.k
  BY DEF Entries
<1> HIDE DEF n
<1>3. d \in [1..n -> Entries] /\ \A j \in 1..n : d[j].k = c[j].k
  <2>1. d = [j \in 1..n |-> IF j = p THEN [c[j] EXCEPT !.v = v] ELSE c[j]]
    BY <1>1 DEF Changed
  <2>2. QED BY <1>1, <1>2, <2>1
<1> HIDE DEF d
<1>4. d \in Chains /\ Len(d) = n
  BY <1>1, <1>3, SeqDef, LenProperties DEF Chains
<1>5. QED BY <1>3, <1>4 DEF d, n

LEMMA ChangeStep ==
  ASSUME HInv, NEW k \in Keys, NEW v \in Values, Change(k, v)
  PROVE  HInv'
<1> DEFINE i == IndexFor(TableLength, k)
<1> DEFINE c == Chain(k)
<1> DEFINE d == Changed(c, Place(k), v)
<1>1. /\ Ready /\ TableLength \in Sizes /\ KeysOf(table) \subseteq Keys /\ Sorted(table, TableLength)
  BY HInvFacts
<1>2. /\ itr \in Iterators /\ seen \in Seq(Keys) /\ present \in (SUBSET Keys) \cup {Unsure}
      /\ Attached(table, itr) /\ Walked(table, TableLength, itr, seen, present)
  BY DEF HInv, WInv
<1>3. Has(k) /\ table' = Put(table, i, d)
  BY DEF Change, Put, Changed, Chain
<1>4. /\ primeindex' = primeindex /\ entrycount' = entrycount /\ itr' = itr /\ seen' = seen /\ present' = present
      /\ TableLength' = TableLength
  BY DEF Change, history, TableLength
<1>5. /\ i \in 1..TableLength /\ c \in Chains /\ Distinct(c) /\ table[i] = c
      /\ \A y \in ChainKeys(c) : IndexFor(TableLength, y) = i
  BY <1>1, ChainIs DEF Chain
<1>6. Place(k) \in 1..Len(c)
  BY <1>1, <1>3, HasIs
<1>7. d \in Chains /\ Len(d) = Len(c) /\ \A j \in 1..Len(c) : d[j].k = c[j].k
  <2> HIDE DEF c
  <2>1. QED BY <1>5, <1>6, ChangedFacts
<1> HIDE DEF i, c, d
<1>8. Distinct(d) /\ ChainKeys(d) = ChainKeys(c)
  BY <1>5, <1>7 DEF Distinct, ChainKeys
<1>9. \A a, b : UpTo(d, a, b) <=> UpTo(c, a, b)
  BY <1>7 DEF UpTo
<1>10. Sorted(table', TableLength) /\ KeysOf(table') = (KeysOf(table) \ ChainKeys(table[i])) \cup ChainKeys(d)
  BY <1>1, <1>3, <1>5, <1>7, <1>8, PutSorted
<1>11. KeysOf(table) = UNION {ChainKeys(table[j]) : j \in 1..TableLength}
  BY <1>1, KeysAre DEF Sorted
<1>12. KeysOf(table') = KeysOf(table)
  BY <1>5, <1>8, <1>10, <1>11
<1>13. TInv'
  BY <1>4, <1>10, <1>12 DEF HInv, TInv, Ready
<1>14. \A a \in Keys : Passed(table', TableLength, itr, a) <=> Passed(table, TableLength, itr, a)
  <2> TAKE a \in Keys
  <2>1. UpTo(d, a, itr.e) <=> UpTo(table[i], a, itr.e)
    BY <1>5, <1>9
  <2>2. QED BY <1>1, <1>2, <1>3, <1>5, <1>7, <2>1, PassedPut
<1>15. Walked(table', TableLength, itr, seen, present)
  <2> SUFFICES ASSUME itr.on, present # Unsure
      PROVE  /\ present \subseteq KeysOf(table')
             /\ itr.e \in Keys => itr.index = IndexFor(TableLength, itr.e)
             /\ itr.e = NULL => itr.index = TableLength + 1
             /\ itr.e # Freed => \A a \in present : Count(seen, a) = IF Passed(table', TableLength, itr, a) THEN 1 ELSE 0
    BY DEF Walked
  <2>1. /\ present \subseteq KeysOf(table)
        /\ itr.e \in Keys => itr.index = IndexFor(TableLength, itr.e)
        /\ itr.e = NULL => itr.index = TableLength + 1
        /\ itr.e # Freed => \A a \in present : Count(seen, a) = IF Passed(table, TableLength, itr, a) THEN 1 ELSE 0
    BY <1>2 DEF Walked
  <2>2. \A a \in present : Passed(table', TableLength, itr, a) <=> Passed(table, TableLength, itr, a)
    BY <1>1, <1>14, <2>1
  <2>3. QED BY <1>12, <2>1, <2>2
<1>16. Attached(table', itr)
  BY <1>2, <1>12 DEF Attached
<1>17. WInv'
  BY <1>2, <1>4, <1>15, <1>16 DEF WInv
<1>18. QED BY <1>13, <1>17 DEF HInv

LEMMA SameTable ==
  ASSUME HInv, UNCHANGED <<table, primeindex, entrycount>>
  PROVE  TInv' /\ TableLength' = TableLength
BY DEF HInv, TInv, Ready, TableLength

CreatedAt(f) == [on |-> TRUE, index |-> f.index, e |-> f.e, parent |-> NULL]

LEMMA CreatedFields ==
  ASSUME NEW f, f.index \in Sizes, f.e \in Pointers
  PROVE  /\ CreatedAt(f) \in Iterators
         /\ CreatedAt(f).on /\ CreatedAt(f).index = f.index /\ CreatedAt(f).e = f.e /\ CreatedAt(f).parent = NULL
BY DEF CreatedAt, Iterators, Pointers

LEMMA ItrCreateStep ==
  ASSUME HInv, ItrCreate
  PROVE  HInv'
<1> DEFINE f == FirstFrom(1)
<1>1. /\ Ready /\ TableLength \in Sizes /\ KeysOf(table) \subseteq Keys
  BY HInvFacts
<1>2. /\ itr' = CreatedAt(f) /\ seen' = IF f.e = NULL THEN <<>> ELSE <<f.e>>
      /\ present' = KeysOf(table) /\ UNCHANGED <<table, primeindex, entrycount>>
  BY DEF ItrCreate, CreatedAt
<1>3. f.index \in Sizes /\ f.e \in KeysOf(table) \cup {NULL}
  <2>1. 1 \in Sizes
    BY DEF Sizes
  <2>2. QED BY <1>1, <2>1, FirstFromType
<1> HIDE DEF f
<1>4. itr' \in Iterators /\ itr'.on /\ itr'.index = f.index /\ itr'.e = f.e /\ itr'.parent = NULL
  BY <1>1, <1>2, <1>3, CreatedFields DEF Pointers
<1>5. /\ itr'.e \in KeysOf(table) => itr'.index = IndexFor(TableLength, itr'.e) /\ itr'.index >= 1
      /\ itr'.e = NULL \/ itr'.e \in KeysOf(table)
      /\ itr'.e = NULL => itr'.index = TableLength + 1
      /\ \A k \in KeysOf(table) : Passed(table, TableLength, itr', k) <=> IndexFor(TableLength, k) < 1 \/ k = itr'.e
  <2>1. 1 \in Sizes
    BY DEF Sizes
  <2>2. itr'.index = FirstFrom(1).index /\ itr'.e = FirstFrom(1).e
    BY <1>4 DEF f
  <2>3. QED BY <1>1, <1>4, <2>1, <2>2, Landing
<1>6. seen' \in Seq(Keys)
  BY <1>1, <1>2, <1>3
<1>7. present' \in (SUBSET Keys) \cup {Unsure}
  BY <1>1, <1>2
<1>8. \A k \in KeysOf(table) : Count(seen', k) = IF Passed(table, TableLength, itr', k) THEN 1 ELSE 0
  <2> TAKE k \in KeysOf(table)
  <2>1. IndexFor(TableLength, k) \in 1..TableLength
    BY <1>1, IndexIn
  <2>2. ~(IndexFor(TableLength, k) < 1)
    BY <1>1, <2>1 DEF Sizes
  <2>3. Passed(table, TableLength, itr', k) <=> k = itr'.e
    BY <1>5, <2>2
  <2>4. CASE f.e = NULL
    <3>1. k # itr'.e /\ seen' = <<>>
      BY <1>1, <1>2, <1>4, <2>4, KeysApart
    <3>2. QED BY <2>3, <3>1, CountNone
  <2>5. CASE f.e # NULL
    <3>1. f.e \in Keys
      BY <1>1, <1>3, <2>5
    <3>2. seen' = Append(<<>>, f.e)
      BY <1>2, <2>5
    <3>3. <<>> \in Seq(Keys)
      OBVIOUS
    <3>4. Count(seen', k) = IF k = f.e THEN Count(<<>>, k) + 1 ELSE Count(<<>>, k)
      BY <3>1, <3>2, <3>3, CountAppend
    <3>5. QED BY <1>4, <2>3, <3>4, CountNone
  <2>6. QED BY <2>4, <2>5
<1>9. itr'.e \in Keys => itr'.index = IndexFor(TableLength, itr'.e)
  BY <1>5, KeysApart
<1>10. Walked(table, TableLength, itr', seen', present')
  <2>1. present' \subseteq KeysOf(table)
    BY <1>2
  <2>2. \A k \in present' : Count(seen', k) = IF Passed(table, TableLength, itr', k) THEN 1 ELSE 0
    BY <1>2, <1>8
  <2>3. QED BY <1>5, <1>9, <2>1, <2>2 DEF Walked
<1>11. Attached(table, itr')
  BY <1>4, <1>5 DEF Attached
<1>12. TInv' /\ TableLength' = TableLength /\ table' = table
  BY <1>2, SameTable
<1>13. WInv'
  BY <1>4, <1>6, <1>7, <1>10, <1>11, <1>12 DEF WInv
<1>14. QED BY <1>12, <1>13 DEF HInv

LEMMA ItrDestroyStep ==
  ASSUME HInv, ItrDestroy
  PROVE  HInv'
<1>1. itr' = NoIterator /\ seen' = <<>> /\ present' = {} /\ UNCHANGED <<table, primeindex, entrycount>>
  BY DEF ItrDestroy
<1>2. TInv'
  BY <1>1, SameTable
<1>3. WInv'
  <2>1. seen' \in Seq(Keys) /\ present' \in (SUBSET Keys) \cup {Unsure}
    BY <1>1
  <2>2. QED BY <1>1, <2>1, NoIteratorFacts DEF WInv
<1>4. QED BY <1>2, <1>3 DEF HInv

LEMMA ItrAdvanceStep ==
  ASSUME HInv, ItrAdvance
  PROVE  HInv'
<1>1. /\ itr \in Iterators /\ seen \in Seq(Keys) /\ present \in (SUBSET Keys) \cup {Unsure}
      /\ Attached(table, itr) /\ Walked(table, TableLength, itr, seen, present)
  BY DEF HInv, WInv
<1>2. Ready
  BY HInvFacts
<1>3. /\ itr.on /\ Live(itr.e) /\ itr' = Onward /\ UNCHANGED <<table, primeindex, entrycount, present>>
      /\ seen' = IF Onward.e = NULL \/ present = Unsure THEN seen ELSE Append(seen, Onward.e)
  BY DEF ItrAdvance, Onward, Saw
<1>4. Onward \in Iterators /\ Attached(table, Onward)
  BY <1>1, <1>2, <1>3, OnwardFacts
<1>5. seen' \in Seq(Keys) /\ Walked(table, TableLength, Onward, seen', present)
  BY <1>1, <1>2, <1>3, OnwardWalked
<1>6. TInv' /\ TableLength' = TableLength
  BY <1>3, SameTable
<1>7. WInv'
  BY <1>1, <1>3, <1>4, <1>5, <1>6 DEF WInv
<1>8. QED BY <1>6, <1>7 DEF HInv

LEMMA ItrSearchStep ==
  ASSUME HInv, NEW k \in Keys, ItrSearch(k)
  PROVE  HInv'
<1> DEFINE c == Chain(k)
<1> DEFINE q == IF Place(k) = 1 THEN NULL ELSE c[Place(k) - 1].k
<1>1. Ready /\ KeysOf(table) \subseteq Keys /\ Sorted(table, TableLength)
  BY HInvFacts
<1>2. Has(k) /\ itr' = [on |-> TRUE, index |-> IndexFor(TableLength, k), e |-> k, parent |-> q]
  BY DEF ItrSearch
<1>3. present' = Unsure /\ seen' = <<>> /\ UNCHANGED <<table, primeindex, entrycount>>
  BY DEF ItrSearch
<1>4. TableLength \in Sizes /\ IndexFor(TableLength, k) \in 1..TableLength /\ c \in Chains /\ k \in KeysOf(table)
  BY <1>1, <1>2, ChainIs, HasIs
<1>5. Place(k) \in 1..Len(c) /\ Len(c) \in Nat
  BY <1>1, <1>2, <1>4, HasIs, ChainFacts
<1>6. KeysOf(table) = UNION {ChainKeys(table[j]) : j \in 1..TableLength} /\ c = table[IndexFor(TableLength, k)]
  BY <1>1, KeysAre DEF Sorted, Chain
<1> HIDE DEF c
<1>7. ChainKeys(c) \subseteq KeysOf(table)
  BY <1>4, <1>6
<1>8. q \in KeysOf(table) \cup {NULL}
  <2>1. CASE Place(k) # 1
    <3>1. Place(k) - 1 \in 1..Len(c)
      BY <1>5, <2>1
    <3>2. c[Place(k) - 1].k \in ChainKeys(c)
      BY <3>1 DEF ChainKeys
    <3>3. QED BY <1>7, <2>1, <3>2
  <2>2. QED BY <2>1
<1> HIDE DEF q
<1>9. itr' \in Iterators /\ itr'.e = k /\ itr'.parent = q
  <2>1. IndexFor(TableLength, k) \in Sizes
    BY <1>4 DEF Sizes
  <2>2. k \in Pointers /\ q \in Pointers
    BY <1>1, <1>8 DEF Pointers
  <2>3. QED BY <1>2, <2>1, <2>2 DEF Iterators
<1>10. Attached(table, itr')
  BY <1>4, <1>8, <1>9 DEF Attached
<1>11. TInv' /\ TableLength' = TableLength
  BY <1>3, SameTable
<1>12. WInv'
  <2>1. seen' \in Seq(Keys) /\ present' \in (SUBSET Keys) \cup {Unsure} /\ Walked(table', TableLength', itr', seen', present')
    BY <1>3 DEF Walked
  <2>2. QED BY <1>3, <1>9, <1>10, <2>1 DEF WInv
<1>13. QED BY <1>11, <1>12 DEF HInv

(* What the iterator's own removal cuts out of the chain is its entry.     *)
Before(k, parent) == IF parent = NULL THEN <<>> ELSE SubSeq(Chain(k), 1, Place(parent))

LEMMA BeforeIs ==
  ASSUME Ready, itr \in Iterators, Settled, itr.e \in Keys, Has(itr.e)
  PROVE  Before(itr.e, itr.parent) \o Behind(itr.e) = Cut(Chain(itr.e), Place(itr.e)) /\ itr.parent # itr.e
<1> DEFINE e == itr.e
<1> DEFINE c == Chain(e)
<1> DEFINE p == Place(e)
<1>1. /\ c \in Chains /\ Distinct(c) /\ TableLength \in Sizes
      /\ \A x \in ChainKeys(c) : IndexFor(TableLength, x) = IndexFor(TableLength, e)
  BY ChainIs
<1>2. p \in 1..Len(c) /\ c[p].k = e
  BY HasIs
<1>3. Len(c) \in Nat /\ \A j \in 1..Len(c) : c[j] \in Entries /\ c[j].k \in Keys
  BY <1>1, ChainFacts
<1>4. Cut(c, p) = SubSeq(c, 1, p - 1) \o Behind(e)
  BY DEF Cut, Behind
<1>5. IF itr.parent = NULL THEN p = 1 ELSE p > 1 /\ c[p - 1].k = itr.parent
  BY DEF Settled
<1>6. CASE itr.parent = NULL
  <2>1. p = 1 /\ Before(e, itr.parent) = <<>>
    BY <1>5, <1>6 DEF Before
  <2> HIDE DEF c, p
  <2>2. SubSeq(c, 1, p - 1) = <<>>
    <3>1. p - 1 = 0
      BY <2>1
    <3>2. SubSeq(c, 1, 0) = <<>>
      OBVIOUS
    <3>3. QED BY <3>1, <3>2
  <2>3. itr.parent # e
    BY <1>6, KeysApart
  <2>4. QED BY <1>4, <2>1, <2>2, <2>3 DEF c, p
<1>7. CASE itr.parent # NULL
  <2> DEFINE q == itr.parent
  <2>1. p > 1 /\ c[p - 1].k = q
    BY <1>5, <1>7
  <2> HIDE DEF q, p
  <2>2. p - 1 \in 1..Len(c) /\ p - 1 # p
    <3> HIDE DEF c
    <3>1. QED BY <1>2, <1>3, <2>1
  <2>3. q \in Keys /\ q \in ChainKeys(c)
    BY <1>3, <2>1, <2>2 DEF ChainKeys
  <2>4. IndexFor(TableLength, q) = IndexFor(TableLength, e)
    BY <1>1, <2>3
  <2>5. Chain(q) = c
    BY <2>4 DEF Chain
  <2>6. Place(q) = p - 1
    BY <2>1, <2>2, <2>3, <2>5, PlaceIs
  <2>7. q # e
    BY <1>1, <1>2, <2>1, <2>2 DEF Distinct
  <2>8. Before(e, q) = SubSeq(c, 1, p - 1)
    BY <1>7, <2>6 DEF Before, q
  <2>9. QED BY <1>4, <2>7, <2>8 DEF q, p
<1>8. QED BY <1>6, <1>7

LEMMA SteppedFields ==
  ASSUME itr \in Iterators, NEW nx \in Iterators
  PROVE  /\ Stepped(itr, nx) \in Iterators
         /\ Stepped(itr, nx).on = nx.on /\ Stepped(itr, nx).index = nx.index /\ Stepped(itr, nx).e = nx.e
         /\ Stepped(itr, nx).parent = IF nx.parent = itr.e THEN itr.parent ELSE nx.parent
BY DEF Stepped, Iterators

LEMMA ItrRemoveStep ==
  ASSUME HInv, ItrRemove
  PROVE  HInv'
<1> DEFINE e == itr.e
<1> DEFINE u == Put(table, IndexFor(TableLength, e), Cut(Chain(e), Place(e)))
<1> DEFINE jt == Stepped(itr, Onward)
<1>1. /\ itr \in Iterators /\ seen \in Seq(Keys) /\ present \in (SUBSET Keys) \cup {Unsure}
      /\ Attached(table, itr) /\ Walked(table, TableLength, itr, seen, present)
  BY DEF HInv, WInv
<1>2. Ready /\ KeysOf(table) \subseteq Keys
  BY HInvFacts
<1>3. itr.on /\ Settled /\ Live(e) /\ itr.index = IndexFor(TableLength, e)
  BY DEF ItrRemove, Settled
<1>4. e \in KeysOf(table) /\ e \in Keys /\ Has(e)
  <2>1. e \in KeysOf(table)
    BY <1>1, <1>3 DEF Attached, Live
  <2>2. QED BY <1>2, <2>1, HasIs
<1>5. Before(e, itr.parent) \o Behind(e) = Cut(Chain(e), Place(e)) /\ itr.parent # e
  BY <1>1, <1>2, <1>3, <1>4, BeforeIs
<1>6. table' = Put(table, itr.index, Before(e, itr.parent) \o Behind(e)) /\ itr' = jt
  BY DEF ItrRemove, Put, Before, Onward
<1>7. table' = u
  BY <1>3, <1>5, <1>6
<1>8. /\ entrycount' = entrycount - 1 /\ present' = present \ {e} /\ primeindex' = primeindex
      /\ seen' = IF itr'.e = NULL \/ present = Unsure THEN seen ELSE Append(seen, itr'.e)
      /\ TableLength' = TableLength
  BY DEF ItrRemove, Saw, TableLength
<1>9. /\ Onward \in Iterators /\ Onward.on = itr.on /\ Attached(table, Onward)
      /\ Onward.e # Freed /\ Onward.parent \in {NULL, e} /\ Onward.e # e
  BY <1>1, <1>2, <1>3, OnwardFacts
<1>10. /\ jt \in Iterators /\ jt.on = Onward.on /\ jt.index = Onward.index /\ jt.e = Onward.e
       /\ jt.parent = IF Onward.parent = e THEN itr.parent ELSE Onward.parent
  BY <1>1, <1>9, SteppedFields
<1>11. seen' \in Seq(Keys) /\ Walked(table, TableLength, Onward, seen', present)
  <2>1. seen' = IF Onward.e = NULL \/ present = Unsure THEN seen ELSE Append(seen, Onward.e)
    BY <1>6, <1>8, <1>10
  <2>2. QED BY <1>1, <1>2, <1>3, <2>1, OnwardWalked
<1>12. Walked(u, TableLength, Loose(Onward, e), seen', present \ {e}) /\ Attached(u, Loose(Onward, e))
  BY <1>1, <1>2, <1>4, <1>9, <1>11, CutWalked
<1>13. Sorted(u, TableLength) /\ KeysOf(u) = KeysOf(table) \ {e}
  BY <1>2, <1>4, CutSorted
<1>14. /\ Loose(Onward, e).on = Onward.on /\ Loose(Onward, e).index = Onward.index
       /\ Loose(Onward, e).e = Onward.e
  BY <1>4, <1>9, LooseFacts
<1> HIDE DEF u, jt
<1>15. Walked(u, TableLength, jt, seen', present \ {e})
  BY <1>10, <1>12, <1>14, WalkedSame
<1>16. Attached(u, jt)
  <2>1. jt.e \in KeysOf(u) \cup {NULL, Freed}
    BY <1>9, <1>10, <1>13 DEF Attached
  <2>2. jt.parent = itr.parent \/ jt.parent = NULL
    BY <1>9, <1>10
  <2>3. itr.parent \in KeysOf(u) \cup {NULL, Freed}
    BY <1>1, <1>5, <1>13 DEF Attached
  <2>4. QED BY <2>1, <2>2, <2>3 DEF Attached
<1>17. present \ {e} \in (SUBSET Keys) \cup {Unsure}
  BY <1>1, <1>4, PresentLess
<1>18. TInv'
  BY <1>4, <1>7, <1>8, <1>13, LessStep
<1>19. WInv'
  BY <1>6, <1>7, <1>8, <1>10, <1>11, <1>15, <1>16, <1>17 DEF WInv
<1>20. QED BY <1>18, <1>19 DEF HInv

LEMMA SameStep ==
  ASSUME HInv, UNCHANGED <<hashvars, history>>
  PROVE  HInv'
<1>1. UNCHANGED <<table, primeindex, entrycount, itr, seen, present>>
  BY DEF hashvars, history
<1>2. TInv' /\ TableLength' = TableLength
  BY <1>1, SameTable
<1>3. WInv'
  BY <1>1, <1>2 DEF HInv, WInv
<1>4. QED BY <1>2, <1>3 DEF HInv

-----------------------------------------------------------------------------
(* The registry calls the table through these operations only.             *)

LEMMA InitHInv == Init => HInv
BY HashInitInv DEF Init

LEMMA NextHInv == HInv /\ [Next]_vars => HInv'
<1> SUFFICES ASSUME HInv, [Next]_vars PROVE HInv'
  OBVIOUS
<1>1. ASSUME NEW n \in Keys, NEW c \in Values, Register(n, c) PROVE HInv'
  BY <1>1, ReplaceStep DEF Register
<1>2. ASSUME NEW n \in Keys, NEW c \in Values, ChangeCommand(n, c) PROVE HInv'
  BY <1>2, ChangeStep DEF ChangeCommand
<1>3. ASSUME NEW n \in Keys, Unregister(n) PROVE HInv'
  BY <1>3, RemoveKeyStep DEF Unregister
<1>4. ASSUME NEW n \in Keys, WalkTo(n) PROVE HInv'
  BY <1>4, ItrSearchStep DEF WalkTo
<1>5. ASSUME NEW n \in Keys, DispatchUnknown(n) PROVE HInv'
  BY <1>5, SameStep DEF DispatchUnknown
<1>6. ASSUME NEW n \in Keys, NEW a \in Calls, Dispatch(n, a) PROVE HInv'
  BY <1>6, SameStep DEF Dispatch
<1>7. CASE Walk
  BY <1>7, ItrCreateStep, ItrDestroyStep, ItrAdvanceStep, ItrRemoveStep DEF Walk
<1>8. CASE Serve
  BY <1>8, SameStep DEF Serve
<1>9. CASE NewResult
  BY <1>9, SameStep DEF NewResult
<1>10. CASE CmdUninit
  BY <1>10, SameStep DEF CmdUninit
<1>11. CASE CmdInit
  BY <1>11, EmptyStep DEF CmdInit
<1>12. ASSUME NEW name \in ModuleNames, SetModuleName(name) PROVE HInv'
  BY <1>12, SameStep DEF SetModuleName
<1>13. CASE UNCHANGED vars
  BY <1>13, SameStep DEF vars
<1>14. QED
  BY <1>1, <1>2, <1>3, <1>4, <1>5, <1>6, <1>7, <1>8, <1>9, <1>10, <1>11, <1>12, <1>13 DEF Next

(* The invariant of the table and its iterator holds of every sequence of  *)
(* calls an application makes of the registry (arg_cmd.c).                 *)
THEOREM TableInvariant == Spec => []HInv
BY InitHInv, NextHInv, PTL DEF Spec

-----------------------------------------------------------------------------
LEMMA HInvConsistent == HInv => Consistent
<1> SUFFICES ASSUME HInv PROVE Consistent
  OBVIOUS
<1>1. /\ Ready /\ TableLength \in Sizes /\ Sorted(table, TableLength)
      /\ entrycount = Cardinality(KeysOf(table)) /\ TableLength = Primes[primeindex]
  BY HInvFacts
<1>2. Len(table) = TableLength /\ table \in Seq(Chains)
  BY <1>1 DEF Sorted
<1>3. \A p \in Places(table) : IndexFor(TableLength, EntryAt(table, p).k) = p[1]
  <2> TAKE p \in Places(table)
  <2>1. PICK i \in 1..TableLength : \E j \in 1..Len(table[i]) : p = <<i, j>>
    BY <1>2, PlacesAre
  <2>2. PICK j \in 1..Len(table[i]) : p = <<i, j>>
    BY <2>1
  <2>3. EntryAt(table, p).k = table[i][j].k /\ p[1] = i
    BY <2>2 DEF EntryAt
  <2>4. table[i][j].k \in ChainKeys(table[i])
    BY <2>2 DEF ChainKeys
  <2>5. QED BY <1>1, <2>1, <2>3, <2>4 DEF Sorted
<1>4. \A p, q \in Places(table) : EntryAt(table, p).k = EntryAt(table, q).k => p = q
  BY <1>1, PlacesDistinct
<1>5. entrycount = Cardinality(Places(table))
  BY <1>1, PlacesForKeys
<1>6. primeindex < Len(Primes) => entrycount <= LoadLimit(TableLength)
  BY <1>1 DEF HInv, TInv, Room
<1>7. QED BY <1>2, <1>3, <1>4, <1>5, <1>6 DEF Consistent

(* For every hash function, list of lengths and set of names, whatever is  *)
(* registered, removed, expanded or removed through an iterator: every     *)
(* entry is in the chain of its hash, no name has two, the count is right, *)
(* and no chain is crowded while there is a larger prime.                  *)
THEOREM TableConsistent == Spec => []Consistent
BY TableInvariant, HInvConsistent, PTL

LEMMA HInvAttached == HInv => IteratorAttached
<1> SUFFICES ASSUME HInv, NEW p \in {itr.e, itr.parent} \ {NULL, Freed} PROVE Has(p)
  BY DEF IteratorAttached
<1>1. Ready /\ KeysOf(table) \subseteq Keys
  BY HInvFacts
<1>2. p \in KeysOf(table)
  BY DEF HInv, WInv, Attached
<1>3. QED BY <1>1, <1>2, HasIs

(* For every hash function and every sequence of calls, the iterator's two *)
(* pointers lead to entries of the table or were freed by somebody else.   *)
THEOREM IteratorKept == Spec => []IteratorAttached
BY TableInvariant, HInvAttached, PTL

LEMMA HInvComplete == HInv => WalkComplete
<1> SUFFICES ASSUME HInv, itr.on, itr.e = NULL, present # Unsure, NEW k \in present
             PROVE  Cardinality({i \in DOMAIN seen : seen[i] = k}) = 1
  BY DEF WalkComplete
<1>1. TableLength \in Sizes /\ KeysOf(table) \subseteq Keys
  BY HInvFacts
<1>2. /\ present \subseteq KeysOf(table) /\ itr.index = TableLength + 1
      /\ Count(seen, k) = IF Passed(table, TableLength, itr, k) THEN 1 ELSE 0
  BY KeysApart DEF HInv, WInv, Walked
<1>3. IndexFor(TableLength, k) \in 1..TableLength
  BY <1>1, <1>2, IndexIn
<1>4. IndexFor(TableLength, k) < itr.index
  BY <1>1, <1>2, <1>3 DEF Sizes
<1>5. QED BY <1>2, <1>4 DEF Passed, Count

(* For every hash function and every sequence of calls, a walk that comes  *)
(* to its end has stood exactly once at every entry that was there all the *)
(* time, unless an expansion or a search broke it off.                     *)
THEOREM WalksComplete == Spec => []WalkComplete
BY TableInvariant, HInvComplete, PTL
-----------------------------------------------------------------------------
(* What is in a table, with the values.                                    *)
Elems(c) == {c[j] : j \in 1..Len(c)}
EntriesOf(t) == {EntryAt(t, p) : p \in Places(t)}

LEMMA EntriesAre ==
  ASSUME NEW t \in Seq(Chains)
  PROVE  EntriesOf(t) = UNION {Elems(t[i]) : i \in 1..Len(t)} /\ EntriesOf(t) \subseteq Entries
<1>1. ASSUME NEW x PROVE x \in EntriesOf(t) <=> \E i \in 1..Len(t) : x \in Elems(t[i])
  <2>1. x \in EntriesOf(t) <=> \E p \in Places(t) : x = EntryAt(t, p)
    BY DEF EntriesOf
  <2>2. ASSUME NEW p \in Places(t), x = EntryAt(t, p)
        PROVE  \E i \in 1..Len(t) : x \in Elems(t[i])
    <3>1. PICK i \in 1..Len(t) : \E j \in 1..Len(t[i]) : p = <<i, j>>
      BY PlacesAre
    <3>2. PICK j \in 1..Len(t[i]) : p = <<i, j>>
      BY <3>1
    <3>3. x = t[i][j]
      BY <2>2, <3>2, PlaceParts
    <3>4. QED BY <3>3 DEF Elems
  <2>3. ASSUME NEW i \in 1..Len(t), NEW j \in 1..Len(t[i]), x = t[i][j]
        PROVE  \E p \in Places(t) : x = EntryAt(t, p)
    <3>1. <<i, j>> \in Places(t)
      BY PlacesAre
    <3>2. EntryAt(t, <<i, j>>) = t[i][j]
      BY PlaceParts
    <3>3. QED BY <2>3, <3>1, <3>2
  <2>4. QED BY <2>1, <2>2, <2>3 DEF Elems
<1>2. \A p \in Places(t) : EntryAt(t, p) \in Entries
  BY PlaceTypes
<1>3. QED BY <1>1, <1>2 DEF EntriesOf

(* A table holds one entry for each of its keys.                           *)
Single(E) == \A x, y \in E : x.k = y.k => x = y

LEMMA EntryKeys ==
  ASSUME NEW size \in Sizes, NEW t, Sorted(t, size)
  PROVE  Single(EntriesOf(t)) /\ KeysOf(t) = {x.k : x \in EntriesOf(t)}
<1>1. \A p, q \in Places(t) : EntryAt(t, p).k = EntryAt(t, q).k => p = q
  BY PlacesDistinct
<1>2. Single(EntriesOf(t))
  BY <1>1 DEF EntriesOf, Single
<1>3. QED BY <1>2 DEF EntriesOf, KeysOf

(* What a search finds in a chain.                                         *)
Found(c, k) ==
  IF \E j \in DOMAIN c : c[j].k = k THEN c[Min({j \in DOMAIN c : c[j].k = k})].v ELSE NULL

LEMMA SearchFound ==
  ASSUME NEW k
  PROVE  Search(k) = Found(Chain(k), k)
BY DEF Search, Found, Has, Place

LEMMA FoundIs ==
  ASSUME NEW size \in Sizes, NEW t, Sorted(t, size), NEW k \in Keys
  PROVE  /\ \A x \in EntriesOf(t) : x.k = k => Found(t[IndexFor(size, k)], k) = x.v
         /\ k \notin KeysOf(t) => Found(t[IndexFor(size, k)], k) = NULL
<1> DEFINE i == IndexFor(size, k)
<1> DEFINE c == t[i]
<1>1. t \in Seq(Chains) /\ Len(t) = size /\ i \in 1..size
  BY IndexIn DEF Sorted
<1> HIDE DEF i
<1>2. c \in Chains /\ Distinct(c)
  BY <1>1, TableFacts DEF Sorted
<1> HIDE DEF c
<1>3. DOMAIN c = 1..Len(c)
  BY <1>2, ChainFacts
<1>4. ASSUME NEW x \in EntriesOf(t), x.k = k PROVE Found(c, k) = x.v
  <2>1. PICK h \in 1..size : x \in Elems(t[h])
    BY <1>1, EntriesAre
  <2>2. PICK j \in 1..Len(t[h]) : x = t[h][j]
    BY <2>1 DEF Elems
  <2>3. x.k \in ChainKeys(t[h])
    BY <2>2 DEF ChainKeys
  <2>4. h = i
    BY <2>3, <1>4 DEF Sorted, i
  <2>5. x = c[j] /\ j \in 1..Len(c)
    BY <2>2, <2>4 DEF c
  <2>6. Min({l \in DOMAIN c : c[l].k = c[j].k}) = j
    BY <1>2, <2>5, PlaceInChain
  <2>7. Min({l \in DOMAIN c : c[l].k = k}) = j
    BY <2>5, <2>6, <1>4
  <2>8. QED BY <1>3, <1>4, <2>5, <2>7 DEF Found
<1>5. ASSUME k \notin KeysOf(t) PROVE Found(c, k) = NULL
  <2>1. k \notin ChainKeys(c)
    BY <1>5, KeyChain DEF c, i
  <2>2. QED BY <1>3, <2>1 DEF Found, ChainKeys
<1>6. QED BY <1>4, <1>5 DEF c, i

(* The entries after a chain was replaced.                                 *)
LEMMA PutEntries ==
  ASSUME NEW t \in Seq(Chains), NEW i \in 1..Len(t), NEW c \in Chains, NEW x
  PROVE  /\ x \in EntriesOf(t) <=> x \in Elems(t[i]) \/ \E j \in 1..Len(t) : j # i /\ x \in Elems(t[j])
         /\ x \in EntriesOf(Put(t, i, c)) <=> x \in Elems(c) \/ \E j \in 1..Len(t) : j # i /\ x \in Elems(t[j])
<1> DEFINE u == Put(t, i, c)
<1>1. u \in Seq(Chains) /\ Len(u) = Len(t)
  BY PutFacts
<1>2. \A j \in 1..Len(t) : u[j] = IF j = i THEN c ELSE t[j]
  BY PutAt
<1> HIDE DEF u
<1>3. x \in EntriesOf(t) <=> \E j \in 1..Len(t) : x \in Elems(t[j])
  BY EntriesAre
<1>4. x \in EntriesOf(u) <=> \E j \in 1..Len(t) : x \in Elems(u[j])
  BY <1>1, EntriesAre
<1>5. QED BY <1>2, <1>3, <1>4 DEF u

LEMMA CutElems ==
  ASSUME NEW c \in Chains, NEW p \in 1..Len(c), Distinct(c)
  PROVE  Elems(Cut(c, p)) = {x \in Elems(c) : x.k # c[p].k}
<1> DEFINE n == Len(c)
<1> DEFINE d == Cut(c, p)
<1>1. n \in Nat /\ p \in Int /\ 1 <= p /\ p <= n
  BY ChainFacts
<1>2. Len(d) = n - 1 /\ \A j \in 1..n - 1 : d[j] = IF j < p THEN c[j] ELSE c[j + 1]
  BY CutFacts
<1>3. \A j, l \in 1..n : c[j].k = c[l].k => j = l
  BY DEF Distinct
<1>4. Elems(c) = {c[j] : j \in 1..n} /\ Elems(d) = {d[j] : j \in 1..Len(d)}
  BY DEF Elems
<1> HIDE DEF n, d
<1>5. ASSUME NEW j \in 1..Len(d) PROVE d[j] \in Elems(c) /\ d[j].k # c[p].k
  <2> DEFINE J == IF j < p THEN j ELSE j + 1
  <2>1. j \in 1..n - 1 /\ J \in 1..n /\ J # p /\ p \in 1..n
    BY <1>1, <1>2
  <2>2. d[j] = c[J]
    BY <1>2, <2>1
  <2> HIDE DEF J
  <2>3. QED BY <2>1, <2>2, <1>3, <1>4
<1>6. ASSUME NEW j \in 1..n, c[j].k # c[p].k PROVE c[j] \in Elems(d)
  <2>1. j # p
    BY <1>6
  <2> DEFINE J == IF j < p THEN j ELSE j - 1
  <2>2. J \in 1..n - 1 /\ (IF J < p THEN J ELSE J + 1) = j
    BY <1>1, <2>1
  <2>3. d[J] = IF J < p THEN c[J] ELSE c[J + 1]
    BY <1>2, <2>2
  <2>4. d[J] = c[j]
    BY <2>2, <2>3
  <2> HIDE DEF J
  <2>5. QED BY <2>2, <2>4, <1>2, <1>4
<1>7. QED BY <1>4, <1>5, <1>6 DEF d

LEMMA ConsElems ==
  ASSUME NEW c \in Chains, NEW x \in Entries
  PROVE  Elems(Consed(x, c)) = Elems(c) \cup {x}
<1> DEFINE n == Len(c)
<1> DEFINE d == Consed(x, c)
<1>1. n \in Nat
  BY ChainFacts
<1>2. Len(d) = n + 1 /\ d[1] = x /\ \A j \in 1..n : d[j + 1] = c[j]
  BY ConsFacts
<1>3. Elems(c) = {c[j] : j \in 1..n} /\ Elems(d) = {d[j] : j \in 1..Len(d)}
  BY DEF Elems
<1> HIDE DEF n, d
<1>4. ASSUME NEW j \in 1..n + 1 PROVE d[j] \in Elems(c) \cup {x}
  <2>1. CASE j = 1
    BY <1>2, <2>1
  <2>2. CASE j # 1
    <3>1. j - 1 \in 1..n /\ (j - 1) + 1 = j
      BY <1>1, <2>2
    <3>2. d[(j - 1) + 1] = c[j - 1]
      BY <1>2, <3>1
    <3>3. QED BY <1>3, <3>1, <3>2
  <2>3. QED BY <2>1, <2>2
<1>5. ASSUME NEW j \in 1..n PROVE c[j] \in Elems(d)
  <2>1. j + 1 \in 1..Len(d)
    BY <1>1, <1>2
  <2>2. QED BY <2>1, <1>2, <1>3
<1>6. x \in Elems(d)
  <2>1. 1 \in 1..Len(d)
    BY <1>1, <1>2
  <2>2. QED BY <2>1, <1>2, <1>3
<1>7. QED BY <1>2, <1>3, <1>4, <1>5, <1>6 DEF d
Others(E, k) == {x \in E : x.k # k}

LEMMA CutEntries ==
  ASSUME Ready, NEW k \in Keys, Has(k)
  PROVE  EntriesOf(Put(table, IndexFor(TableLength, k), Cut(Chain(k), Place(k)))) = Others(EntriesOf(table), k)
<1> DEFINE i == IndexFor(TableLength, k)
<1> DEFINE c == Chain(k)
<1> DEFINE d == Cut(c, Place(k))
<1>1. /\ i \in 1..TableLength /\ c \in Chains /\ Distinct(c) /\ TableLength \in Sizes
      /\ table \in Seq(Chains) /\ Len(table) = TableLength
  BY ChainIs
<1>2. Place(k) \in 1..Len(c) /\ c[Place(k)].k = k
  BY HasIs
<1>3. d \in Chains /\ Elems(d) = {x \in Elems(c) : x.k # k}
  <2> HIDE DEF c
  <2>1. d \in Chains
    BY <1>1, <1>2, CutFacts
  <2>2. Elems(d) = {x \in Elems(c) : x.k # c[Place(k)].k}
    BY <1>1, <1>2, CutElems
  <2>3. QED BY <2>1, <2>2, <1>2
<1>4. table[i] = c
  BY DEF Chain
<1> HIDE DEF c, d
<1>5. \A j \in 1..Len(table) : j # i => \A x \in Elems(table[j]) : x.k # k
  <2> TAKE j \in 1..Len(table)
  <2> HAVE j # i
  <2> TAKE x \in Elems(table[j])
  <2>1. x.k \in ChainKeys(table[j])
    BY DEF Elems, ChainKeys
  <2>2. IndexFor(TableLength, x.k) = j
    BY <1>1, <2>1 DEF Ready, Sorted
  <2>3. QED BY <2>2
<1> HIDE DEF i
<1>6. ASSUME NEW x PROVE x \in EntriesOf(Put(table, i, d)) <=> x \in Others(EntriesOf(table), k)
  <2>1. /\ x \in EntriesOf(table) <=> x \in Elems(c) \/ \E j \in 1..Len(table) : j # i /\ x \in Elems(table[j])
        /\ x \in EntriesOf(Put(table, i, d)) <=> x \in Elems(d) \/ \E j \in 1..Len(table) : j # i /\ x \in Elems(table[j])
    BY <1>1, <1>3, <1>4, PutEntries
  <2>2. QED BY <1>3, <1>5, <2>1 DEF Others
<1>7. QED BY <1>6 DEF i, c, d

LEMMA WithoutEntries ==
  ASSUME Ready, NEW k \in Keys
  PROVE  EntriesOf(Without(table, k)) = Others(EntriesOf(table), k)
<1>1. CASE Has(k)
  BY <1>1, WithoutIs, CutEntries
<1>2. CASE ~Has(k)
  <2>1. Without(table, k) = table /\ k \notin KeysOf(table)
    BY <1>2, HasIs DEF Without
  <2>2. KeysOf(table) = {x.k : x \in EntriesOf(table)}
    BY LengthIs, EntryKeys DEF Ready, TableLength
  <2>3. QED BY <2>1, <2>2 DEF Others
<1>3. QED BY <1>1, <1>2

LEMMA GatheredElems ==
  ASSUME NEW t \in Seq(Chains), NEW size, NEW i
  PROVE  LET S == PlacesFor(t, size, i) IN Elems(Gathered(t, S)) = {EntryAt(t, p) : p \in S}
<1> DEFINE S == PlacesFor(t, size, i)
<1> DEFINE c == Gathered(t, S)
<1> DEFINE m == Cardinality(S)
<1>1. IsFiniteSet(S) /\ S \subseteq Int \X Int /\ m \in Nat
  BY PlacesForFacts
<1> HIDE DEF S
<1>2. \A n \in 1..m : FromLast(S, n) \in S
  BY <1>1, FromLastIs
<1>3. Len(c) = m /\ \A n \in 1..m : c[n] = EntryAt(t, FromLast(S, n))
  <2>1. c = [n \in 1..m |-> EntryAt(t, FromLast(S, n))]
    BY DEF Gathered
  <2> HIDE DEF c, m
  <2>2. QED BY <1>1, <2>1
<1>4. ASSUME NEW p \in S PROVE \E n \in 1..m : c[n] = EntryAt(t, p)
  <2> DEFINE n == Rank(S, p)
  <2>1. n \in 1..m
    BY <1>1, RankType
  <2>2. FromLast(S, n) \in S /\ Rank(S, FromLast(S, n)) = n
    BY <1>1, <2>1, FromLastIs
  <2>3. FromLast(S, n) = p
    BY <1>1, <2>2, RankDistinct
  <2> HIDE DEF n, c, m
  <2>4. c[n] = EntryAt(t, p)
    BY <2>1, <2>3, <1>3
  <2>5. QED BY <2>1, <2>4
<1> HIDE DEF c, m
<1>5. Elems(c) = {c[n] : n \in 1..m}
  BY <1>3 DEF Elems
<1>6. QED BY <1>2, <1>3, <1>4, <1>5 DEF c, S

LEMMA RehashEntries ==
  ASSUME NEW size0 \in Sizes, NEW t, Sorted(t, size0), NEW size \in Sizes
  PROVE  EntriesOf(Rehashed(t, size)) = EntriesOf(t)
<1> DEFINE u == Rehashed(t, size)
<1> DEFINE S(i) == PlacesFor(t, size, i)
<1>1. t \in Seq(Chains) /\ u \in Seq(Chains) /\ Len(u) = size
  BY RehashSorted DEF Sorted
<1>2. \A i \in 1..size : u[i] = Gathered(t, S(i))
  BY DEF Rehashed, Gathered
<1>3. \A i \in 1..size : Elems(u[i]) = {EntryAt(t, p) : p \in S(i)}
  BY <1>1, <1>2, GatheredElems
<1>4. \A i \in 1..size : S(i) \subseteq Places(t)
  BY DEF PlacesFor
<1>5. \A p \in Places(t) : \E i \in 1..size : p \in S(i)
  <2> TAKE p \in Places(t)
  <2>1. EntryAt(t, p).k \in Keys
    BY <1>1, PlaceTypes DEF Entries
  <2>2. QED BY <2>1, IndexIn DEF PlacesFor
<1> HIDE DEF u, S
<1>6. EntriesOf(u) = UNION {Elems(u[i]) : i \in 1..size}
  BY <1>1, EntriesAre
<1>7. ASSUME NEW x PROVE x \in EntriesOf(u) <=> \E p \in Places(t) : x = EntryAt(t, p)
  <2>1. x \in EntriesOf(u) <=> \E i \in 1..size : \E p \in S(i) : x = EntryAt(t, p)
    BY <1>3, <1>6
  <2>2. QED BY <1>4, <1>5, <2>1
<1>8. QED BY <1>7 DEF EntriesOf, u

LEMMA InsertEntries ==
  ASSUME Ready, NEW t, Sorted(t, TableLength), NEW count, NEW k \in Keys, NEW v \in Values, k \notin KeysOf(t),
         InsertInto(t, count, k, v)
  PROVE  EntriesOf(table') = EntriesOf(t) \cup {[k |-> k, v |-> v]}
<1> DEFINE full == count + 1 > LoadLimit(TableLength)
<1> DEFINE room == IF full THEN Expanded(t) ELSE t
<1> DEFINE size == Len(room)
<1> DEFINE i == IndexFor(size, k)
<1> DEFINE x == [k |-> k, v |-> v]
<1>1. TableLength \in Sizes /\ TableLength = Primes[primeindex] /\ primeindex \in DOMAIN Primes
  BY LengthIs DEF Ready, TableLength
<1>2. /\ table' = Put(room, i, Consed(x, room[i]))
  BY DEF InsertInto, Put, Consed
<1>3. EntriesOf(Expanded(t)) = EntriesOf(t) /\ \E s \in Sizes : Sorted(Expanded(t), s)
  <2>1. CASE primeindex = Len(Primes)
    BY <1>1, <2>1 DEF Expanded
  <2>2. CASE primeindex # Len(Primes)
    <3>1. primeindex + 1 \in DOMAIN Primes
      BY <1>1, <2>2, LengthIs, LenProperties, TableAssumption
    <3>2. Primes[primeindex + 1] \in Sizes
      BY <3>1, LengthIs
    <3>3. Expanded(t) = Rehashed(t, Primes[primeindex + 1])
      BY <2>2 DEF Expanded
    <3>4. QED BY <1>1, <3>2, <3>3, RehashEntries, RehashSorted
  <2>3. QED BY <2>1, <2>2
<1>4. EntriesOf(room) = EntriesOf(t) /\ \E s \in Sizes : Sorted(room, s)
  <2> HIDE DEF full
  <2>1. QED BY <1>1, <1>3
<1> HIDE DEF room, full
<1>5. size \in Sizes /\ Sorted(room, size) /\ room \in Seq(Chains)
  BY <1>4 DEF Sorted
<1> HIDE DEF size
<1>6. x \in Entries /\ x.k = k
  BY DEF Entries
<1>7. i \in 1..size /\ room[i] \in Chains
  BY <1>5, IndexIn, TableFacts DEF Sorted
<1> HIDE DEF i, x
<1>8. Consed(x, room[i]) \in Chains /\ Elems(Consed(x, room[i])) = Elems(room[i]) \cup {x}
  BY <1>6, <1>7, ConsFacts, ConsElems
<1>9. i \in 1..Len(room)
  BY <1>7 DEF size
<1>10. ASSUME NEW y PROVE y \in EntriesOf(table') <=> y \in EntriesOf(t) \cup {x}
  <2>1. /\ y \in EntriesOf(room) <=> y \in Elems(room[i]) \/ \E j \in 1..Len(room) : j # i /\ y \in Elems(room[j])
        /\ y \in EntriesOf(Put(room, i, Consed(x, room[i]))) <=>
             y \in Elems(Consed(x, room[i])) \/ \E j \in 1..Len(room) : j # i /\ y \in Elems(room[j])
    BY <1>5, <1>8, <1>9, PutEntries
  <2>2. QED BY <1>2, <1>4, <1>8, <2>1
<1>11. QED BY <1>10 DEF x

LEMMA ChangedElems ==
  ASSUME NEW c \in Chains, NEW p \in 1..Len(c), NEW v \in Values, Distinct(c)
  PROVE  Elems(Changed(c, p, v)) = Others(Elems(c), c[p].k) \cup {[k |-> c[p].k, v |-> v]}
<1> DEFINE n == Len(c)
<1> DEFINE d == Changed(c, p, v)
<1> DEFINE x == [k |-> c[p].k, v |-> v]
<1>1. n \in Nat /\ c \in [1..n -> Entries] /\ p \in 1..n
  BY LenProperties, ChainFacts DEF Chains
<1>2. Len(d) = n
  BY ChangedFacts
<1>3. \A y \in Entries : [y EXCEPT !.v = v] = [k |-> y.k, v |-> v]
  BY DEF Entries
<1>4. d = [j \in 1..n |-> IF j = p THEN [c[j] EXCEPT !.v = v] ELSE c[j]]
  BY <1>1 DEF Changed
<1>5. \A j \in 1..n : d[j] = IF j = p THEN x ELSE c[j]
  <2> HIDE DEF d, n
  <2>1. QED BY <1>1, <1>3, <1>4
<1>6. \A j, l \in 1..n : c[j].k = c[l].k => j = l
  BY DEF Distinct
<1>7. Elems(c) = {c[j] : j \in 1..n} /\ Elems(d) = {d[j] : j \in 1..Len(d)}
  BY DEF Elems
<1> HIDE DEF d, n, x
<1>8. ASSUME NEW j \in 1..n PROVE d[j] \in Others(Elems(c), c[p].k) \cup {x}
  BY <1>1, <1>5, <1>6, <1>7 DEF Others
<1>9. ASSUME NEW j \in 1..n, c[j].k # c[p].k PROVE c[j] \in Elems(d)
  BY <1>1, <1>2, <1>5, <1>7, <1>9
<1>10. x \in Elems(d)
  BY <1>1, <1>2, <1>5, <1>7
<1>11. QED BY <1>2, <1>7, <1>8, <1>9, <1>10 DEF Others, d, x

LEMMA ChangeEntries ==
  ASSUME Ready, NEW k \in Keys, NEW v \in Values, Change(k, v)
  PROVE  EntriesOf(table') = Others(EntriesOf(table), k) \cup {[k |-> k, v |-> v]}
<1> DEFINE i == IndexFor(TableLength, k)
<1> DEFINE c == Chain(k)
<1> DEFINE d == Changed(c, Place(k), v)
<1> DEFINE x == [k |-> k, v |-> v]
<1>1. /\ i \in 1..TableLength /\ c \in Chains /\ Distinct(c) /\ TableLength \in Sizes
      /\ table \in Seq(Chains) /\ Len(table) = TableLength
  BY ChainIs
<1>2. Has(k) /\ table' = Put(table, i, d)
  BY DEF Change, Put, Changed, Chain
<1>3. Place(k) \in 1..Len(c) /\ c[Place(k)].k = k
  BY <1>2, HasIs
<1>4. d \in Chains /\ Elems(d) = Others(Elems(c), k) \cup {x}
  <2> HIDE DEF c
  <2>1. d \in Chains
    BY <1>1, <1>3, ChangedFacts
  <2>2. Elems(d) = Others(Elems(c), c[Place(k)].k) \cup {[k |-> c[Place(k)].k, v |-> v]}
    BY <1>1, <1>3, ChangedElems
  <2>3. QED BY <2>1, <2>2, <1>3
<1>5. table[i] = c
  BY DEF Chain
<1> HIDE DEF c, d, x
<1>6. \A j \in 1..Len(table) : j # i => \A y \in Elems(table[j]) : y.k # k
  <2> TAKE j \in 1..Len(table)
  <2> HAVE j # i
  <2> TAKE y \in Elems(table[j])
  <2>1. y.k \in ChainKeys(table[j])
    BY DEF Elems, ChainKeys
  <2>2. IndexFor(TableLength, y.k) = j
    BY <1>1, <2>1 DEF Ready, Sorted
  <2>3. QED BY <2>2
<1> HIDE DEF i
<1>7. ASSUME NEW y PROVE y \in EntriesOf(Put(table, i, d)) <=> y \in Others(EntriesOf(table), k) \cup {x}
  <2>1. /\ y \in EntriesOf(table) <=> y \in Elems(c) \/ \E j \in 1..Len(table) : j # i /\ y \in Elems(table[j])
        /\ y \in EntriesOf(Put(table, i, d)) <=> y \in Elems(d) \/ \E j \in 1..Len(table) : j # i /\ y \in Elems(table[j])
    BY <1>1, <1>4, <1>5, PutEntries
  <2>2. QED BY <1>4, <1>6, <2>1 DEF Others
<1>8. QED BY <1>2, <1>7 DEF x
LEMMA ItrRemoveEntries ==
  ASSUME HInv, ItrRemove
  PROVE  itr.e \in Keys /\ EntriesOf(table') = Others(EntriesOf(table), itr.e)
<1> DEFINE e == itr.e
<1>1. itr \in Iterators /\ Attached(table, itr)
  BY DEF HInv, WInv
<1>2. Ready /\ KeysOf(table) \subseteq Keys
  BY HInvFacts
<1>3. Settled /\ Live(e) /\ itr.index = IndexFor(TableLength, e)
  BY DEF ItrRemove, Settled
<1>4. e \in Keys /\ Has(e)
  <2>1. e \in KeysOf(table)
    BY <1>1, <1>3 DEF Attached, Live
  <2>2. QED BY <1>2, <2>1, HasIs
<1>5. Before(e, itr.parent) \o Behind(e) = Cut(Chain(e), Place(e))
  BY <1>1, <1>2, <1>3, <1>4, BeforeIs
<1>6. table' = Put(table, itr.index, Before(e, itr.parent) \o Behind(e))
  BY DEF ItrRemove, Put, Before
<1>7. table' = Put(table, IndexFor(TableLength, e), Cut(Chain(e), Place(e)))
  BY <1>3, <1>5, <1>6
<1>8. QED BY <1>2, <1>4, <1>7, CutEntries

-----------------------------------------------------------------------------
(* The dictionary that a set of entries makes.                             *)
DirectoryOf(E) == [k \in {x.k : x \in E} |-> (CHOOSE x \in E : x.k = k).v]

LEMMA DirectoryAt ==
  ASSUME NEW E, Single(E), NEW x \in E
  PROVE  x.k \in DOMAIN DirectoryOf(E) /\ DirectoryOf(E)[x.k] = x.v
<1> DEFINE y == CHOOSE y \in E : y.k = x.k
<1>1. y \in E /\ y.k = x.k
  OBVIOUS
<1>2. y = x
  <2> HIDE DEF y
  <2> QED BY <1>1 DEF Single
<1>3. x.k \in {z.k : z \in E}
  OBVIOUS
<1>4. QED BY <1>2, <1>3 DEF DirectoryOf

(* The names that a search finds, with what it finds, are the dictionary.  *)
Listed(t, size) ==
  [k \in {k \in Keys : Found(t[IndexFor(size, k)], k) # NULL} |-> Found(t[IndexFor(size, k)], k)]

LEMMA ListedIs ==
  ASSUME NEW size \in Sizes, NEW t, Sorted(t, size)
  PROVE  Listed(t, size) = DirectoryOf(EntriesOf(t))
<1> DEFINE E == EntriesOf(t)
<1>1. E \subseteq Entries
  BY EntriesAre DEF Sorted
<1>2. Single(E) /\ KeysOf(t) = {x.k : x \in E}
  BY EntryKeys
<1>3. \A k \in Keys : /\ \A x \in E : x.k = k => Found(t[IndexFor(size, k)], k) = x.v
                      /\ k \notin KeysOf(t) => Found(t[IndexFor(size, k)], k) = NULL
  BY FoundIs
<1> HIDE DEF E
<1>4. \A x \in E : x.k \in Keys /\ x.v # NULL
  BY <1>1, TableAssumption DEF Entries, NULL
<1>5. {k \in Keys : Found(t[IndexFor(size, k)], k) # NULL} = {x.k : x \in E}
  BY <1>2, <1>3, <1>4
<1>6. \A k \in {x.k : x \in E} : Found(t[IndexFor(size, k)], k) = (CHOOSE x \in E : x.k = k).v
  <2> TAKE k \in {x.k : x \in E}
  <2>1. PICK x \in E : x.k = k
    OBVIOUS
  <2>2. (CHOOSE y \in E : y.k = k) \in E /\ (CHOOSE y \in E : y.k = k).k = k
    BY <2>1
  <2>3. k \in Keys
    BY <1>4, <2>1
  <2>4. QED BY <1>3, <2>2, <2>3
<1>7. QED BY <1>5, <1>6 DEF Listed, DirectoryOf, E

LEMMA DirectoryNone == DirectoryOf({}) = <<>>
<1>1. {x.k : x \in {}} = {}
  OBVIOUS
<1>2. [k \in {} |-> (CHOOSE x \in {} : x.k = k).v] = <<>>
  OBVIOUS
<1>3. QED BY <1>1, <1>2 DEF DirectoryOf

LEMMA DirectoryLess ==
  ASSUME NEW E, Single(E), NEW k
  PROVE  DirectoryOf(Others(E, k)) = [m \in DOMAIN DirectoryOf(E) \ {k} |-> DirectoryOf(E)[m]]
<1> DEFINE F == Others(E, k)
<1>1. F \subseteq E /\ Single(F) /\ {x.k : x \in F} = {x.k : x \in E} \ {k}
  BY DEF Others, Single
<1>2. DOMAIN DirectoryOf(E) = {x.k : x \in E} /\ DOMAIN DirectoryOf(F) = {x.k : x \in F}
  BY DEF DirectoryOf
<1> HIDE DEF F
<1>3. \A m \in {x.k : x \in F} : DirectoryOf(F)[m] = DirectoryOf(E)[m]
  <2> TAKE m \in {x.k : x \in F}
  <2>1. PICK x \in F : x.k = m
    OBVIOUS
  <2>2. DirectoryOf(F)[x.k] = x.v
    BY <1>1, DirectoryAt
  <2>3. x \in E
    BY <1>1
  <2>4. DirectoryOf(E)[x.k] = x.v
    BY <2>3, DirectoryAt
  <2>5. QED BY <2>1, <2>2, <2>4
<1>4. DirectoryOf(F) = [m \in {x.k : x \in F} |-> DirectoryOf(F)[m]]
  BY DEF DirectoryOf
<1>5. QED BY <1>1, <1>2, <1>3, <1>4 DEF F

LEMMA DirectoryMore ==
  ASSUME NEW E, Single(E), NEW k, NEW v
  PROVE  DirectoryOf(Others(E, k) \cup {[k |-> k, v |-> v]}) =
           [m \in DOMAIN DirectoryOf(E) \cup {k} |-> IF m = k THEN v ELSE DirectoryOf(E)[m]]
<1> DEFINE new == [k |-> k, v |-> v]
<1> DEFINE F == Others(E, k) \cup {new}
<1>1. new.k = k /\ new.v = v
  OBVIOUS
<1> HIDE DEF new
<1>2. \A x \in F : x = new \/ (x \in E /\ x.k # k)
  BY DEF Others
<1>3. Single(F) /\ {x.k : x \in F} = {x.k : x \in E} \cup {k} /\ new \in F
  <2>1. Single(F)
    BY <1>1, <1>2 DEF Single
  <2>2. {x.k : x \in F} = {x.k : x \in E} \cup {k}
    BY <1>1 DEF Others
  <2>3. QED BY <2>1, <2>2
<1>4. DOMAIN DirectoryOf(E) = {x.k : x \in E} /\ DOMAIN DirectoryOf(F) = {x.k : x \in F}
  BY DEF DirectoryOf
<1> HIDE DEF F
<1>5. DirectoryOf(F)[k] = v
  BY <1>1, <1>3, DirectoryAt
<1>6. \A m \in {x.k : x \in F} : DirectoryOf(F)[m] = IF m = k THEN v ELSE DirectoryOf(E)[m]
  <2> TAKE m \in {x.k : x \in F}
  <2>1. CASE m = k
    BY <1>5, <2>1
  <2>2. CASE m # k
    <3>1. PICK x \in F : x.k = m
      OBVIOUS
    <3>2. x \in E
      BY <1>1, <1>2, <2>2, <3>1
    <3>3. DirectoryOf(F)[x.k] = x.v
      BY <1>3, DirectoryAt
    <3>4. DirectoryOf(E)[x.k] = x.v
      BY <3>2, DirectoryAt
    <3>5. QED BY <2>2, <3>1, <3>3, <3>4
  <2>3. QED BY <2>1, <2>2
<1>7. DirectoryOf(F) = [m \in {x.k : x \in F} |-> DirectoryOf(F)[m]]
  BY DEF DirectoryOf
<1>8. QED BY <1>3, <1>4, <1>6, <1>7 DEF F, new
=============================================================================
