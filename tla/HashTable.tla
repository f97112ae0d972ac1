------------------------------ MODULE HashTable ------------------------------
(***************************************************************************)
(* The hash table of argtable3, arg_hashtable.c: chains of entries in a    *)
(* table whose length is a prime of a fixed list, an iterator with a       *)
(* parent pointer, and removal while iterating.                            *)
(*                                                                         *)
(* A key stands for the entry that holds it, so a pointer to an entry is a *)
(* key; Freed is a pointer to an entry that is gone.                       *)
(***************************************************************************)
EXTENDS Integers, Sequences, FiniteSets, FiniteSetsExt

CONSTANTS
  Keys, Values,
  Hash,            \* enhanced_hash of a key
  Primes           \* the lengths a table may have

ASSUME TableAssumption ==
  /\ Hash \in [Keys -> Nat]
  /\ Keys \cap {"NULL", "freed", "unsure"} = {}   \* no entry is at these
  /\ "NULL" \notin Values                          \* every value is a pointer
  /\ Primes \in Seq(Nat \ {0}) /\ Primes # <<>>
  /\ \A i \in DOMAIN Primes : i > 1 => Primes[i - 1] < Primes[i]

NULL == "NULL"
Freed == "freed"

VARIABLES
  table,           \* table[i]: the chain of bucket i - 1, [k, v] each
  primeindex,      \* the place of its length in Primes
  entrycount,
  itr,             \* [on, index, e, parent]; on: the iterator exists
  seen,            \* the keys the iterator stood at since it was created
  present          \* the keys in the table all that time, or Unsure

hashvars == <<table, primeindex, entrycount, itr>>
history == <<seen, present>>

NoIterator == [on |-> FALSE, index |-> 1, e |-> NULL, parent |-> NULL]
Unsure == {"unsure"}   \* an expansion or a search broke the order of the walk

TableLength == Primes[primeindex]
LoadLimit(size) == (65 * size + 99) \div 100
IndexFor(size, k) == 1 + (Hash[k] % size)
EmptyTable(size) == [i \in 1..size |-> <<>>]

\* Each expansion makes room for one more entry at least.
ASSUME RoomAssumption ==
  \A i \in DOMAIN Primes : 1 < i /\ i < Len(Primes) => LoadLimit(Primes[i - 1]) < LoadLimit(Primes[i])

\* An entry's place is its bucket and its place in the chain.
Places(t) == UNION {{i} \X DOMAIN t[i] : i \in DOMAIN t}
EntryAt(t, p) == t[p[1]][p[2]]
KeysOf(t) == {EntryAt(t, p).k : p \in Places(t)}

\* The entry of a key is looked for in the chain of its hash only.
Chain(k) == table[IndexFor(TableLength, k)]
Has(k) == \E j \in DOMAIN Chain(k) : Chain(k)[j].k = k
Place(k) == Min({j \in DOMAIN Chain(k) : Chain(k)[j].k = k})
Search(k) == IF Has(k) THEN Chain(k)[Place(k)].v ELSE NULL

\* arg_hashtable_expand: the entries of each chain are taken from the front
\* and put in front of their new chain, so the last one taken comes first.
NotBefore(p, q) == p[1] > q[1] \/ (p[1] = q[1] /\ p[2] >= q[2])
PlacesFor(t, size, i) == {p \in Places(t) : IndexFor(size, EntryAt(t, p).k) = i}
FromLast(S, n) == CHOOSE p \in S : Cardinality({q \in S : NotBefore(q, p)}) = n
Rehashed(t, size) ==
  [i \in 1..size |->
     LET S == PlacesFor(t, size, i) IN [n \in 1..Cardinality(S) |-> EntryAt(t, FromLast(S, n))]]

\* Mistake: the entries stay in the chains of the old length.
BadExpanded(t) ==
  IF primeindex = Len(Primes) THEN t
  ELSE [i \in 1..Primes[primeindex + 1] |-> IF i \in DOMAIN t THEN t[i] ELSE <<>>]

Expanded(t) == IF primeindex = Len(Primes) THEN t ELSE Rehashed(t, Primes[primeindex + 1])

\* arg_hashtable_remove: the table without the first entry of the key.
Without(t, k) ==
  LET i == IndexFor(TableLength, k) IN
  IF Has(k) THEN [t EXCEPT ![i] = SubSeq(@, 1, Place(k) - 1) \o SubSeq(@, Place(k) + 1, Len(@))] ELSE t

\* Pointers to the entry of k dangle once it is freed.
Loosened(k) == [itr EXCEPT !.e = IF @ = k THEN Freed ELSE @, !.parent = IF @ = k THEN Freed ELSE @]
-----------------------------------------------------------------------------
\* The table after an insertion into t, which holds count entries.
InsertInto(t, count, k, v) ==
  LET full == count + 1 > LoadLimit(TableLength)
      room == IF full THEN Expanded(t) ELSE t
      i == IndexFor(Len(room), k)
  IN /\ table' = [room EXCEPT ![i] = <<[k |-> k, v |-> v]>> \o @]
     /\ primeindex' = IF Len(room) = Len(t) THEN primeindex ELSE primeindex + 1
     /\ entrycount' = count + 1

HashInit ==
  /\ primeindex = 1 /\ table = EmptyTable(Primes[1]) /\ entrycount = 0
  /\ itr = NoIterator /\ seen = <<>> /\ present = {}

RemoveKey(k) ==
  /\ table' = Without(table, k)
  /\ entrycount' = IF Has(k) THEN entrycount - 1 ELSE entrycount
  /\ itr' = IF Has(k) THEN Loosened(k) ELSE itr
  /\ present' = present \ {k}
  /\ UNCHANGED <<primeindex, seen>>

\* A key that may be there already is removed first (arg_cmd_register).
Replace(k, v) ==
  /\ InsertInto(Without(table, k), IF Has(k) THEN entrycount - 1 ELSE entrycount, k, v)
  /\ itr' = IF Has(k) THEN Loosened(k) ELSE itr
  /\ present' = IF primeindex' # primeindex THEN Unsure ELSE present \ {k}
  /\ seen' = IF present' = Unsure THEN <<>> ELSE seen

Change(k, v) ==
  /\ Has(k)
  /\ table' = [table EXCEPT ![IndexFor(TableLength, k)][Place(k)].v = v]
  /\ UNCHANGED <<primeindex, entrycount, itr, history>>

\* The first entry in the buckets from i on, and where: the table's length
\* when there is none.
FirstFrom(i) ==
  IF \E j \in i..Len(table) : table[j] # <<>>
  THEN LET j == Min({j \in i..Len(table) : table[j] # <<>>}) IN [index |-> j, e |-> table[j][1].k]
  ELSE [index |-> Len(table) + 1, e |-> NULL]

ItrCreate ==
  /\ ~itr.on
  /\ LET first == FirstFrom(1) IN
       /\ itr' = [on |-> TRUE, index |-> first.index, e |-> first.e, parent |-> NULL]
       /\ seen' = IF first.e = NULL THEN <<>> ELSE <<first.e>>
  /\ present' = KeysOf(table)
  /\ UNCHANGED <<table, primeindex, entrycount>>

ItrDestroy == itr.on /\ itr' = NoIterator /\ seen' = <<>> /\ present' = {} /\ UNCHANGED <<table, primeindex, entrycount>>

Live(e) == e \notin {NULL, Freed}

\* Mistake: the index is moved on twice.
BadAdvanced(from, behind) ==
  IF behind # <<>> THEN [from EXCEPT !.e = behind[1].k, !.parent = from.e]
  ELSE LET next == FirstFrom(from.index + 2) IN
       [from EXCEPT !.e = next.e, !.parent = NULL, !.index = next.index]

\* The iterator one entry on from an entry whose successors in its chain are
\* behind: within that chain, else at the next bucket that holds something.
Advanced(from, behind) ==
  IF behind # <<>> THEN [from EXCEPT !.e = behind[1].k, !.parent = from.e]
  ELSE LET next == FirstFrom(from.index + 1) IN
       [from EXCEPT !.e = next.e, !.parent = NULL, !.index = next.index]
Behind(k) == SubSeq(Chain(k), Place(k) + 1, Len(Chain(k)))
Saw(e) == seen' = IF e = NULL \/ present = Unsure THEN seen ELSE Append(seen, e)

\* (advancing from a freed entry is undefined: the caller must not)
ItrAdvance ==
  /\ itr.on /\ Live(itr.e)
  /\ itr' = Advanced(itr, Behind(itr.e))
  /\ Saw(itr'.e)
  /\ UNCHANGED <<table, primeindex, entrycount, present>>

ItrSearch(k) ==
  /\ itr.on /\ Has(k)
  /\ itr' = [on |-> TRUE, index |-> IndexFor(TableLength, k), e |-> k,
             parent |-> IF Place(k) = 1 THEN NULL ELSE Chain(k)[Place(k) - 1].k]
  /\ present' = Unsure /\ seen' = <<>>
  /\ UNCHANGED <<table, primeindex, entrycount>>

\* The position is as the iterator's own moves left it: nobody put an entry
\* between it and its parent or rebuilt the table.
Settled ==
  /\ Live(itr.e) /\ itr.index = IndexFor(TableLength, itr.e) /\ itr.parent # Freed
  /\ IF itr.parent = NULL THEN Place(itr.e) = 1
     ELSE Place(itr.e) > 1 /\ Chain(itr.e)[Place(itr.e) - 1].k = itr.parent

\* Mistake: the parent pointer is not corrected.
BadStepped(old, next) == next
\* The removed entry must not become the parent of the next one.
Stepped(old, next) == IF next.parent = old.e THEN [next EXCEPT !.parent = old.parent] ELSE next

\* arg_hashtable_itr_remove; its callers remove only what the iterator has
\* just come to.
ItrRemove ==
  /\ itr.on /\ Settled
  /\ LET behind == Behind(itr.e)
         before == IF itr.parent = NULL THEN <<>> ELSE SubSeq(Chain(itr.e), 1, Place(itr.parent))
     IN /\ table' = [table EXCEPT ![itr.index] = before \o behind]
        /\ itr' = Stepped(itr, Advanced(itr, behind))
  /\ entrycount' = entrycount - 1
  /\ Saw(itr'.e)
  /\ present' = present \ {itr.e}
  /\ primeindex' = primeindex
-----------------------------------------------------------------------------
\* Every entry is found where its hash says, no key has two entries, the count
\* is right, and the load limit holds as long as there is a larger prime: after
\* any sequence of registrations, removals, expansions (which reverse chains)
\* and removals through the iterator (arg_hashtable_insert, _expand, _remove,
\* _itr_remove).
Consistent ==
  /\ Len(table) = TableLength
  /\ \A p \in Places(table) : IndexFor(TableLength, EntryAt(table, p).k) = p[1]
  /\ \A p, q \in Places(table) : EntryAt(table, p).k = EntryAt(table, q).k => p = q
  /\ entrycount = Cardinality(Places(table))
  /\ primeindex < Len(Primes) => entrycount <= LoadLimit(TableLength)

\* An iterator never keeps a pointer to an entry it removed itself: unless
\* somebody else freed the entry, both its pointers lead into the table, also
\* after an expansion moved everything under it (the correction in
\* arg_hashtable_itr_remove).
IteratorAttached ==
  itr.on => \A p \in {itr.e, itr.parent} \ {NULL, Freed} : Has(p)

\* A walk that ends has stood exactly once at every entry that was there all
\* the time, whatever was added, removed or replaced meanwhile, as long as the
\* table was not rebuilt (arg_hashtable_itr_advance).
WalkComplete ==
  itr.on /\ itr.e = NULL /\ present # Unsure =>
    \A k \in present : Cardinality({i \in DOMAIN seen : seen[i] = k}) = 1
=============================================================================
