---------------------------- MODULE DynamicString ----------------------------
(***************************************************************************)
(* The growing string of argtable3, arg_dstr.c.  Its text is in the small  *)
(* buffer inside the structure, in an append buffer on the heap, or in a   *)
(* string that was handed in, with the function that frees it.  The        *)
(* functions here map one structure to the next.                           *)
(*                                                                         *)
(* live counts the heap blocks the structure is answerable for: it goes up *)
(* with every xmalloc and every string handed in for freeing, and down     *)
(* with every xfree and every call of a caller's free function.            *)
(***************************************************************************)
EXTENDS Integers, Sequences, FiniteSetsExt

CONSTANTS
  Chars,           \* the characters of texts
  ARG_DSTR_SIZE,   \* the longest text the small buffer holds
  SmallSpace,      \* below this many characters (100 in the code) ...
  FirstSpace,      \* ... an append buffer has this many (200)
  BigSpace,        \* an unused append buffer beyond this size is freed (500)
  START_VSNBUFF    \* the least buffer arg_dstr_catf formats into

ASSUME SizesAssumption ==
  /\ {ARG_DSTR_SIZE, SmallSpace, FirstSpace, BigSpace, START_VSNBUFF} \subseteq Nat \ {0}
  /\ SmallSpace < FirstSpace

NUL == "\\0"
ASSUME CharsAssumption == NUL \notin Chars
Null == <<NUL>>       \* no string at all
FreeProcs == {"static", "volatile", "dynamic", "caller"}

\* The characters of a buffer up to its terminator, and a text in a buffer
\* that was cleared before.
TextOf(cells) == SubSeq(cells, 1, Min({i \in DOMAIN cells : cells[i] = NUL} \cup {Len(cells) + 1}) - 1)
Padded(text, size) == [i \in 1..size |-> IF i <= Len(text) THEN text[i] ELSE NUL]

\* data is "sbuf", "append" or "given"; append is <<>> when append_data is
\* NULL, its length is append_data_size; given is the string handed in.
Created == [data |-> "sbuf", free_proc |-> "static", sbuf |-> <<>>, given |-> Null,
            append |-> <<>>, append_used |-> 0, live |-> 0]

Dangling(ds) == (ds.data = "append" /\ ds.append = <<>>) \/ (ds.data = "given" /\ ds.given = Null)

CStr(ds) ==
  IF Dangling(ds) THEN <<>>
  ELSE CASE ds.data = "sbuf" -> ds.sbuf
         [] ds.data = "given" -> ds.given
         [] ds.data = "append" -> TextOf(ds.append)

DropAppend(ds) == IF ds.append = <<>> THEN ds ELSE [ds EXCEPT !.append = <<>>, !.live = @ - 1]

\* arg_dstr_free: the text itself is gone, data still points to it.
Free(ds) ==
  IF ds.free_proc = "static" THEN ds
  ELSE [ds EXCEPT !.free_proc = "static", !.given = Null, !.live = @ - 1]

Reset(ds) == [DropAppend(Free(ds)) EXCEPT !.data = "sbuf", !.sbuf = <<>>]

\* What data and free_proc become in arg_dstr_set, a copy having been made of
\* a volatile text.
Taken(ds, str, free_proc) ==
  LET small == [ds EXCEPT !.data = "sbuf", !.free_proc = "static"]
      other == [ds EXCEPT !.data = "given", !.given = str]
  IN CASE str = Null -> [small EXCEPT !.sbuf = <<>>]
       [] str # Null /\ free_proc = "volatile" /\ Len(str) <= ARG_DSTR_SIZE -> [small EXCEPT !.sbuf = str]
       [] str # Null /\ free_proc = "volatile" /\ Len(str) > ARG_DSTR_SIZE ->
            [other EXCEPT !.free_proc = "dynamic", !.live = @ + 1]
       [] OTHER -> [other EXCEPT !.free_proc = free_proc, !.live = IF free_proc = "static" THEN @ ELSE @ + 1]

Set(ds, str, free_proc) ==
  LET new == Taken(ds, str, free_proc)
      old == IF ds.free_proc = "static" THEN new ELSE [new EXCEPT !.live = @ - 1]
  IN DropAppend(old)

\* setup_append_buf: an append buffer with the present text in it and room for
\* newSpace more characters becomes the data.
Measured(ds) ==
  LET own == ds.data = "append"
      kept == IF ~own /\ Len(ds.append) > BigSpace THEN DropAppend(ds) ELSE ds
  IN IF ~own \/ ds.append[ds.append_used + 1] # NUL
     THEN [kept EXCEPT !.append_used = Len(CStr(kept))] ELSE ds

SetupAppendBuf(ds, newSpace) ==
  LET m == Measured(ds)
      total == newSpace + m.append_used
      size == IF total < SmallSpace THEN FirstSpace ELSE 2 * total
      ready == IF total >= Len(m.append)
               THEN [m EXCEPT !.append = Padded(CStr(m), size),
                              !.live = IF m.append = <<>> THEN @ + 1 ELSE @]
               ELSE IF m.data # "append" /\ m.append # <<>>
                    THEN [m EXCEPT !.append = Padded(CStr(m), Len(m.append))] ELSE m
  IN [Free(ready) EXCEPT !.data = "append"]

\* The characters are copied over the terminator, and no new one is written:
\* the rest of the buffer must be zero.
Copied(ds, str) ==
  LET used == Len(CStr(ds)) IN
  [ds EXCEPT !.append = [i \in DOMAIN @ |-> IF i - used \in DOMAIN str THEN str[i - used] ELSE @[i]]]

\* Mistake: the space for the terminator is forgotten.
BadCat(ds, str) == Copied(SetupAppendBuf(ds, Len(str) - 1), str)

Cat(ds, str) == Copied(SetupAppendBuf(ds, Len(str) + 1), str)
Catc(ds, c) == Copied(SetupAppendBuf(ds, 2), <<c>>)

\* The size at which the output of the format fits with room to spare: the
\* first guess, what vsnprintf reports then, or twice that.  The loop goes
\* round twice at most.  What does not fit is cut off by vsnprintf.
Fits(n, length) == Min({length, n}) < n
Larger(n, length) == IF length > n THEN length ELSE n + n
Round(n, length) == IF Fits(n, length) THEN n ELSE Larger(n, length)
FormatSize(fmt, length) == Round(Round(Max({2 * fmt, START_VSNBUFF}), length), length)
Catf(ds, fmt, output) ==
  LET n == FormatSize(fmt, Len(output)) IN Cat(ds, SubSeq(output, 1, Min({n, Len(output)})))
=============================================================================
