----------------------------- MODULE ReadBuffer -----------------------------
(***************************************************************************)
(* iow/io/aux/read_buffer: incoming bytes cut into blocks at a separator,  *)
(* as operators on the value of the object.                                *)
(*                                                                         *)
(* Buffers are numbered from 1, and 0 stands for the ~0ul of _readbuf.  A  *)
(* buffer is its contents and an id, the address the confirmed pointer is  *)
(* compared with; Junk is what a byte holds that nothing was read into.    *)
(* Every buffer has the capacity Bufsize: next() never resizes beyond it.  *)
(***************************************************************************)
EXTENDS Naturals, SequencesExt

CONSTANTS
  Options,      \* the options users write, as records (see below)
  Alphabet,     \* the bytes that may arrive
  DefBufsize,   \* what set_options puts for a zero (4096)
  Junk

ASSUME ReadOptionsAssumption ==
  /\ \A o \in Options : o \in
       [sep : Seq(Alphabet),   \* <<>> for none
        bufsize : Nat, maxbuf : Nat, minbuf : Nat,
        maxsize : Nat,         \* limit of the allocated capacity, 0 for none
        trimsep : BOOLEAN]     \* blocks are handed out without separator
  /\ Junk \notin Alphabet /\ DefBufsize \in Nat \ {0}

VARIABLE opt     \* the members that set_options assigns

(* set_options: a zero minbuf takes maxbuf as it was written. *)
SetOptions(o) ==
  LET size == IF o.bufsize = 0 THEN DefBufsize ELSE o.bufsize
      min  == IF o.minbuf = 0 THEN o.maxbuf ELSE o.minbuf
  IN  [o EXCEPT !.bufsize = size, !.minbuf = IF min > size THEN size ELSE min]

Sep     == opt.sep
TrimSep == opt.trimsep
Bufsize == opt.bufsize
Minbuf  == opt.minbuf
MaxSize == opt.maxsize

Buffer == [size : Nat, offset : Nat, readbuf : Nat, readpos : Nat,
           parsebuf : Nat \ {0}, parsepos : Nat,
           buffers : Seq([id : Nat, data : Seq(Alphabet \cup {Junk})])]

(* The state after construction and after clear(). *)
EmptyBuffer == [size |-> 0, offset |-> 0, readbuf |-> 0, readpos |-> 0,
                parsebuf |-> 1, parsepos |-> 0, buffers |-> <<>>]

Waiting(b) == b.readbuf # 0

Overflow(b) == MaxSize # 0 /\ Len(b.buffers) * Bufsize > MaxSize

Unread(n) == [i \in 1 .. n |-> Junk]

FreshId(b) == CHOOSE i \in 1 .. Len(b.buffers) + 1 :
                \A k \in 1 .. Len(b.buffers) : b.buffers[k].id # i

(* create_for_next_(): a cursor at the end of the last buffer moves on.    *)
CreateForNext(b) ==
  LET n      == Len(b.buffers)
      parsed == n # 0 /\ b.parsebuf = n /\ b.parsepos = Len(b.buffers[n].data)
  IN  [b EXCEPT !.parsebuf = IF parsed THEN n + 1 ELSE @,
                !.parsepos = IF parsed THEN 0 ELSE @,
                !.readbuf = n + 1, !.readpos = 0,
                !.buffers = Append(@, [id |-> FreshId(b),
                                       data |-> Unread(Bufsize)])]

(* next(): the free tail of the last buffer, or a new buffer. *)
Next(b) ==
  LET n    == Len(b.buffers)
      used == Len(b.buffers[n].data)
      room == Bufsize - used
  IN  IF Waiting(b) THEN b
      ELSE IF n # 0 /\ room > Minbuf /\ Minbuf # 0
      THEN [b EXCEPT !.readbuf = n, !.readpos = used,
                     !.buffers[n].data = @ \o Unread(room)]
      ELSE CreateForNext(b)

(* The data_pair that next() returned. *)
Window(b) == [id  |-> b.buffers[b.readbuf].id, pos |-> b.readpos,
              len |-> Len(b.buffers[b.readbuf].data) - b.readpos]

(* The kernel stores bytes at the address of window w. *)
Store(b, w, bytes) ==
  LET written(d) == [i \in DOMAIN d |-> IF i \in w.pos + 1 .. w.pos + Len(bytes)
                                        THEN bytes[i - w.pos] ELSE d[i]]
  IN  [b EXCEPT !.buffers = [k \in DOMAIN @ |->
         IF @[k].id # w.id THEN @[k] ELSE [id |-> w.id, data |-> written(@[k].data)]]]

(* confirm({w, n}) returns true. *)
CanConfirm(b, w, n) ==
  /\ Waiting(b) /\ b.readbuf <= Len(b.buffers)
  /\ n > 0 => /\ b.buffers[b.readbuf].id = w.id /\ b.readpos = w.pos
              /\ b.readpos + n <= Len(b.buffers[b.readbuf].data)

(* Mutant of Confirm: the unread tail of the window is not cut off. *)
ConfirmKeepsTail(b, w, n) ==
  IF ~CanConfirm(b, w, n) THEN b
  ELSE [b EXCEPT !.size = @ + n, !.readbuf = 0, !.readpos = 0]

Confirm(b, w, n) ==
  LET r    == b.readbuf
      kept == SubSeq(b.buffers[r].data, 1, b.readpos + n)
  IN  IF ~CanConfirm(b, w, n) THEN b
      ELSE [b EXCEPT !.size = @ + n, !.readbuf = 0, !.readpos = 0,
                     !.buffers = IF kept = <<>> THEN RemoveAt(@, r)
                                 ELSE [@ EXCEPT ![r].data = kept]]

Rollback(b, w) == Confirm(b, w, 0)
-----------------------------------------------------------------------------
(* begin_(i) and end_(i), as numbers of bytes from the buffer's start. *)
Begin(b, i) == IF i = 1 THEN b.offset ELSE 0
End(b, i)   == IF i = b.readbuf THEN b.readpos ELSE Len(b.buffers[i].data)

(* The bytes dec_() walks back over in buffer i: last_() enters a buffer   *)
(* at its last byte, even behind an offset that has consumed it all.       *)
Behind(b, i) ==
  LET d == b.buffers[i].data
  IN  IF Begin(b, i) = Len(d) THEN d ELSE SubSeq(d, Begin(b, i) + 1, End(b, i))

(* Mutant of IsSepAt: a separator is looked for in one buffer only. *)
IsSepInBuffer(b, i, p) ==
  IsSuffix(Sep, SubSeq(b.buffers[i].data, Begin(b, i) + 1, p))

(* check_sep_(): a separator ends with byte p of buffer i. *)
IsSepAt(b, i, p) ==
  IsSuffix(Sep, FlattenSeq([k \in 1 .. i |->
    IF k = i THEN SubSeq(b.buffers[i].data, Begin(b, i) + 1, p)
    ELSE Behind(b, k)]))

NotFound == [buf |-> 0, pos |-> 0]

(* nosep_search_(): everything up to the last byte read. *)
NosepSearch(b) ==
  LET n == Len(b.buffers)
  IN  IF b.offset # 0 /\ b.parsebuf = 1 /\ b.offset = b.parsepos THEN NotFound
      ELSE IF b.readbuf = 0 THEN [buf |-> n, pos |-> Len(b.buffers[n].data)]
      ELSE IF b.readpos # 0 THEN [buf |-> b.readbuf, pos |-> b.readpos]
      ELSE IF b.readbuf # 1
      THEN [buf |-> b.readbuf - 1, pos |-> Len(b.buffers[b.readbuf - 1].data)]
      ELSE NotFound

(* search_() with a separator: its first end past the parse cursor. *)
SepSearch(b) ==
  LET from(i) == IF i = b.parsebuf THEN b.parsepos ELSE Begin(b, i)
      toparse == IF Waiting(b) /\ b.readpos = 0 THEN Len(b.buffers) - 1
                 ELSE Len(b.buffers)
      ends(i) == {p \in from(i) + 1 .. End(b, i) : IsSepAt(b, i, p)}
      hits    == {i \in b.parsebuf .. toparse : ends(i) # {}}
      first   == Min(hits)
  IN  IF \/ b.readbuf = b.parsebuf /\ b.readpos = b.parsepos
         \/ Len(b.buffers[b.parsebuf].data) = b.parsepos
         \/ hits = {}
      THEN NotFound
      ELSE [buf |-> first, pos |-> Min(ends(first))]

Search(b) == IF Sep = <<>> THEN NosepSearch(b) ELSE SepSearch(b)

(* Mutant of Cut: what the first buffer has handed out is not skipped. *)
CutFromStart(b, at) ==
  FlattenSeq([k \in 1 .. at.buf |->
    SubSeq(b.buffers[k].data, 1, IF k = at.buf THEN at.pos ELSE End(b, k))])

(* make_result_(): the bytes not handed out yet, up to the place found. *)
Cut(b, at) ==
  FlattenSeq([k \in 1 .. at.buf |->
    SubSeq(b.buffers[k].data, Begin(b, k) + 1,
           IF k = at.buf THEN at.pos ELSE End(b, k))])

(* Mutant of Prepare: _readbuf keeps its number when buffers are dropped. *)
PrepareStaleReadbuf(b, at) ==
  LET whole == at.pos = Len(b.buffers[at.buf].data)
      gone  == IF whole THEN at.buf ELSE at.buf - 1
      rest  == IF whole THEN 0 ELSE at.pos
  IN  [b EXCEPT !.buffers = SubSeq(@, gone + 1, Len(@)),
                !.parsebuf = 1, !.parsepos = rest, !.offset = rest]

(* prepare_(): the buffers handed out to their end are dropped. *)
Prepare(b, at) ==
  LET whole == at.pos = Len(b.buffers[at.buf].data)
      gone  == IF whole THEN at.buf ELSE at.buf - 1
      rest  == IF whole THEN 0 ELSE at.pos
  IN  [b EXCEPT !.buffers = SubSeq(@, gone + 1, Len(@)),
                !.readbuf = IF Waiting(b) THEN @ - gone ELSE @,
                !.parsebuf = 1, !.parsepos = rest, !.offset = rest]

(* A failed search leaves the cursor at the end of what has been read. *)
ParsedAll(b) ==
  LET n == Len(b.buffers)
  IN  IF Waiting(b) THEN [b EXCEPT !.parsebuf = b.readbuf, !.parsepos = b.readpos]
      ELSE [b EXCEPT !.parsebuf = n, !.parsepos = Len(b.buffers[n].data)]

Trimmed(block) ==
  IF TrimSep /\ Len(block) >= Len(Sep)
  THEN SubSeq(block, 1, Len(block) - Len(Sep)) ELSE block

(* Mutant of Detach: _size is reduced by the block without its separator. *)
DetachTrimmedSize(b) ==
  LET at  == Search(b)
      cut == Cut(b, at)
  IN  IF b.buffers = <<>> THEN [found |-> FALSE, block |-> <<>>, buf |-> b]
      ELSE IF at = NotFound
      THEN [found |-> FALSE, block |-> <<>>, buf |-> ParsedAll(b)]
      ELSE [found |-> TRUE, block |-> Trimmed(cut),
            buf |-> [Prepare(b, at) EXCEPT !.size = @ - Len(Trimmed(cut))]]

(* detach(): the block, if one is found, and the buffer after the call. *)
Detach(b) ==
  LET at  == Search(b)
      cut == Cut(b, at)
  IN  IF b.buffers = <<>> THEN [found |-> FALSE, block |-> <<>>, buf |-> b]
      ELSE IF at = NotFound
      THEN [found |-> FALSE, block |-> <<>>, buf |-> ParsedAll(b)]
      ELSE [found |-> TRUE, block |-> Trimmed(cut),
            buf |-> [Prepare(b, at) EXCEPT !.size = @ - Len(cut)]]
=============================================================================
