---------------------------- MODULE WriteBuffer ----------------------------
(***************************************************************************)
(* iow/io/aux/write_buffer: the queue of outgoing chunks of a stream       *)
(* writer, as operators on the value of the object.                        *)
(*                                                                         *)
(* Bytes are named by their position in the stream of everything attached  *)
(* since the last clear, so a chunk is a run of positions lo .. hi-1.  A   *)
(* chunk also has the capacity of its std::vector: vector::reserve moves   *)
(* the bytes to new storage exactly when it makes the capacity grow, so    *)
(* the pair <<lo, cap>> names the storage a chunk occupies.                *)
(***************************************************************************)
EXTENDS Naturals, Sequences

CONSTANTS
  SepSize,      \* length of the separator appended to each attached block
  OptBufsize, OptMaxbuf, OptMinbuf,   \* options as written by the user
  MaxSize,      \* limit of the unsent bytes, 0 for none
  FirstAsIs,    \* the first block of a chunk is offered whole
  DefBufsize, DefMinbuf   \* what set_options puts for a zero (4096 and 128)

ASSUME WriteOptionsAssumption ==
  /\ SepSize \in Nat /\ OptBufsize \in Nat /\ OptMaxbuf \in Nat
  /\ OptMinbuf \in Nat /\ MaxSize \in Nat /\ FirstAsIs \in BOOLEAN
  /\ DefBufsize \in Nat \ {0} /\ DefMinbuf \in Nat \ {0}

(* set_options: the values the object works with. *)
Bufsize == IF OptBufsize = 0 THEN DefBufsize ELSE OptBufsize
Maxbuf  == IF OptMaxbuf < Bufsize THEN Bufsize ELSE OptMaxbuf
Minbuf  == LET m == IF OptMinbuf = 0 THEN DefMinbuf ELSE OptMinbuf
           IN  IF m > Bufsize THEN Bufsize ELSE m

Chunk  == [lo : Nat, hi : Nat, cap : Nat]
Buffer == [size : Nat, offset : Nat, wait : Nat, list : Seq(Chunk)]

Length(c)  == c.hi - c.lo
Storage(c) == <<c.lo, c.cap>>

(* The state after construction and after clear(). *)
EmptyBuffer == [size |-> 0, offset |-> 0, wait |-> 0, list |-> <<>>]

Overflow(b) == MaxSize # 0 /\ b.size > MaxSize

Ready(b) == b.wait = 0 /\ b.list # <<>>

(* vector::reserve(n): the capacity never shrinks. *)
Reserve(cap, n) == IF cap < n THEN n ELSE cap

(* addsep_(d, true): the separator at the end of a block of its own. *)
WithSep(d) == [lo  |-> d.lo,
               hi  |-> d.hi + SepSize,
               cap |-> Reserve(d.cap, Length(d) + SepSize)]

(* attach() when the bytes of d are copied to the end of the last chunk. *)
Coalesced(last, d) ==
  [lo  |-> last.lo,
   hi  |-> last.hi + Length(d) + SepSize,
   cap |-> Reserve(last.cap, Length(last) + Length(d) + SepSize)]

(* attach() joins d to the last chunk instead of queueing it. *)
Joins(last, d) == /\ Length(last) < Minbuf
                  /\ Length(last) + Length(d) + SepSize < Maxbuf

Ignored(d) == Length(d) = 0 /\ SepSize = 0

(* attach() changes the size and the list only. *)
Queued(b, size, list) == [size |-> size, offset |-> b.offset,
                          wait |-> b.wait, list |-> list]

(* Mutant of Attach: the separator is not counted in _size. *)
AttachSepUncounted(b, d) ==
  LET n    == Len(b.list)
      size == b.size + Length(d)
  IN  IF Ignored(d) THEN b
      ELSE IF n # 0 /\ Joins(b.list[n], d)
      THEN Queued(b, size, [b.list EXCEPT ![n] = Coalesced(@, d)])
      ELSE Queued(b, size, Append(b.list, WithSep(d)))

(* Mutant of Attach: the block is joined to the front chunk. *)
AttachJoinsFront(b, d) ==
  LET size == b.size + Length(d) + SepSize
  IN  IF Ignored(d) THEN b
      ELSE IF b.list # <<>> /\ Joins(b.list[1], d)
      THEN Queued(b, size, [b.list EXCEPT ![1] = Coalesced(@, d)])
      ELSE Queued(b, size, Append(b.list, WithSep(d)))

Attach(b, d) ==
  LET n    == Len(b.list)
      size == b.size + Length(d) + SepSize
  IN  IF Ignored(d) THEN b
      ELSE IF n # 0 /\ Joins(b.list[n], d)
      THEN Queued(b, size, [b.list EXCEPT ![n] = Coalesced(@, d)])
      ELSE Queued(b, size, Append(b.list, WithSep(d)))

(* Mutant of CurSize: what is already written is forgotten. *)
CurSizeWhole(b) == Length(b.list[1])

(* cur_size_(): how much of the front chunk the next write may take. *)
CurSize(b) ==
  LET rest == Length(b.list[1]) - b.offset
  IN  IF ~(FirstAsIs /\ b.offset = 0) /\ rest > Maxbuf THEN Maxbuf ELSE rest

Next(b) == IF Ready(b) THEN [b EXCEPT !.wait = CurSize(b)] ELSE b

(* confirm(p) with p.second = n returns true. *)
CanConfirm(b, n) == b.wait # 0 /\ b.size >= n

(* Mutant of Confirm: _wait is reset only with the end of a chunk. *)
ConfirmWaitsForChunk(b, n) ==
  LET done == b.offset + n = Length(b.list[1])
  IN  IF ~CanConfirm(b, n) THEN b
      ELSE [size   |-> b.size - n,
            offset |-> IF done THEN 0 ELSE b.offset + n,
            wait   |-> IF done THEN 0 ELSE b.wait,
            list   |-> IF done THEN Tail(b.list) ELSE b.list]

Confirm(b, n) ==
  LET done == b.offset + n = Length(b.list[1])
  IN  IF ~CanConfirm(b, n) THEN b
      ELSE [size   |-> b.size - n,
            offset |-> IF done THEN 0 ELSE b.offset + n,
            wait   |-> 0,
            list   |-> IF done THEN Tail(b.list) ELSE b.list]

(* rollback(): the test is on _wait != 0, so nothing ever changes. *)
Rollback(b) == IF b.wait # 0 THEN b ELSE [b EXCEPT !.wait = 0]
=============================================================================
