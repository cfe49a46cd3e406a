------------------------------- MODULE Writer -------------------------------
(***************************************************************************)
(* iow/io/writer over a write_buffer: the write loop of one stream         *)
(* connection.  Every action runs under the connection's mutex; the asio   *)
(* operation (op) and the kernel are the environment.                      *)
(*                                                                         *)
(* accepted and sent count the bytes attached and reported written since   *)
(* start; blocked remembers that an operation ended with would_block.      *)
(***************************************************************************)
EXTENDS WriteBuffer

CONSTANTS Sizes,     \* payload sizes of an output block
          Slacks,    \* spare capacity of the block's vector
          MaxBytes   \* bound on the bytes accepted in one session

ASSUME WriterBounds == /\ Sizes \subseteq Nat /\ Slacks \subseteq Nat
                       /\ MaxBytes \in Nat

VARIABLES buf, accepted, sent, op, open, blocked

vars == <<buf, accepted, sent, op, open, blocked>>

(* The outstanding async_write_some: the stream position and the length of *)
(* its bytes, the storage they were in when it was issued, and how many    *)
(* the kernel has copied (0 before it looks at them).  len = 0: none.      *)
Op   == [pos : Nat, len : Nat, moved : Nat, storage : Nat \X Nat]
NoOp == [pos |-> 0, len |-> 0, moved |-> 0, storage |-> <<0, 0>>]

Init == /\ buf = EmptyBuffer /\ accepted = 0 /\ sent = 0
        /\ op = NoOp /\ open = TRUE /\ blocked = FALSE

(* The asio operation that ad_some starts for next() on buffer b. *)
OpFor(b) == [pos     |-> b.list[1].lo + b.offset,
             len     |-> CurSize(b),
             moved   |-> 0,
             storage |-> Storage(b.list[1])]

(* ad_more: a write starts when next() gives a block, else nothing. *)
More(b, current) ==
  /\ buf' = Next(b)
  /\ op'  = IF Ready(b) THEN OpFor(b) ELSE current

(* io_base stop: the descriptor is closed, the buffer cleared and the      *)
(* handlers of the session dropped by the owner.                           *)
Stopped == /\ buf' = EmptyBuffer /\ op' = NoOp /\ open' = FALSE
           /\ UNCHANGED <<accepted, sent, blocked>>

Block(n, slack) == [lo |-> accepted, hi |-> accepted + n, cap |-> n + slack]

(* ad_output: attach, the overflow check with its stop, and more. *)
Output(n, slack) ==
  LET d == Block(n, slack)
      b == Attach(buf, d)
  IN  /\ open
      /\ accepted + n + SepSize <= MaxBytes
      /\ IF Overflow(b) THEN Stopped
         ELSE /\ More(b, op)
              /\ accepted' = IF Ignored(d) THEN accepted
                             ELSE accepted + n + SepSize
              /\ UNCHANGED <<sent, open, blocked>>

(* The kernel copies k bytes of the operation's window. *)
Transmit(k) == /\ op.len > 0 /\ op.moved = 0
               /\ op' = [op EXCEPT !.moved = k]
               /\ UNCHANGED <<buf, accepted, sent, open, blocked>>

(* Mutant of Complete: confirm without more. *)
CompleteNoMore == /\ op.moved > 0
                  /\ sent' = sent + op.moved
                  /\ buf' = Confirm(buf, op.moved) /\ op' = NoOp
                  /\ UNCHANGED <<accepted, open, blocked>>

(* ad_write_handler without error: ad_complete, confirm and more. *)
Complete == /\ op.moved > 0
            /\ sent' = sent + op.moved
            /\ More(Confirm(buf, op.moved), NoOp)
            /\ UNCHANGED <<accepted, open, blocked>>

(* ad_error_handler, operation_would_block: rollback and more. *)
WouldBlock == /\ op.len > 0 /\ op.moved = 0
              /\ More(Rollback(buf), NoOp)
              /\ blocked' = TRUE
              /\ UNCHANGED <<accepted, sent, open>>

(* ad_error_handler, any other error: rollback, on_error and stop. *)
Fail == op.len > 0 /\ op.moved = 0 /\ Stopped

(* The user, the peer or the read side stops the connection. *)
Stop == open /\ Stopped

(* io_base start after a stop: the buffer is as clear() left it. *)
Start == /\ ~open /\ open' = TRUE /\ blocked' = FALSE
         /\ accepted' = 0 /\ sent' = 0
         /\ UNCHANGED <<buf, op>>

WriterNext ==
  \/ \E n \in Sizes, slack \in Slacks : Output(n, slack)
  \/ \E k \in 1 .. op.len : Transmit(k)
  \/ Complete \/ WouldBlock \/ Fail \/ Stop \/ Start

Spec == Init /\ [][WriterNext]_vars

(* The kernel looks at an operation and asio runs its completion. *)
Fairness == /\ WF_vars(\E k \in 1 .. op.len : Transmit(k))
            /\ WF_vars(Complete)

FairSpec == Spec /\ Fairness
-----------------------------------------------------------------------------
(* The buffer, the operation and the counts keep their types. *)
TypeOK == /\ buf \in Buffer /\ accepted \in Nat /\ sent \in Nat
          /\ op \in Op /\ open \in BOOLEAN /\ blocked \in BOOLEAN

(* The size() that the overflow check reads is exactly the bytes accepted  *)
(* and not yet written, through coalescing, partial writes and separators, *)
(* and an open connection is within its limit.                             *)
Accounting == open => /\ accepted = sent + buf.size
                      /\ MaxSize = 0 \/ buf.size <= MaxSize

(* The chunks hold the unsent bytes, each once and in order, and a running *)
(* write covers the first of them without reaching past its chunk: attach  *)
(* copies into the last chunk while the first one is being written.        *)
InOrder == open =>
  LET n == Len(buf.list) IN
  IF n = 0 THEN sent = accepted /\ op.len = 0
  ELSE /\ buf.list[1].lo + buf.offset = sent
       /\ buf.list[n].hi = accepted
       /\ \A i \in 1 .. n - 1 : buf.list[i].hi = buf.list[i + 1].lo
       /\ op.len > 0 => /\ op.pos = sent
                        /\ buf.offset + op.len <= Length(buf.list[1])

(* confirm() never refuses a completion: ad_confirm drops its result.      *)
ConfirmAccepted == op.moved > 0 => CanConfirm(buf, op.moved)

(* No lost wake-up: an open connection with unsent bytes has a write       *)
(* running, unless a would_block has stopped its loop.                     *)
NoIdleBacklog == open /\ accepted > sent => op.len > 0 \/ blocked

(* The storage of the front chunk is where a running operation expects it. *)
Dangling == /\ op.len > 0 /\ op.moved = 0
            /\ op.storage # Storage(buf.list[1])

(* tests/io/stream_suite.cpp: what reaches the transport is what was       *)
(* output, so the kernel must find the bytes of a running write in place.  *)
StorageStays == ~Dangling

(* tests/aux/write_buffer_test.cpp: when next() gives nothing, nothing is  *)
(* left.  A write that ends with would_block is rolled back and tried      *)
(* again (ad_error_handler): as long as the connection is open, its unsent *)
(* bytes have a write under way after that, too.                           *)
Retries == open /\ blocked /\ accepted > sent => op.len > 0

(* Every accepted byte is written or the connection stops or has met a     *)
(* would_block: each completion starts the next write.                     *)
EventuallyWritten ==
  \A n \in 1 .. MaxBytes :
    (open /\ accepted >= n) ~> (sent >= n \/ ~open \/ blocked)

(* The write loop implements the byte stream of ByteStream. *)
Stream == INSTANCE ByteStream WITH delivered <- sent,
                                   flight <- [pos |-> op.pos, len |-> op.len]
Refinement == Stream!StreamSpec
=============================================================================
