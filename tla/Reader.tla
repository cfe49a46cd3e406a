------------------------------- MODULE Reader -------------------------------
(***************************************************************************)
(* iow/io/reader over a read_buffer: the read loop of one stream           *)
(* connection, run by several threads of the io_service.                   *)
(*                                                                         *)
(* A completed read is confirmed, the next read is started, and the blocks *)
(* are detached one by one; the connection's mutex is released around the  *)
(* user's input handler, so that the next completion may run on another    *)
(* thread between two blocks of this one.                                  *)
(***************************************************************************)
EXTENDS ReadBuffer

CONSTANTS Threads,
          Nobody,    \* the mutex is free
          MaxBytes   \* bound on the bytes received in one session

ASSUME ReaderBounds == Nobody \notin Threads /\ MaxBytes \in Nat

VARIABLES
  rbuf,    \* the read_buffer
  op,      \* the window of the outstanding async_read_some, or NoOp
  got,     \* the bytes received since start
  out,     \* the blocks given to the input handler since start
  mutex,   \* the thread in the detach loop
  busy,    \* the threads in the input handler
  open

vars == <<opt, rbuf, op, got, out, mutex, busy, open>>

NoOp == [id |-> 0, pos |-> 0, len |-> 0]

(* The buffer is cleared and the outstanding read dropped; a new session   *)
(* begins with nothing received.                                           *)
Closed == /\ rbuf' = EmptyBuffer /\ op' = NoOp /\ open' = FALSE
          /\ got' = <<>> /\ out' = <<>>

(* ad_more and ad_next on buffer b: an overflow and a null pair clear the  *)
(* buffer and stop the connection.                                         *)
More(b, received) ==
  LET n == Next(b)
  IN  IF Waiting(b) \/ Overflow(n) THEN Closed
      ELSE /\ rbuf' = n /\ op' = Window(n) /\ open' = TRUE
           /\ got' = received /\ out' = out

Init ==
  /\ \E o \in Options : opt = SetOptions(o)
  /\ rbuf = Next(EmptyBuffer) /\ op = Window(Next(EmptyBuffer))
  /\ got = <<>> /\ out = <<>> /\ mutex = Nobody /\ busy = {} /\ open = TRUE

(* What one read may bring. *)
Inputs == UNION {[1 .. n -> Alphabet] : n \in 1 .. Bufsize}

(* ad_read_handler without error: confirm and more; the lock is kept for   *)
(* the detach loop.                                                        *)
ReadDone(t, bytes) ==
  /\ op # NoOp /\ mutex = Nobody /\ t \notin busy
  /\ Len(bytes) <= op.len /\ Len(got) + Len(bytes) <= MaxBytes
  /\ More(Confirm(Store(rbuf, op, bytes), op, Len(bytes)), got \o bytes)
  /\ mutex' = t
  /\ UNCHANGED busy

(* One turn of the loop of ad_handler; a block that is not empty goes to   *)
(* the input handler, for which ad_input_handler releases the mutex.       *)
DetachOne(t) ==
  /\ mutex = t
  /\ \E d \in {Detach(rbuf)} :
       /\ rbuf' = d.buf
       /\ IF d.found /\ d.block # <<>>
          THEN /\ out' = Append(out, d.block) /\ busy' = busy \cup {t}
               /\ mutex' = Nobody
          ELSE /\ mutex' = IF d.found THEN t ELSE Nobody
               /\ UNCHANGED <<out, busy>>
  /\ UNCHANGED <<op, got, open>>

(* Mutant of Return: only one block of each read is handled. *)
ReturnEnds(t) == /\ t \in busy /\ mutex = Nobody
                 /\ busy' = busy \ {t}
                 /\ UNCHANGED <<rbuf, op, got, out, mutex, open>>

(* The input handler returns and the thread takes the mutex back. *)
Return(t) == /\ t \in busy /\ mutex = Nobody
             /\ mutex' = t /\ busy' = busy \ {t}
             /\ UNCHANGED <<rbuf, op, got, out, open>>

(* ad_error_handler, operation_would_block: rollback and more. *)
WouldBlock == /\ op # NoOp /\ mutex = Nobody
              /\ More(Rollback(rbuf, op), got)
              /\ UNCHANGED <<mutex, busy>>

(* The connection is stopped, by an error, by end of file or by the user. *)
Stop == open /\ mutex = Nobody /\ Closed /\ UNCHANGED <<mutex, busy>>

(* It is started again, maybe with a thread still in the input handler.    *)
Start == /\ ~open /\ mutex = Nobody
         /\ More(EmptyBuffer, <<>>)
         /\ UNCHANGED <<mutex, busy>>

ReaderNext ==
  /\ \/ \E t \in Threads :
          \/ \E bytes \in Inputs : ReadDone(t, bytes)
          \/ DetachOne(t)
          \/ Return(t)
     \/ WouldBlock \/ Stop \/ Start
  /\ UNCHANGED opt

Spec == Init /\ [][ReaderNext]_vars

(* A thread that holds the mutex runs on, and the input handler returns.   *)
(* The first is weak fairness of DetachOne(t), which is enabled exactly    *)
(* while mutex = t, written without ENABLED.                               *)
Fairness == \A t \in Threads :
  /\ []<>(mutex # t) \/ []<><<DetachOne(t) /\ UNCHANGED opt>>_vars
  /\ WF_vars(Return(t) /\ UNCHANGED opt)

FairSpec == Spec /\ Fairness
-----------------------------------------------------------------------------
(* The buffer and the operation that was handed out keep their types. *)
TypeOK == /\ rbuf \in Buffer /\ op \in [id : Nat, pos : Nat, len : Nat]
          /\ got \in Seq(Alphabet) /\ out \in Seq(Seq(Alphabet))
          /\ mutex \in Threads \cup {Nobody} /\ busy \subseteq Threads
          /\ open \in BOOLEAN

(* The reference: what the first i bytes of the stream g are cut into, and *)
(* where the last block ends.  A separator ends the block it closes and    *)
(* takes no byte of the block before; a block without bytes is left out.   *)
Parsed(g, sep, trim) ==
  LET parsed[i \in 0 .. Len(g)] ==
        IF i = 0 THEN [end |-> 0, blocks |-> <<>>]
        ELSE LET last  == parsed[i - 1]
                 block == SubSeq(g, last.end + 1, i - trim)
             IN  IF i - Len(sep) >= last.end /\ SubSeq(g, i - Len(sep) + 1, i) = sep
                 THEN [end    |-> i,
                       blocks |-> IF block = <<>> THEN last.blocks
                                  ELSE Append(last.blocks, block)]
                 ELSE last
  IN  parsed

Trim == IF TrimSep THEN Len(Sep) ELSE 0

Blocks(g) == Parsed(g, Sep, Trim)[Len(g)].blocks

(* No thread is between the completion of a read and the end of its loop.  *)
Quiet == mutex = Nobody /\ busy = {}

(* The blocks handed to the user are those of the bytes received, without  *)
(* a byte lost, doubled, moved or made up, however reads cut the stream    *)
(* and whichever threads run the loop.                                     *)
InOrder == open =>
  IF Sep = <<>> THEN IsPrefix(FlattenSeq(out), got)
  ELSE IsPrefix(out, Blocks(got))

(* Every complete block has been handed out when the loop is at rest.  *)
Complete == open /\ Quiet =>
  IF Sep = <<>> THEN FlattenSeq(out) = got ELSE out = Blocks(got)

(* The bytes received and not handed out, as the buffers hold them. *)
Rest(b) == FlattenSeq([k \in 1 .. Len(b.buffers) |->
             SubSeq(b.buffers[k].data, Begin(b, k) + 1, End(b, k))])

(* size() counts the bytes received and not handed out, and they are in    *)
(* the buffers where end_() says they end.                                 *)
Kept == open => IsSuffix(Rest(rbuf), got) /\ rbuf.size = Len(Rest(rbuf))

(* The kernel writes into the buffer that confirm() expects: detach() may  *)
(* drop and renumber buffers under the outstanding read, but not that one. *)
WindowOwned == op # NoOp => CanConfirm(rbuf, op, op.len)

(* What the input handler is owed, and what it has been given, in blocks   *)
(* or, without a separator, in bytes.                                      *)
Due   == IF Sep = <<>> THEN Len(got) ELSE Len(Blocks(got))
Given == IF Sep = <<>> THEN Len(FlattenSeq(out)) ELSE Len(out)

(* A complete block reaches the input handler, or the connection stops. *)
EventuallyHandled ==
  \A k \in 1 .. MaxBytes : (open /\ Due >= k) ~> (Given >= k \/ ~open)
=============================================================================
