----------------------------- MODULE Connection -----------------------------
(***************************************************************************)
(* descriptor::holder over io_base: one connection object, its sessions    *)
(* (from start() to stop()), the handlers that reach it and the calls of   *)
(* its user, on several threads.                                           *)
(*                                                                         *)
(* Every public call and every handler holds the object's recursive mutex  *)
(* from its first statement to its last, except for the input handler,     *)
(* around which ad_input_handler releases it: a step is what runs between  *)
(* a lock and an unlock.  What the mutex does not cover is the owner's     *)
(* test: a handler is let in by the life it was wrapped in, and only then  *)
(* waits for the mutex.                                                    *)
(***************************************************************************)
EXTENDS Naturals, Sequences, FiniteSets

CONSTANTS Threads,
          MaxSessions,   \* bound on the calls of start()
          MaxLives,      \* bound on the lives of the owner
          MaxBlocks,     \* bound on the blocks one read brings
          MaxOut,        \* bound on the blocks in the write buffer
          Addresses,     \* where the allocator may put a read buffer
          Null           \* no buffer

ASSUME ConnectionBounds ==
  /\ {MaxSessions, MaxLives, MaxBlocks, MaxOut} \subseteq Nat
  /\ Null \notin Addresses

VARIABLES
  con,    \* the object; see Connections
  at      \* where each thread is

vars == <<con, at>>

Sessions == 1 .. MaxSessions

(* An asynchronous operation: the life its handler is wrapped in, the      *)
(* address it reads to, and the session that began it.                     *)
Ops == [kind : {"read", "write"}, life : Nat, win : Addresses \cup {Null},
        sess : 0 .. MaxSessions,
        res : {"pending", "data", "error", "would_block", "canceled"}]

(* blocks and out hold, for each block of the two buffers, the session it  *)
(* belongs to; a block of 0 was never received.  waits is _wait of the     *)
(* write buffer, rd the address of the buffer in _readbuf; lives is the    *)
(* life that the output handler of a session was wrapped in.  started,     *)
(* shut and spoiled record the past: the sessions whose startup handler    *)
(* was called, how often their shutdown handler was, and the sessions in   *)
(* which something of another, or a call out of order, had a part.         *)
Connections ==
  [open : BOOLEAN, id : 0 .. MaxSessions, status : BOOLEAN, life : Nat,
   rd : Addresses \cup {Null}, blocks : Seq(0 .. MaxSessions),
   waits : BOOLEAN, out : Seq(Sessions), ops : SUBSET Ops,
   started : SUBSET Sessions, shut : [Sessions -> 0 .. 2],
   spoiled : SUBSET Sessions, lives : [Sessions -> Nat]]

Idle       == [pc |-> "idle"]
Entered(o) == [pc |-> "entered", life |-> o.life, op |-> o]
InInput(l, k)    == [pc |-> "input", life |-> l, sess |-> k]
InOutput(l, k, nil) == [pc |-> "output", life |-> l, sess |-> k, nil |-> nil]

Init ==
  /\ con = [open |-> TRUE, id |-> 0, status |-> FALSE, life |-> 1,
            rd |-> Null, blocks |-> <<>>, waits |-> FALSE, out |-> <<>>,
            ops |-> {}, started |-> {}, shut |-> [k \in Sessions |-> 0],
            spoiled |-> {}, lives |-> [k \in Sessions |-> 0]]
  /\ at = [t \in Threads |-> Idle]

(* The owner's test: a life is over when its last holder lets go of it,    *)
(* and a thread in a handler of that life holds it.                        *)
Alive(l) == l = con.life \/ \E t \in Threads : at[t].pc # "idle" /\ at[t].life = l

Spoil(c, foreign) ==
  IF foreign /\ c.id # 0 THEN [c EXCEPT !.spoiled = @ \cup {c.id}] ELSE c

(* A handler or a call of life l and session k, run on the object as it is *)
(* now.                                                                    *)
Met(c, l, k) == Spoil(c, ~(c.status /\ c.life = l /\ c.id = k))
-----------------------------------------------------------------------------
(* The descriptor is closed and what it was doing is canceled. *)
Closed(c) ==
  [c EXCEPT !.open = FALSE,
            !.ops = {IF o.res = "pending" THEN [o EXCEPT !.res = "canceled"] ELSE o
                       : o \in @}]

(* Mutant of Cleared: _wait outlives the write it stands for. *)
ClearedWaiting(c) == [c EXCEPT !.rd = Null, !.blocks = <<>>, !.out = <<>>]

(* ad_clear of both buffers. *)
Cleared(c) == [c EXCEPT !.rd = Null, !.blocks = <<>>, !.waits = FALSE, !.out = <<>>]

(* ad_reset: the owner begins a new life and the buffers are cleared. *)
Renewed(c) == Cleared([c EXCEPT !.life = @ + 1])

(* ad_before_stop: the shutdown handler, whatever the status is. *)
Told(c) == IF c.id = 0 THEN c
           ELSE [c EXCEPT !.shut[c.id] = IF @ = 2 THEN 2 ELSE @ + 1]

(* Mutant of Stopped: the buffers outlive the session. *)
StoppedKeepsBlocks(c) ==
  [Closed(Told(c)) EXCEPT !.life = @ + 1, !.status = FALSE, !.rd = Null]

(* Mutant of Stopped: the owner is not reset. *)
StoppedSameLife(c) == [Cleared(Closed(Told(c))) EXCEPT !.status = FALSE]

(* ad_stop. *)
Stopped(c) == [Renewed(Closed(Told(c))) EXCEPT !.status = FALSE]
-----------------------------------------------------------------------------
(* ad_some: an operation on a closed descriptor fails at once. *)
Some(c, kind, win) ==
  [c EXCEPT !.ops = @ \cup {[kind |-> kind, life |-> c.life, win |-> win,
                             sess |-> c.id,
                             res  |-> IF c.open THEN "pending" ELSE "error"]}]

(* ad_more and ad_next of the reader, with a new buffer at address a: when *)
(* a read is outstanding, and on an overflow, the connection is stopped,   *)
(* and a read on the closed descriptor is begun nevertheless.              *)
More(c, a, overflow) ==
  IF ~c.status THEN c
  ELSE IF c.rd # Null THEN Some(Stopped(Spoil(c, TRUE)), "read", Null)
  ELSE IF overflow THEN Some(Stopped(Spoil(c, TRUE)), "read", a)
  ELSE Some([c EXCEPT !.rd = a], "read", a)

(* confirm(): the address alone tells whether it is the read outstanding.  *)
(* A buffer confirmed by a read of another session was not filled.         *)
Confirmed(c, o, n) ==
  IF c.rd = Null \/ c.rd # o.win THEN c
  ELSE [c EXCEPT !.rd = Null, !.blocks = @ \o
          [i \in 1 .. n |-> IF o.sess = c.id THEN c.id ELSE 0]]

(* rollback() confirms nothing, for whichever read is outstanding. *)
RolledBack(c) == [c EXCEPT !.rd = Null]

(* ad_more of the writer. *)
WriteMore(c) ==
  IF c.waits \/ c.out = <<>> THEN c
  ELSE Some([c EXCEPT !.waits = TRUE], "write", Null)

(* ad_output of a block of session k, or of nullptr, which is not queued   *)
(* but stops the connection (ad_initialize::make_output_).                 *)
Output(c, k, nil, overflow) ==
  IF nil THEN Stopped(WriteMore(c))
  ELSE IF overflow THEN Stopped(c)
  ELSE WriteMore([c EXCEPT !.out = Append(@, k)])

(* A completed write: confirm() and the next. *)
Written(c) ==
  IF ~c.waits THEN WriteMore(c)
  ELSE WriteMore([c EXCEPT !.waits = FALSE, !.out = Tail(@)])
-----------------------------------------------------------------------------
(* Mutant of Loop: the input handler is taken once, before the loop, and   *)
(* is that of the session which the thread was let in for.                 *)
LoopOneHandler(t, l, c) ==
  IF c.blocks = <<>> THEN con' = c /\ at' = [at EXCEPT ![t] = Idle]
  ELSE /\ con' = [c EXCEPT !.blocks = Tail(@)]
       /\ at' = [at EXCEPT ![t] = InInput(l, IF at[t].pc = "input" THEN at[t].sess
                                             ELSE at[t].op.sess)]

(* The detach loop of thread t of life l: the next block is detached and   *)
(* the input handler, the id and the output handler are taken for it.      *)
Loop(t, l, c) ==
  IF c.blocks = <<>> THEN con' = c /\ at' = [at EXCEPT ![t] = Idle]
  ELSE /\ con' = [c EXCEPT !.blocks = Tail(@)]
       /\ at' = [at EXCEPT ![t] = InInput(l, c.id)]

(* The system completes an operation. *)
Completes(o, res) ==
  /\ o.res = "pending"
  /\ con' = [con EXCEPT !.ops = (@ \ {o}) \cup {[o EXCEPT !.res = res]}]
  /\ UNCHANGED at

(* A completed operation's handler is let in by the owner. *)
Enter(t, o) ==
  /\ o.res # "pending" /\ at[t] = Idle
  /\ con' = [con EXCEPT !.ops = @ \ {o}]
  /\ at' = [at EXCEPT ![t] = Entered(o)]

(* The handlers of a life that is over will not be let in. *)
Settled == \A o \in con.ops : Alive(o.life)

Drop == /\ con' = [con EXCEPT !.ops = {o \in @ : Alive(o.life)}]
        /\ UNCHANGED at

(* ad_read_handler, without error. *)
ReadDone(t, n, a, overflow) ==
  /\ at[t].pc = "entered" /\ at[t].op.kind = "read" /\ at[t].op.res = "data"
  /\ \E o \in {at[t].op} :
       Loop(t, o.life,
            More(Confirmed(Met(con, o.life, o.sess), o, n), a, overflow))

(* Mutant of ReadFailed: a read that would block is not begun again. *)
ReadFailedNoMore(t, a) ==
  /\ at[t].pc = "entered" /\ at[t].op.kind = "read" /\ at[t].op.res # "data"
  /\ at' = [at EXCEPT ![t] = Idle]
  /\ \E c \in {RolledBack(Met(con, at[t].op.life, at[t].op.sess))} :
       con' = IF at[t].op.res \in {"would_block", "canceled"} THEN c ELSE Stopped(c)

(* ad_error_handler of the reader; the end of file is an error. *)
ReadFailed(t, a) ==
  /\ at[t].pc = "entered" /\ at[t].op.kind = "read" /\ at[t].op.res # "data"
  /\ at' = [at EXCEPT ![t] = Idle]
  /\ \E c \in {RolledBack(Met(con, at[t].op.life, at[t].op.sess))} :
       con' = CASE at[t].op.res = "would_block" -> More(c, a, FALSE)
                [] at[t].op.res = "canceled"    -> c
                [] OTHER                        -> Stopped(c)

(* Mutant of WriteDone: a write that fails closes and resets only. *)
WriteDoneUntold(t) ==
  /\ at[t].pc = "entered" /\ at[t].op.kind = "write"
  /\ at' = [at EXCEPT ![t] = Idle]
  /\ \E c \in {Met(con, at[t].op.life, at[t].op.sess)} :
       con' = CASE at[t].op.res = "data"     -> Written(c)
                [] at[t].op.res = "canceled" -> c
                [] OTHER -> [Renewed(Closed(c)) EXCEPT !.status = FALSE]

(* ad_write_handler and ad_error_handler of the writer. *)
WriteDone(t) ==
  /\ at[t].pc = "entered" /\ at[t].op.kind = "write"
  /\ at' = [at EXCEPT ![t] = Idle]
  /\ \E c \in {Met(con, at[t].op.life, at[t].op.sess)} :
       con' = CASE at[t].op.res = "data"     -> Written(c)
                [] at[t].op.res = "canceled" -> c
                [] OTHER                     -> Stopped(c)

(* The input handler returns; the thread takes the mutex and goes on in    *)
(* the loop with what the buffer holds now.                                *)
Return(t) == at[t].pc = "input" /\ Loop(t, at[t].life, con)

(* In the input handler the user calls the output handler it was given.    *)
(* Its life is held by this very thread.  An exception of the input        *)
(* handler is output(nullptr).                                             *)
Reply(t, nil, overflow) ==
  /\ at[t].pc = "input" /\ (nil \/ Len(con.out) < MaxOut)
  /\ con' = Output(Met(con, at[t].life, at[t].sess), at[t].sess, nil, overflow)
  /\ UNCHANGED at

(* When the session is over, an output handler only calls input(nullptr). *)
Over(k) == k \in con.started /\ ~Alive(con.lives[k])

(* Another thread calls the output handler of session k, and is let in. *)
CallOutput(t, k, nil) ==
  /\ at[t] = Idle /\ k \in con.started /\ ~Over(k)
  /\ at' = [at EXCEPT ![t] = InOutput(con.lives[k], k, nil)]
  /\ UNCHANGED con

(* It has the mutex. *)
OutputLocked(t, overflow) ==
  /\ at[t].pc = "output" /\ (at[t].nil \/ Len(con.out) < MaxOut)
  /\ con' = Output(Met(con, at[t].life, at[t].sess),
                   at[t].sess, at[t].nil, overflow)
  /\ at' = [at EXCEPT ![t] = Idle]
-----------------------------------------------------------------------------
(* A new id and the initialisation.  The session is spoiled when another   *)
(* is running, or when something begun after the last stop is left.        *)
Initialized(c) ==
  LET k    == c.id + 1
      live == c.status
      left == c.out # <<>> \/ \E o \in c.ops : o.life = c.life
  IN  [Spoil(c, live) EXCEPT
         !.id = k, !.lives[k] = c.life,
         !.spoiled = IF live \/ left THEN @ \cup {k} ELSE @]

(* start(): the startup handler, which may stop the connection, and then   *)
(* the first read.                                                         *)
Start(a, quits, overflow) ==
  /\ con.id < MaxSessions /\ con.open
  /\ \E c \in {[Initialized(con) EXCEPT !.status = TRUE]} :
       \E s \in {[c EXCEPT !.started = @ \cup {c.id}]} :
         con' = More(IF quits THEN Stopped(s) ELSE s, a, overflow)
  /\ UNCHANGED at

(* start() on a closed descriptor: non_blocking() throws. *)
StartThrows ==
  /\ con.id < MaxSessions /\ ~con.open
  /\ con' = Initialized(con)
  /\ UNCHANGED at

(* stop(), and shutdown() up to its callback. *)
Stop == con' = Stopped(Spoil(con, ~con.status)) /\ UNCHANGED at

(* close(): a session that runs is not told. *)
Close == con.open /\ con' = Closed(Spoil(con, con.status)) /\ UNCHANGED at

(* attach(): another descriptor takes the place of the first, which closes. *)
Attach == /\ con' = [Closed(Spoil(con, con.status)) EXCEPT !.open = TRUE]
          /\ UNCHANGED at

(* reset(): the owner and the buffers alone. *)
Reset == con' = Renewed(Spoil(con, TRUE)) /\ UNCHANGED at

Handlers ==
  \/ \E o \in con.ops :
       \/ \E res \in {"data", "error"} : Completes(o, res)
       \/ o.kind = "read" /\ Completes(o, "would_block")
       \/ \E t \in Threads : Enter(t, o)
  \/ \E t \in Threads, a \in Addresses :
       \/ \E n \in 1 .. MaxBlocks, over \in BOOLEAN : ReadDone(t, n, a, over)
       \/ ReadFailed(t, a)
  \/ \E t \in Threads :
       \/ WriteDone(t)
       \/ Return(t)
       \/ \E nil, over \in BOOLEAN : Reply(t, nil, over)
       \/ \E k \in Sessions, nil \in BOOLEAN : CallOutput(t, k, nil)
       \/ \E over \in BOOLEAN : OutputLocked(t, over)

Calls ==
  \/ \E a \in Addresses, quits, over \in BOOLEAN : Start(a, quits, over)
  \/ StartThrows \/ Stop \/ Close \/ Attach \/ Reset

(* Nothing is promised of a spoiled session: the last one ends with that.  *)
Bounded == con.life < MaxLives /\ MaxSessions \notin con.spoiled

(* Nothing but Enter can tell whether Drop has been taken: it goes first.  *)
Next ==
  \/ ~Settled /\ Drop
  \/ Settled /\ Bounded /\ (Handlers \/ Calls)

Spec == Init /\ [][Next]_vars
-----------------------------------------------------------------------------
(* The types; a write is awaited only while something is to be written.    *)
TypeOK ==
  /\ con \in Connections /\ (con.waits => con.out # <<>>)
  /\ \A t \in Threads :
       \/ at[t] = Idle
       \/ at[t].pc = "entered" /\ at[t] = Entered(at[t].op) /\ at[t].op \in Ops
       \/ at[t].pc = "input" /\ at[t].sess \in Sessions
       \/ at[t].pc = "output" /\ at[t].sess \in Sessions

Clean(k) == k \notin con.spoiled

(* A session that is over has had its shutdown handler called, and a       *)
(* session nothing foreign had a part in once only; nobody is told that a  *)
(* session is over (input(nullptr)) before.                                *)
Reported ==
  \A k \in con.started : Clean(k) =>
    /\ (con.id # k \/ ~con.status) <=> con.shut[k] = 1
    /\ Over(k) => con.shut[k] = 1

(* The reads that are outstanding, queued or waiting for the mutex. *)
Reads == {o \in con.ops \cup {at[t].op : t \in {u \in Threads : at[u].pc = "entered"}} :
            o.kind = "read" /\ o.sess = con.id /\ o.life = con.life}

(* A running session has one read, and the buffer expects that one: it     *)
(* will hear of its peer.                                                  *)
ReadsOn == con.status /\ Clean(con.id) =>
             con.rd # Null /\ \E o \in Reads : Reads = {o} /\ o.win = con.rd

(* What a session hands to its user was received in it, and what it writes *)
(* was output to it.                                                       *)
OwnData == con.status /\ Clean(con.id) =>
  /\ \A i \in DOMAIN con.blocks : con.blocks[i] = con.id
  /\ \A i \in DOMAIN con.out : con.out[i] = con.id

(* A session that has ended leaves nothing in the object and no operation  *)
(* whose handler will be let into the next.                                *)
CleanStop == ~con.status /\ con.id # 0 /\ Clean(con.id) =>
  /\ con.blocks = <<>> /\ con.out = <<>> /\ con.rd = Null
  /\ \A o \in con.ops : o.life # con.life

(* Once its shutdown handler has been called, no block of a session is     *)
(* taken for its input handler.                                            *)
SilentAfterShutdown ==
  [][\A t \in Threads : at'[t] # at[t] /\ at'[t].pc = "input" =>
       con.shut[at'[t].sess] = 0]_vars
=============================================================================
