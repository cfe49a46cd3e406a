---------------------------- MODULE MultiThread -----------------------------
(***************************************************************************)
(* client::multi_thread: multi_base over client::thread over               *)
(* descriptor::thread.  A list of clients, each with an io_context and a   *)
(* worker thread of its own that runs its handlers; sends go to the        *)
(* clients in turn.                                                        *)
(*                                                                         *)
(* multi_base has a mutex (mm), so has each descriptor::thread (tm) and so *)
(* has each client; all are recursive.  A send() has mm while it waits for *)
(* the client; stop() of a thread has tm while it waits for the client and *)
(* joins the worker; multi_base stops clients under mm in reconfigure()    *)
(* and without it in stop().  The workers run the user's handlers, some of *)
(* them under the client's mutex, and these may call send(), of multi_base *)
(* or of the very client they belong to.                                   *)
(***************************************************************************)
EXTENDS Naturals, Sequences, FiniteSets

CONSTANTS Users,      \* the threads of the application
          Clients,    \* client objects; each is its worker's name as well
          Nobody,     \* the mutex is free
          MaxCount,   \* bound on the number of clients asked for
          MaxCalls    \* bound on the calls

ASSUME MultiThreadBounds ==
  /\ Users \cap Clients = {} /\ Nobody \notin Users \cup Clients
  /\ MaxCount \in Nat /\ MaxCalls \in Nat

Threads == Users \cup Clients

VARIABLES
  list,      \* _clients
  max,       \* _max_clients
  current,   \* _current, a position from 0
  mm,        \* who holds the mutex of multi_base
  tm,        \* who holds the mutex of each descriptor::thread
  worker,    \* the worker of each client
  at,        \* where each thread is
  given,     \* turns of each client since the list changed, less those
             \* that every client had
  left       \* calls to come

vars == <<list, max, current, mm, tm, worker, at, given, left>>

Counts  == 0 .. MaxCount
Members == {list[i] : i \in DOMAIN list}
Fresh   == {c \in Clients : worker[c] = "none"}

Idle       == [pc |-> "idle"]
Wants(op)  == [pc |-> "wants", op |-> op]         \* waits for a mutex
Shrinks(n) == [pc |-> "shrinks", to |-> n]        \* in reconfigure(), holds mm
Stops(s)   == [pc |-> "stops", rest |-> s]        \* in stop(), clients to stop
Gives(op, c) == [pc |-> "gives", op |-> op, to |-> c]   \* in send(), holds mm
Halts(c, then) == [pc |-> "halts", who |-> c, next |-> then]  \* holds tm of c
Joins(c, then) == [pc |-> "joins", who |-> c, next |-> then]  \* so does this

UserOps == [op : {"start", "reconfigure"}, n : Counts]
           \cup [op : {"stop", "send", "send_opt"}]
(* under: the startup, shutdown or error handler, not the input handler. *)
HandlerOps == [op : {"send", "send_opt", "own"}, under : BOOLEAN]

Init ==
  /\ list = <<>> /\ max = 0 /\ current = 0
  /\ mm = Nobody /\ tm = [c \in Clients |-> Nobody]
  /\ worker = [c \in Clients |-> "none"]
  /\ at = [t \in Threads |-> Idle] /\ given = [c \in Clients |-> 0]
  /\ left = MaxCalls

Go(t, where) == at' = [at EXCEPT ![t] = where]

(* A call begins; it needs a mutex first. *)
Call(t, op) == /\ at[t] = Idle /\ left > 0
               /\ Go(t, Wants(op)) /\ left' = left - 1
               /\ UNCHANGED <<list, max, current, mm, tm, worker, given>>

(* The mutex of client c is its worker's, as seen by t.  Nobody else has   *)
(* it for longer than a step.                                              *)
Locked(c) == at[c].pc \in {"wants", "gives"} /\ at[c].op.under
Open(c, t) == t = c \/ ~Locked(c)

(* A worker runs a handler that calls send(). *)
Handler(c, op) == worker[c] = "running" /\ Call(c, op)

(* A worker leaves run() when its io_context is stopped. *)
Ends(c) == /\ worker[c] = "stopping" /\ at[c] = Idle
           /\ worker' = [worker EXCEPT ![c] = "ended"]
           /\ UNCHANGED <<list, max, current, mm, tm, at, given>>

(* Clients created and started at the end of the list. *)
Grown(new) == /\ list' = list \o new
              /\ worker' = [c \in Clients |-> IF \E i \in DOMAIN new : new[i] = c
                                              THEN "running" ELSE worker[c]]

(* n clients that nobody has yet; which ones makes no difference. *)
News(n) == LET all == {s \in [1 .. n -> Fresh] : \A i, j \in 1 .. n : s[i] = s[j] => i = j}
           IN {s \in all : s = CHOOSE r \in all : TRUE}

Counted == given' = [c \in Clients |-> 0]

Has(t, name) == at[t].pc = "wants" /\ at[t].op.op = name /\ mm = Nobody

(* start(opt, n): nothing when there are clients. *)
Start(t) ==
  /\ Has(t, "start") /\ Go(t, Idle)
  /\ IF list # <<>> THEN UNCHANGED <<list, max, worker, given>>
     ELSE \E new \in News(at[t].op.n) :
            Grown(new) /\ max' = at[t].op.n /\ Counted
  /\ UNCHANGED <<current, mm, tm>>

(* reconfigure(opt, n). *)
Reconfigure(t) ==
  /\ Has(t, "reconfigure") /\ max' = at[t].op.n
  /\ IF Len(list) > at[t].op.n
     THEN mm' = t /\ Go(t, Shrinks(at[t].op.n)) /\ UNCHANGED <<list, worker, given>>
     ELSE /\ \E new \in News(at[t].op.n - Len(list)) : Grown(new)
          /\ Go(t, Idle) /\ Counted /\ UNCHANGED mm
  /\ UNCHANGED <<current, tm>>

(* descriptor::thread::stop() of client c takes tm. *)
StopThread(t, c, then) ==
  /\ tm[c] = Nobody /\ tm' = [tm EXCEPT ![c] = t]
  /\ Go(t, Halts(c, then)) /\ UNCHANGED worker

(* Mutant of Halt: the io_context runs on, for its work guard. *)
HaltRunning(t) ==
  /\ at[t].pc = "halts" /\ Open(at[t].who, t)
  /\ Go(t, Joins(at[t].who, at[t].next))
  /\ UNCHANGED <<list, max, current, mm, tm, worker, given>>

(* stop_(): the holder is stopped, for which its mutex is needed, and so   *)
(* is its io_context; then the worker is joined.                           *)
Halt(t) ==
  /\ at[t].pc = "halts" /\ Open(at[t].who, t)
  /\ worker' = [worker EXCEPT ![at[t].who] = "stopping"]
  /\ Go(t, Joins(at[t].who, at[t].next))
  /\ UNCHANGED <<list, max, current, mm, tm, given>>

(* Mutant of ShrinkOne: the client is dropped without being stopped. *)
ShrinkOneDrops(t) ==
  /\ at[t].pc = "shrinks" /\ Len(list) > at[t].to
  /\ list' = SubSeq(list, 1, Len(list) - 1) /\ Counted
  /\ UNCHANGED <<max, current, mm, tm, worker, at>>

(* The last client is stopped, while mm is held. *)
ShrinkOne(t) ==
  /\ at[t].pc = "shrinks" /\ Len(list) > at[t].to
  /\ StopThread(t, list[Len(list)], at[t])
  /\ UNCHANGED <<list, max, current, mm, given>>

ShrinkDone(t) ==
  /\ at[t].pc = "shrinks" /\ Len(list) <= at[t].to
  /\ mm' = Nobody /\ Go(t, Idle)
  /\ UNCHANGED <<list, max, current, tm, worker, given>>

(* stop() takes the list under mm, and stops the clients without. *)
Stop(t) ==
  /\ Has(t, "stop") /\ Go(t, Stops(list)) /\ list' = <<>> /\ Counted
  /\ UNCHANGED <<max, current, mm, tm, worker>>

StopOne(t) ==
  /\ at[t].pc = "stops" /\ at[t].rest # <<>>
  /\ StopThread(t, Head(at[t].rest), Stops(Tail(at[t].rest)))
  /\ UNCHANGED <<list, max, current, mm, given>>

StopDone(t) == /\ at[t] = Stops(<<>>) /\ Go(t, Idle)
               /\ UNCHANGED <<list, max, current, mm, tm, worker, given>>

(* The worker has ended and the client is let go of. *)
Join(t) ==
  /\ at[t].pc = "joins" /\ worker[at[t].who] = "ended"
  /\ worker' = [worker EXCEPT ![at[t].who] = "none"]
  /\ tm' = [tm EXCEPT ![at[t].who] = Nobody]
  /\ IF at[t].next.pc = "shrinks"
     THEN list' = SubSeq(list, 1, Len(list) - 1) /\ Counted
     ELSE UNCHANGED <<list, given>>
  /\ Go(t, at[t].next)
  /\ UNCHANGED <<max, current, mm>>
-----------------------------------------------------------------------------
(* Mutant of Turn: the cursor wraps one client early. *)
TurnEarly == IF current + 1 >= Len(list) THEN 0 ELSE current

(* next_(): whose turn it is, as a position from 0. *)
Turn == IF current >= Len(list) THEN 0 ELSE current

(* What every client of the list was sent is not counted. *)
Levelled(g) == IF \A c \in Members : g[c] > 0
               THEN [c \in Clients |-> IF c \in Members THEN g[c] - 1 ELSE 0]
               ELSE g

(* The client whose turn it is gets the block; with no client the block is *)
(* returned.                                                               *)
GiveNext(t) ==
  IF list = <<>> THEN Go(t, Idle) /\ UNCHANGED <<current, mm, given>>
  ELSE /\ Go(t, Gives(at[t].op, list[Turn + 1])) /\ mm' = t
       /\ current' = Turn + 1
       /\ given' = Levelled([given EXCEPT ![list[Turn + 1]] = @ + 1])

Send(t) == /\ Has(t, "send") /\ GiveNext(t)
           /\ UNCHANGED <<list, max, tm, worker>>

(* send(d, opt) creates a client while there are less than _max_clients,   *)
(* which gets the block out of turn.                                       *)
SendOpt(t) ==
  /\ Has(t, "send_opt")
  /\ IF Len(list) < max
     THEN \E new \in News(1) : /\ Grown(new) /\ Counted /\ mm' = t
                               /\ Go(t, Gives(at[t].op, new[1])) /\ UNCHANGED current
     ELSE GiveNext(t) /\ UNCHANGED <<list, worker>>
  /\ UNCHANGED <<max, tm>>

(* client::thread::send() under mm: holder() needs tm, client::send() the  *)
(* client's mutex.                                                         *)
Give(t) ==
  /\ at[t].pc = "gives" /\ tm[at[t].to] = Nobody /\ Open(at[t].to, t)
  /\ mm' = Nobody /\ Go(t, Idle)
  /\ UNCHANGED <<list, max, current, tm, worker, given>>

(* client::thread::send() of the handler's own client: holder() locks tm,  *)
(* and without a holder the block is dropped.                              *)
OwnSend(c) ==
  /\ at[c].pc = "wants" /\ at[c].op.op = "own" /\ tm[c] = Nobody
  /\ Go(c, Idle)
  /\ UNCHANGED <<list, max, current, mm, tm, worker, given>>

Returns(t) ==
  \/ Start(t) \/ Reconfigure(t) \/ ShrinkOne(t) \/ ShrinkDone(t)
  \/ Stop(t) \/ StopOne(t) \/ StopDone(t) \/ Halt(t) \/ Join(t)
  \/ Send(t) \/ SendOpt(t) \/ Give(t)

Step(t) == /\ \/ Returns(t)
              \/ t \in Clients /\ (OwnSend(t) \/ Ends(t))
           /\ UNCHANGED left

Next ==
  \/ \E t \in Users, op \in UserOps : Call(t, op)
  \/ \E c \in Clients, op \in HandlerOps : Handler(c, op)
  \/ \E t \in Threads : Step(t)

Spec == Init /\ [][Next]_vars

(* While some thread can go on, one does.  There are MaxCalls calls, and   *)
(* each has an end, so in time every thread that can go on has done so.    *)
FairSpec == Spec /\ WF_vars(\E t \in Threads : Step(t))
-----------------------------------------------------------------------------
(* The blocks go to the clients in turn: while the list stays the same no  *)
(* client is two turns ahead of another.                                   *)
InTurn == \A c \in Members : given[c] <= 1

(* The ways a client can be reached: from the list, from a stop() that has *)
(* yet to stop it or is stopping it.                                       *)
InRest(c, d) == d.pc = "stops" /\ \E i \in DOMAIN d.rest : d.rest[i] = c
Owners(c) ==
  {i \in DOMAIN list : list[i] = c}
  \cup {t \in Threads : InRest(c, at[t])}
  \cup {t \in Threads : at[t].pc \in {"halts", "joins"} /\ at[t].next.pc = "stops" /\
                          (at[t].who = c \/ InRest(c, at[t].next))}

(* Every client that was started is in one place only, where it is used or *)
(* will be stopped: no worker outlives the list, none is joined twice, and *)
(* there are never more clients than were asked for last.                  *)
NoOrphans ==
  /\ \A c \in Clients : Cardinality(Owners(c)) = IF worker[c] = "none" THEN 0 ELSE 1
  /\ mm = Nobody => Len(list) <= max

(* t waits for the worker of c: for its end, or for its handler to let go  *)
(* of the client's mutex.                                                  *)
AwaitsWorker(t, c) ==
  \/ at[t].pc = "joins" /\ at[t].who = c
  \/ at[t].pc = "halts" /\ at[t].who = c /\ ~Open(c, t)
  \/ at[t].pc = "gives" /\ at[t].to = c /\ ~Open(c, t)

(* The handler that the worker of c runs waits for a mutex of t: that of   *)
(* multi_base, or that of its own thread.                                  *)
AwaitsMutex(c, t) ==
  at[c].pc = "wants" /\ t = IF at[c].op.op = "own" THEN tm[c] ELSE mm

Wedged == \E t \in Threads, c \in Clients : AwaitsWorker(t, c) /\ AwaitsMutex(c, t)

(* Every call returns, whatever the handlers of the workers send, unless   *)
(* two threads wait for each other as above: when no more are called,      *)
(* nobody is in one.                                                       *)
EveryCallReturns == <>[](Wedged \/ \A t \in Threads : at[t] = Idle)
=============================================================================
