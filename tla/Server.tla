------------------------------- MODULE Server -------------------------------
(***************************************************************************)
(* io::server over descriptor::mtdup.  The origin listens.  Without        *)
(* threads it also accepts, on the io_context of the application; with     *)
(* threads each worker has an io_context, a duplicate of the origin's      *)
(* descriptor and an acceptor of its own.                                  *)
(*                                                                         *)
(* start() opens the origin before it takes the mutex of mtdup; stop()     *)
(* holds that mutex while it closes the acceptors, stops them, stops the   *)
(* workers and joins them.  An acceptor's mutex is held by its accept      *)
(* handler, which runs the user's startup handler.  Handlers of the user   *)
(* may call start() and stop() of the server.                              *)
(***************************************************************************)
EXTENDS Naturals, FiniteSets

CONSTANTS Callers,         \* the threads of the application
          Loop,          \* the thread that runs its io_context
          Workers,       \* each stands for its thread and its acceptor
          Origin,        \* the acceptor that listens
          NoThread,        \* the mutex is free
          ThreadCounts,  \* values of the option "threads"
          ServerCalls    \* bound on the calls

ServerThreads == Callers \cup Workers \cup {Loop}
Acceptors == Workers \cup {Origin}

VARIABLES
  lock,      \* who holds the mutex of mtdup
  doing,     \* where each thread is; in: whose accept handler it is in
  dups,      \* the workers of _dup_list, _services and _threads
  thread,    \* the worker threads
  port,      \* the descriptors; "bare" is open and does not listen
  status,    \* the acceptors' status
  accepts,   \* the accept of each acceptor: none, under way, or completed
  fatal,     \* an accept's error: none, to be handled, told to the user
  conns,     \* connections in each acceptor's manager
  todo       \* calls to come

server == <<lock, doing, dups, thread, port, status, accepts, fatal, conns, todo>>

Resting == [pc |-> "idle", in |-> NoThread]
At(pc, a) == [pc |-> pc, in |-> a]

ServerInit ==
  /\ lock = NoThread /\ doing = [t \in ServerThreads |-> Resting]
  /\ dups = {} /\ thread = [w \in Workers |-> "none"]
  /\ port = [a \in Acceptors |-> "closed"] /\ status = [a \in Acceptors |-> FALSE]
  /\ accepts = [a \in Acceptors |-> "none"] /\ fatal = [a \in Acceptors |-> "no"]
  /\ conns = [a \in Acceptors |-> 0] /\ todo = ServerCalls

(* The acceptor's mutex is recursive. *)
Free(a, t) == \A u \in ServerThreads \ {t} : doing[u].in # a

(* The thread that runs the acceptor's handlers, when it runs. *)
Runs(t, a) == \/ t = a /\ thread[a] = "running"
              \/ t = Loop /\ a = Origin

GoTo(t, where) == doing' = [doing EXCEPT ![t] = where]

(* The call returns, to the accept handler if it came from there. *)
Return(t) == GoTo(t, IF doing[t].in = NoThread THEN Resting ELSE At("back", doing[t].in))
-----------------------------------------------------------------------------
(* start() begins with listen() of the origin, stop() with the mutex. *)
Began(a) == {[pc |-> "listens", in |-> a, n |-> n] : n \in ThreadCounts}
            \cup {[pc |-> "waits", in |-> a, op |-> "stop"]}

(* A user, or a connection's handler, calls start() or stop(). *)
CallServer(t, op) ==
  /\ doing[t] = Resting /\ todo > 0 /\ GoTo(t, op) /\ todo' = todo - 1
  /\ t \in Callers \/ \E a \in Acceptors : Runs(t, a) /\ conns[a] > 0
  /\ UNCHANGED <<lock, dups, thread, port, status, accepts, fatal, conns>>

(* open() throws on an open descriptor, and may for another reason; so may *)
(* bind() and listen(), and bind() does while a descriptor of the old      *)
(* socket listens.  An origin that they leave stays open.                  *)
Listen(t) ==
  /\ doing[t].pc = "listens" /\ Free(Origin, t)
  /\ \/ Return(t) /\ UNCHANGED port
     \/ port[Origin] = "closed" /\ Return(t) /\ port' = [port EXCEPT ![Origin] = "bare"]
     \/ /\ port[Origin] = "closed" /\ \A w \in Workers : port[w] # "listening"
        /\ GoTo(t, [pc |-> "waits", in |-> doing[t].in, op |-> "start", n |-> doing[t].n])
        /\ port' = [port EXCEPT ![Origin] = "listening"]
  /\ UNCHANGED <<lock, dups, thread, status, accepts, fatal, conns, todo>>

Lock(t) ==
  /\ doing[t].pc = "waits" /\ lock = NoThread /\ lock' = t
  /\ GoTo(t, IF doing[t].op = "start"
           THEN [pc |-> "adds", in |-> doing[t].in, n |-> doing[t].n]
           ELSE [pc |-> "closes", in |-> doing[t].in, rest |-> dups \cup {Origin}])
  /\ UNCHANGED <<dups, thread, port, status, accepts, fatal, conns, todo>>

(* The acceptors of A start, with new managers; an accept on a descriptor  *)
(* that does not listen fails.                                             *)
StartAcceptors(A) ==
  LET ok == port[Origin] = "listening" IN
  /\ status'  = [a \in Acceptors |-> a \in A \/ status[a]]
  /\ accepts' = [a \in Acceptors |-> IF a \in A /\ ok THEN "armed" ELSE accepts[a]]
  /\ fatal'   = [a \in Acceptors |-> IF a \in A /\ ~ok THEN "coming"
                                     ELSE IF a \in A /\ fatal[a] = "told" THEN "no"
                                     ELSE fatal[a]]
  /\ conns'   = [a \in Acceptors |-> IF a \in A THEN 0 ELSE conns[a]]
  /\ port'    = [a \in Acceptors |-> IF a \in A THEN port[Origin] ELSE port[a]]

(* mtdup::start under the mutex.  dup() of the origin may throw, and of a  *)
(* closed one does; the workers made before stay.                          *)
Add(t) ==
  /\ doing[t].pc = "adds" /\ Free(Origin, t)
  /\ IF doing[t].n = 0
     THEN StartAcceptors({Origin}) /\ UNCHANGED <<dups, thread>>
     ELSE \E made \in IF port[Origin] = "closed" THEN {0} ELSE 0 .. doing[t].n :
          LET teams == {s \in SUBSET (Workers \ dups) : Cardinality(s) = made}
          IN \E new \in teams :
               /\ new = CHOOSE s \in teams : TRUE
               /\ StartAcceptors(new) /\ dups' = dups \cup new
               /\ thread' = [w \in Workers |-> IF w \in new THEN "running" ELSE thread[w]]
  /\ lock' = NoThread /\ Return(t) /\ UNCHANGED todo
-----------------------------------------------------------------------------
(* Origin first, then the others. *)
Takes(t, pc, a) == /\ doing[t].pc = pc /\ a \in doing[t].rest /\ Free(a, t)
                   /\ (a = Origin \/ Origin \notin doing[t].rest)
                   /\ GoTo(t, [doing[t] EXCEPT !.rest = @ \ {a}])

(* Mutant of Close: only the origin is closed. *)
CloseOrigin(t, a) ==
  /\ Takes(t, "closes", a)
  /\ port' = [port EXCEPT ![Origin] = "closed"]
  /\ accepts' = [accepts EXCEPT ![Origin] = IF @ = "armed" THEN "none" ELSE @]
  /\ UNCHANGED <<lock, dups, thread, status, fatal, conns, todo>>

(* close() cancels an accept; one that has completed is not canceled. *)
Close(t, a) ==
  /\ Takes(t, "closes", a)
  /\ port' = [port EXCEPT ![a] = "closed"]
  /\ accepts' = [accepts EXCEPT ![a] = IF @ = "armed" THEN "none" ELSE @]
  /\ UNCHANGED <<lock, dups, thread, status, fatal, conns, todo>>

(* Mutant of AllClosed: the origin is closed, and not stopped. *)
AllClosedDups(t) ==
  /\ doing[t].pc = "closes" /\ doing[t].rest = {}
  /\ GoTo(t, [pc |-> "stops", in |-> doing[t].in, rest |-> dups])
  /\ UNCHANGED <<lock, dups, thread, port, status, accepts, fatal, conns, todo>>

AllClosed(t) ==
  /\ doing[t].pc = "closes" /\ doing[t].rest = {}
  /\ GoTo(t, [pc |-> "stops", in |-> doing[t].in, rest |-> dups \cup {Origin}])
  /\ UNCHANGED <<lock, dups, thread, port, status, accepts, fatal, conns, todo>>

(* ad_stop of an acceptor closes again and drops the handlers to come. *)
StopAcceptor(t, a) ==
  /\ Takes(t, "stops", a)
  /\ status' = [status EXCEPT ![a] = FALSE]
  /\ port' = [port EXCEPT ![a] = "closed"]
  /\ accepts' = [accepts EXCEPT ![a] = "none"]
  /\ fatal' = [fatal EXCEPT ![a] = IF @ = "coming" THEN "no" ELSE @]
  /\ UNCHANGED <<lock, dups, thread, conns, todo>>

(* Mutant of AllStopped: the io_contexts run on. *)
AllStoppedRunning(t) ==
  /\ doing[t].pc = "stops" /\ doing[t].rest = {}
  /\ GoTo(t, At("joins", doing[t].in))
  /\ UNCHANGED <<lock, dups, thread, port, status, accepts, fatal, conns, todo>>

(* The io_contexts of the workers are stopped. *)
AllStopped(t) ==
  /\ doing[t].pc = "stops" /\ doing[t].rest = {}
  /\ thread' = [w \in Workers |-> IF w \in dups /\ thread[w] = "running"
                                  THEN "stopping" ELSE thread[w]]
  /\ GoTo(t, At("joins", doing[t].in))
  /\ UNCHANGED <<lock, dups, port, status, accepts, fatal, conns, todo>>

(* The workers are joined, their acceptors and connections destroyed.  A   *)
(* worker cannot join itself.                                              *)
JoinAll(t) ==
  /\ doing[t].pc = "joins" /\ \A w \in dups : w # t /\ thread[w] = "ended"
  /\ thread' = [w \in Workers |-> IF w \in dups THEN "none" ELSE thread[w]]
  /\ conns' = [a \in Acceptors |-> IF a \in dups THEN 0 ELSE conns[a]]
  /\ fatal' = [a \in Acceptors |-> IF a \in dups THEN "no" ELSE fatal[a]]
  /\ dups' = {} /\ lock' = NoThread /\ Return(t)
  /\ UNCHANGED <<port, status, accepts, todo>>
-----------------------------------------------------------------------------
(* The kernel completes an accept of a listening descriptor: with a        *)
(* connection, or with an error such as too many open files.               *)
Completes(a) ==
  /\ accepts[a] = "armed" /\ port[a] = "listening"
  /\ \/ accepts' = [accepts EXCEPT ![a] = "done"] /\ UNCHANGED fatal
     \/ /\ accepts' = [accepts EXCEPT ![a] = "none"]
        /\ fatal' = [fatal EXCEPT ![a] = "coming"]
  /\ UNCHANGED <<lock, doing, dups, thread, port, status, conns, todo>>

(* ad_more: the next accept, which fails when the descriptor was closed. *)
More(a) ==
  /\ accepts' = [accepts EXCEPT ![a] = IF status[a] /\ port[a] = "listening"
                                       THEN "armed" ELSE "none"]
  /\ fatal' = [fatal EXCEPT ![a] = IF status[a] /\ port[a] # "listening"
                                   THEN "coming" ELSE @]

(* The accept handler; max_connections is 1.  The user's startup handler   *)
(* may call the server.                                                    *)
Handle(t, a) ==
  /\ doing[t] = Resting /\ Runs(t, a) /\ accepts[a] = "done"
  /\ \/ /\ conns[a] = 0 /\ conns' = [conns EXCEPT ![a] = 1] /\ More(a)
        /\ UNCHANGED <<doing, todo>>
     \/ conns[a] > 0 /\ More(a) /\ UNCHANGED <<conns, doing, todo>>
     \/ /\ conns[a] = 0 /\ todo > 0 /\ todo' = todo - 1
        /\ \E op \in Began(a) : GoTo(t, op)
        /\ accepts' = [accepts EXCEPT ![a] = "none"] /\ UNCHANGED <<conns, fatal>>
  /\ UNCHANGED <<lock, dups, thread, port, status>>

(* The startup handler has returned: the rest of the accept handler. *)
Back(t) ==
  /\ doing[t].pc = "back" /\ GoTo(t, Resting)
  /\ conns' = [conns EXCEPT ![doing[t].in] = 1] /\ More(doing[t].in)
  /\ UNCHANGED <<lock, dups, thread, port, status, todo>>

(* The error goes to the fatal handler, and no accept is started. *)
Fatal(t, a) ==
  /\ doing[t] = Resting /\ Runs(t, a) /\ fatal[a] = "coming"
  /\ fatal' = [fatal EXCEPT ![a] = "told"]
  /\ UNCHANGED <<lock, doing, dups, thread, port, status, accepts, conns, todo>>

(* A connection ends and is erased. *)
ConnEnds(t, a) ==
  /\ doing[t] = Resting /\ Runs(t, a) /\ conns[a] > 0
  /\ conns' = [conns EXCEPT ![a] = 0]
  /\ UNCHANGED <<lock, doing, dups, thread, port, status, accepts, fatal, todo>>

(* run() of a worker returns when it is stopped, or out of work. *)
Leave(w) ==
  /\ doing[w] = Resting
  /\ \/ thread[w] = "stopping"
     \/ /\ thread[w] = "running" /\ conns[w] = 0
        /\ accepts[w] = "none" /\ fatal[w] # "coming"
  /\ thread' = [thread EXCEPT ![w] = "ended"]
  /\ UNCHANGED <<lock, doing, dups, port, status, accepts, fatal, conns, todo>>

(* What a call does, up to its return, and the end of a worker. *)
CallStep(t) ==
  \/ Listen(t) \/ Lock(t) \/ Add(t) \/ AllClosed(t) \/ AllStopped(t) \/ JoinAll(t)
  \/ \E a \in Acceptors : Close(t, a) \/ StopAcceptor(t, a)
  \/ Back(t)
  \/ t \in Workers /\ Leave(t)

ServerNext ==
  \/ \E t \in ServerThreads, op \in Began(NoThread) : CallServer(t, op)
  \/ \E t \in ServerThreads : CallStep(t)
  \/ \E a \in Acceptors : Completes(a)
  \/ \E t \in ServerThreads, a \in Acceptors : Handle(t, a) \/ Fatal(t, a) \/ ConnEnds(t, a)

ServerSpec == ServerInit /\ [][ServerNext]_server

(* While some call can go on, one does.  There are ServerCalls calls, and  *)
(* each has an end, so in time every call that can go on has done so.      *)
ServerFairSpec == ServerSpec /\ WF_server(\E t \in ServerThreads : CallStep(t))
-----------------------------------------------------------------------------
(* stop() closes every acceptor before it stops the first, so that nobody  *)
(* comes in by another one: from then on only the origin can be open       *)
(* again, for a start() that waits.                                        *)
ClosedFirst ==
  \A t \in ServerThreads : doing[t].pc \in {"stops", "joins"} =>
    \A a \in Acceptors : port[a] = "listening" =>
      a = Origin /\ \E u \in ServerThreads : doing[u].pc = "waits" /\ doing[u].op = "start"

Quiet == \A t \in ServerThreads : doing[t] = Resting

(* Between the calls, in whatever order the last of them overlapped and    *)
(* wherever a start() failed: a started acceptor accepts, or its failure   *)
(* is told to the user, and the list has a thread for each of its workers  *)
(* and for no other.                                                       *)
NeverDeaf ==
  Quiet =>
    /\ \A a \in Acceptors : status[a] => accepts[a] # "none" \/ fatal[a] # "no"
    /\ \A w \in Workers : w \in dups <=> thread[w] # "none"

(* The one with the mutex waits for one who waits for the mutex: for its   *)
(* end, in a worker's handler, for an acceptor's mutex, in its startup     *)
(* handler, or it is a worker and joins itself.                            *)
ServerWedged ==
  \E t, u \in ServerThreads : 
    /\ lock = t /\ doing[u].pc = (IF u = t THEN "joins" ELSE "waits")
    /\ \/ doing[t].pc = "joins" /\ u \in dups
       \/ doing[t].pc = "adds" /\ doing[u].in = Origin
       \/ doing[t].pc \in {"closes", "stops"} /\ doing[u].in \in doing[t].rest

(* Every start() and stop() returns, unless a handler is in the trap: when *)
(* no more are called, nobody is in one.                                   *)
CallsReturn == <>[](Quiet \/ ServerWedged)
=============================================================================
