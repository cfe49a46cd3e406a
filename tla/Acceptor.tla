------------------------------ MODULE Acceptor ------------------------------
(***************************************************************************)
(* iow/io/acceptor with its manager of connections (descriptor/manager.hpp)*)
(* and the calls that a server makes (descriptor/mtdup.hpp).  The acceptor *)
(* has a recursive mutex and each connection has its own; the steps end    *)
(* where a thread holds one of them and waits for another:                 *)
(*   - the accept handler holds the acceptor's and, in get_id(), waits for *)
(*     the connection's;                                                   *)
(*   - a handler that ends a connection holds the connection's and, in the *)
(*     shutdown handler, waits for the acceptor's.                         *)
(* A handler tests its owner before it waits for its first mutex.          *)
(***************************************************************************)
EXTENDS Naturals, FiniteSets

CONSTANTS Connections, IoThreads,
          MaxConnections,   \* max_connections, 0 for no limit
          None              \* no holder of a mutex

ASSUME AcceptorAssumption ==
  /\ IsFiniteSet(Connections) /\ None \notin IoThreads
  /\ MaxConnections \in Nat

VARIABLES
  acceptor,   \* status, descriptor and mutex; failed: the fatal handler ran
  conn,       \* the connections; current: the acceptor was not stopped since
              \* it made the connection's shutdown handler
  held,       \* the manager's map
  at,         \* what each thread is doing, and with which connection
  stray       \* an accept handler of a stopped acceptor ran

vars == <<acceptor, conn, held, at, stray>>

Idle == [place |-> "idle"]

(* "misarmed" is an accept that was started on a closed descriptor,        *)
(* "stillborn" a connection whose startup handler stopped it.              *)
Stages == {"closed", "accepting", "misarmed", "accepted", "live", "stillborn"}

(* The handlers of a session: its read, its write, the user's output(). *)
Handlers == 0 .. 2

Dead == [stage |-> "closed", current |-> FALSE, handlers |-> 0, lock |-> None]

Init ==
  /\ acceptor = [status |-> FALSE, open |-> FALSE, lock |-> None, failed |-> FALSE]
  /\ conn = [c \in Connections |-> Dead]
  /\ held = {} /\ at = [t \in IoThreads |-> Idle]
  /\ stray = FALSE

Waits(t, place, c) == at[t] = [place |-> place, conn |-> c]

InHands(c, places) == \E t \in IoThreads, p \in places : Waits(t, p, c)

With(t) == {c \in Connections : at[t] # Idle /\ at[t].conn = c}

Places == {"ok", "blocked", "error", "get_id", "end", "erase"}

(* Nothing refers to the connection any more: a new one may have its name. *)
Unused(conns, map, places) ==
  {c \in Connections : /\ conns[c].stage = "closed" /\ c \notin map
                       /\ \A t \in IoThreads : places[t] = Idle \/ places[t].conn # c}

(* ad_more with ad_next and ad_some: a connection is made and an accept    *)
(* into it started.  map and places are those after the step.              *)
More(a, conns, map, places) ==
  IF ~a.status THEN conn' = conns
  ELSE LET unused == Unused(conns, map, places) IN
       \E c \in unused :
         /\ c = CHOOSE d \in unused : TRUE
         /\ conn' = [conns EXCEPT ![c] =
                      [Dead EXCEPT !.stage = IF a.open THEN "accepting" ELSE "misarmed",
                                   !.current = TRUE]]
-----------------------------------------------------------------------------
(* The user: listen() and start().  ad_initialize replaces the manager and *)
(* so destroys the connections of the last one, but for those in whose     *)
(* handlers a thread is.                                                   *)
Start ==
  /\ ~acceptor.status /\ acceptor.lock = None
  /\ acceptor' = [acceptor EXCEPT !.status = TRUE, !.open = TRUE, !.failed = FALSE]
  /\ held' = {}
  /\ More(acceptor',
          [c \in Connections |->
             IF c \in held /\ ~InHands(c, Places) THEN Dead ELSE conn[c]],
          held', at)
  /\ UNCHANGED <<at, stray>>

(* mtdup::stop closes the acceptors before it stops them. *)
Close ==
  /\ acceptor.status /\ acceptor.open /\ acceptor.lock = None
  /\ acceptor' = [acceptor EXCEPT !.open = FALSE]
  /\ UNCHANGED <<conn, held, at, stray>>

(* The owner's reset drops the accepts under way and the shutdown handlers *)
(* of the connections, which live on.                                      *)
Stop ==
  /\ acceptor.status /\ ~acceptor.open /\ acceptor.lock = None
  /\ acceptor' = [acceptor EXCEPT !.status = FALSE]
  /\ conn' = [c \in Connections |->
                IF conn[c].stage \in {"accepting", "misarmed"} THEN Dead
                ELSE [conn[c] EXCEPT !.current = FALSE]]
  /\ UNCHANGED <<held, at, stray>>
-----------------------------------------------------------------------------
Take(t, place, c) ==
  /\ at[t] = Idle
  /\ at' = [at EXCEPT ![t] = [place |-> place, conn |-> c]]
  /\ UNCHANGED <<acceptor, held, stray>>

(* A thread takes the completed accept.  A success may have been queued    *)
(* before the descriptor was closed.                                       *)
Accepted(t, c) ==
  /\ \/ conn[c].stage = "accepting" /\ Take(t, "ok", c)
     \/ conn[c].stage = "accepting" /\ acceptor.open /\ Take(t, "blocked", c)
     \/ conn[c].stage = "accepting" /\ acceptor.open /\ Take(t, "error", c)
     \/ conn[c].stage = "misarmed" /\ Take(t, "error", c)
  /\ conn' = [conn EXCEPT ![c].stage = "accepted"]

(* operation_canceled: nothing is done. *)
Canceled(c) ==
  /\ conn[c].stage = "accepting" /\ ~acceptor.open
  /\ conn' = [conn EXCEPT ![c] = Dead]
  /\ UNCHANGED <<acceptor, held, at, stray>>

Room == MaxConnections = 0 \/ Cardinality(held) < MaxConnections

(* The thread, at the first mutex of the accept handler. *)
Enter(t, place, c) ==
  /\ Waits(t, place, c) /\ acceptor.lock = None
  /\ stray' = (stray \/ ~conn[c].current)

(* ad_confirm, up to get_id(): the connection starts.  Its startup handler *)
(* may stop it, and the shutdown handler then has nothing to erase: the    *)
(* connection is attached without any handler that would ever end it.      *)
ConfirmStart(t, c) ==
  /\ Enter(t, "ok", c) /\ Room
  /\ acceptor' = [acceptor EXCEPT !.lock = t]
  /\ at' = [at EXCEPT ![t].place = "get_id"]
  /\ \/ conn' = [conn EXCEPT ![c].stage = "live", ![c].handlers = 2]
     \/ conn' = [conn EXCEPT ![c].stage = "stillborn"]
  /\ UNCHANGED held

(* Mutant of ConfirmAttach: a connection that a stopped acceptor accepted  *)
(* is not attached.                                                        *)
ConfirmAttachStarted(t, c) ==
  /\ Waits(t, "get_id", c) /\ conn[c].lock = None
  /\ acceptor' = [acceptor EXCEPT !.lock = None]
  /\ at' = [at EXCEPT ![t] = Idle]
  /\ held' = IF acceptor.status THEN held \cup {c} ELSE held
  /\ More(acceptor, conn, held', at')
  /\ UNCHANGED stray

(* The rest of ad_confirm and ad_complete.  Meanwhile the connection may   *)
(* have ended, if it found the acceptor stopped.                           *)
ConfirmAttach(t, c) ==
  /\ Waits(t, "get_id", c) /\ conn[c].lock = None
  /\ acceptor' = [acceptor EXCEPT !.lock = None]
  /\ at' = [at EXCEPT ![t] = Idle]
  /\ held' = held \cup {c}
  /\ More(acceptor, conn, held', at')
  /\ UNCHANGED stray

(* Mutant of ConfirmRefuse: no further accept. *)
ConfirmRefuseEnds(t, c) ==
  /\ Enter(t, "ok", c) /\ ~Room
  /\ at' = [at EXCEPT ![t] = Idle]
  /\ conn' = [conn EXCEPT ![c] = Dead]
  /\ UNCHANGED <<acceptor, held>>

(* Mutant of ConfirmRefuse: with the acceptor's mutex it asks a connection *)
(* in the map, which has a mutex of its own, before it goes on.            *)
ConfirmRefuseAsks(t, c) ==
  /\ Enter(t, "ok", c) /\ ~Room
  /\ acceptor' = [acceptor EXCEPT !.lock = t]
  /\ conn' = [conn EXCEPT ![c] = Dead]
  /\ \E d \in held : at' = [at EXCEPT ![t] = [place |-> "get_id", conn |-> d]]
  /\ UNCHANGED held

(* No room: the connection is closed. *)
ConfirmRefuse(t, c) ==
  /\ Enter(t, "ok", c) /\ ~Room
  /\ at' = [at EXCEPT ![t] = Idle]
  /\ More(acceptor, [conn EXCEPT ![c] = Dead], held, at')
  /\ UNCHANGED <<acceptor, held>>

WouldBlock(t, c) ==
  /\ Enter(t, "blocked", c)
  /\ at' = [at EXCEPT ![t] = Idle]
  /\ More(acceptor, [conn EXCEPT ![c] = Dead], held, at')
  /\ UNCHANGED <<acceptor, held>>

(* Any other error goes to the fatal handler; no further accept is started.*)
Fatal(t, c) ==
  /\ Enter(t, "error", c)
  /\ acceptor' = [acceptor EXCEPT !.failed = TRUE]
  /\ conn' = [conn EXCEPT ![c] = Dead]
  /\ at' = [at EXCEPT ![t] = Idle]
  /\ UNCHANGED held
-----------------------------------------------------------------------------
(* A thread finds the connection's owner alive, in a handler of its read,  *)
(* its write or its output, and is going to stop it.  The connection may   *)
(* not be attached yet.                                                    *)
Ends(t, c) ==
  /\ conn[c].stage = "live" /\ conn[c].handlers > 0
  /\ Take(t, "end", c)
  /\ conn' = [conn EXCEPT ![c].handlers = @ - 1]

(* Of a closed connection only another handler that is to end it reads     *)
(* more than that.                                                         *)
Closed(c) ==
  [conn EXCEPT ![c] =
     [Dead EXCEPT !.current = conn[c].current /\ InHands(c, {"end"})]]

(* The thread has the connection's mutex and calls the shutdown handler.   *)
(* If the acceptor was stopped, that does nothing.                         *)
EndLocked(t, c) ==
  /\ Waits(t, "end", c) /\ conn[c].lock = None
  /\ IF conn[c].current
     THEN /\ conn' = [conn EXCEPT ![c].lock = t]
          /\ at' = [at EXCEPT ![t].place = "erase"]
     ELSE /\ conn' = Closed(c)
          /\ at' = [at EXCEPT ![t] = Idle]
  /\ UNCHANGED <<acceptor, held, stray>>

(* Mutant of Erase: nothing is erased. *)
EraseNothing(t, c) ==
  /\ Waits(t, "erase", c) /\ acceptor.lock = None
  /\ conn' = Closed(c)
  /\ at' = [at EXCEPT ![t] = Idle]
  /\ UNCHANGED <<acceptor, held, stray>>

(* manager::erase, then the rest of the connection's stop. *)
Erase(t, c) ==
  /\ Waits(t, "erase", c) /\ acceptor.lock = None
  /\ held' = held \ {c}
  /\ conn' = Closed(c)
  /\ at' = [at EXCEPT ![t] = Idle]
  /\ UNCHANGED <<acceptor, stray>>
-----------------------------------------------------------------------------
HandlerNext(t) == \E c \in With(t) :
  \/ ConfirmStart(t, c) \/ ConfirmAttach(t, c) \/ ConfirmRefuse(t, c)
  \/ WouldBlock(t, c) \/ Fatal(t, c) \/ EndLocked(t, c) \/ Erase(t, c)

Next ==
  \/ Start \/ Close \/ Stop
  \/ \E c \in Connections : Canceled(c)
  \/ \E t \in IoThreads, c \in Connections : Accepted(t, c) \/ Ends(t, c)
  \/ \E t \in IoThreads : HandlerNext(t)

Spec == Init /\ [][Next]_vars

(* A thread that holds a mutex runs on; one that waits gets it some day.   *)
Fairness == \A t \in IoThreads : SF_vars(HandlerNext(t))

FairSpec == Spec /\ Fairness
-----------------------------------------------------------------------------
(* The types; each mutex is held by the one worker that is inside it.      *)
TypeOK ==
  /\ acceptor \in [status : BOOLEAN, open : BOOLEAN, failed : BOOLEAN,
                   lock : IoThreads \cup {None}]
  /\ conn \in [Connections -> [stage : Stages, current : BOOLEAN,
                               handlers : Handlers, lock : IoThreads \cup {None}]]
  /\ held \subseteq Connections /\ stray \in BOOLEAN
  /\ at \in [IoThreads -> {Idle} \cup [place : Places, conn : Connections]]
  /\ \A t \in IoThreads : acceptor.lock = t <=> at[t].place = "get_id"
  /\ \A t \in IoThreads, c \in Connections : conn[c].lock = t <=> Waits(t, "erase", c)

(* A connection in the map that has ended is one that its own startup      *)
(* handler stopped, or one that ended without its shutdown handler, when   *)
(* the acceptor was stopped: dead connections would use up                 *)
(* max_connections.                                                        *)
NoGhosts ==
  \A c \in held : conn[c].current => conn[c].stage \in {"live", "stillborn"}

(* manager::erase takes it for an error that an ended connection is not    *)
(* found in the map: each one is attached before it ends.                  *)
NoDead == \A c \in held : conn[c].current => conn[c].stage = "live"

(* A live connection has an owner, the map or the handler at work: the     *)
(* operations refer to it weakly, and it would vanish.                     *)
Owned == \A c \in Connections :
  conn[c].stage = "live" => c \in held \/ InHands(c, Places)

Accepting == {c \in Connections : conn[c].stage \in {"accepting", "misarmed", "accepted"}}

(* An open acceptor has one accept under way or in its handler, and a      *)
(* stopped one none: a second chain of accepts comes only from a handler   *)
(* of an earlier start.                                                    *)
OneAccept ==
  /\ acceptor.status /\ acceptor.open /\ ~acceptor.failed /\ ~stray =>
       Cardinality({c \in Accepting : conn[c].current} \cup
         {c \in Connections : InHands(c, {"get_id"})}) = 1
  /\ ~acceptor.status => \A c \in Accepting : conn[c].stage = "accepted"

(* A new connection ends on another thread before the accept handler has   *)
(* its id: each of the two has the mutex that the other waits for.         *)
Crossed == \E t, u \in IoThreads, c \in Connections :
  Waits(t, "get_id", c) /\ c \notin held /\ Waits(u, "erase", c)

(* Whatever a thread has begun it finishes, unless the two orders in which *)
(* the mutexes are taken meet at one new connection: at no other place,    *)
(* and by no chain of threads and connections, do they.                    *)
Finishes == \A t \in IoThreads : (at[t] # Idle) ~> (at[t] = Idle \/ Crossed)
=============================================================================
