------------------------------- MODULE Client -------------------------------
(***************************************************************************)
(* iow/io/client/client.hpp over connection.hpp: one client with its       *)
(* reconnecting, run by the threads of an io_service and called by the     *)
(* user.  The calls nest (stop runs the shutdown handler, which closes the *)
(* socket and orders a reconnect; a synchronous connect starts the session *)
(* inside start), so a step is a composition of functions of the client's  *)
(* state c, all under its recursive mutex.                                 *)
(*                                                                         *)
(* The owner drops the handlers of a stopped session, so that the          *)
(* operations below are those of the current one.  But a handler tests the *)
(* owner before it takes the mutex: a thread may sit between the two (at)  *)
(* while the session ends under it (late).                                 *)
(***************************************************************************)
EXTENDS Naturals, FiniteSets

CONSTANTS IoThreads,
          Options,    \* the option records with which a client may be made
          Beyond      \* follow a history beyond its first hasty step

ASSUME ClientAssumption ==
  /\ IsFiniteSet(IoThreads) /\ Beyond \in BOOLEAN
  /\ Options \subseteq [async : BOOLEAN, byRequest : BOOLEAN,
                        sequence : BOOLEAN, ping : BOOLEAN]

VARIABLES c, opt,
          hasty   \* the user or a late handler interfered with a reconnect

vars == <<c, opt, hasty>>

Places == {"idle", "connected", "refused", "ended", "answer", "ping"}

ClientState ==
  [started : BOOLEAN, configured : BOOLEAN, connected : BOOLEAN, ready : BOOLEAN,
   sock       : {"closed", "unconnected", "connecting", "open"},
   failed     : Nat,   \* connects that completed with an error
   timers     : Nat,   \* reconnects ordered from the delayed handler
   pings      : Nat,   \* pings ordered from it, of this session
   output     : {"none", "live", "dead"},   \* _output_handler
   handled    : BOOLEAN,   \* the context has the client's shutdown_handler
   reading    : BOOLEAN,   \* the asynchronous operations
   writing    : BOOLEAN,
   unanswered : BOOLEAN,   \* a request of this session waits for its answer
   at         : [IoThreads -> Places],
   late       : SUBSET IoThreads]

Init ==
  /\ c = [started |-> FALSE, configured |-> FALSE, connected |-> FALSE,
          ready |-> FALSE, sock |-> "closed", failed |-> 0, timers |-> 0,
          pings |-> 0, output |-> "none", handled |-> FALSE, reading |-> FALSE,
          writing |-> FALSE, unanswered |-> FALSE,
          at |-> [t \in IoThreads |-> "idle"], late |-> {}]
  /\ opt \in Options /\ hasty = FALSE

Busy(d) == {t \in IoThreads : d.at[t] # "idle"}

(* ad_close: reads and writes are cancelled, which is only logged, and a   *)
(* running connect fails.                                                  *)
CloseSocket(d) ==
  [d EXCEPT !.sock = "closed", !.reading = FALSE, !.writing = FALSE,
            !.failed = IF d.sock = "connecting" THEN @ + 1 ELSE @]

(* Mutant of DelayedReconnect: it asks for a connection, not for a start. *)
ReconnectIfConnected(d) ==
  LET e == CloseSocket(d)
  IN  IF ~d.connected THEN d
      ELSE IF opt.byRequest THEN e ELSE [e EXCEPT !.timers = @ + 1]

(* delayed_reconnect_. *)
DelayedReconnect(d) ==
  LET e == CloseSocket(d)
  IN  IF ~d.started THEN d
      ELSE IF opt.byRequest THEN e ELSE [e EXCEPT !.timers = @ + 1]

(* Mutants of OnClosed: one assignment is missing or wrong. *)
OnClosedConnected(d) == DelayedReconnect([d EXCEPT !.ready = opt.byRequest])
(* The shutdown_handler and the error_handler that upgrate_options_ makes. *)
OnClosed(d) ==
  DelayedReconnect([d EXCEPT !.ready = opt.byRequest, !.connected = FALSE])

(* ad_stop: before_stop with the shutdown handler, then the owner's reset. *)
StopConnection(d) ==
  LET e == CloseSocket(IF d.handled THEN OnClosed(d) ELSE d)
  IN  [e EXCEPT !.failed = 0, !.pings = 0, !.unanswered = FALSE,
                !.output = IF @ = "live" THEN "dead" ELSE @,
                !.late = Busy(e)]

(* The fields that start() copies from the options. *)
Pings(d)  == d.configured /\ opt.ping
Duplex(d) == d.configured /\ opt.sequence

(* client_start_ and startup_handler_; on a closed socket ad_initialize    *)
(* throws after it has set the handlers.                                   *)
StartSession(d) ==
  IF d.sock = "closed" THEN [d EXCEPT !.handled = TRUE]
  ELSE [d EXCEPT !.handled = TRUE, !.connected = TRUE, !.ready = TRUE,
                 !.output = "live", !.reading = TRUE, !.unanswered = FALSE,
                 !.pings = IF Pings(d) THEN @ + 1 ELSE @]

(* ad_connect.  A connect on a socket that is connecting or connected      *)
(* fails; a synchronous one runs its handler before it returns.            *)
Connect(d, success) ==
  LET free == d.sock \in {"closed", "unconnected"}
  IN  IF opt.async
      THEN IF free THEN [d EXCEPT !.sock = "connecting"]
           ELSE [d EXCEPT !.failed = @ + 1]
      ELSE IF free /\ success THEN StartSession([d EXCEPT !.sock = "open"])
      ELSE OnClosed(IF free THEN [d EXCEPT !.sock = "unconnected"] ELSE d)

(* send_: the output handler writes, and may stop the connection by an     *)
(* overflow; that of a dead session calls the input handler instead.       *)
Send(d, overflow) ==
  LET s == IF Duplex(d) THEN [d EXCEPT !.ready = FALSE] ELSE d
  IN  CASE ~d.ready \/ d.output = "none" -> d
        [] d.ready /\ d.output = "live" /\ overflow -> StopConnection(s)
        [] d.ready /\ d.output = "live" /\ ~overflow ->
             [s EXCEPT !.unanswered = TRUE, !.writing = TRUE]
        [] d.ready /\ d.output = "dead" ->
             [s EXCEPT !.ready = @ \/ d.connected]
-----------------------------------------------------------------------------
(* Nothing is under way that may still connect, refuse or reconnect. *)
Calm(d) == /\ d.sock = "closed" /\ d.timers = 0 /\ d.failed = 0
           /\ Busy(d) = {}

(* The user's calls.  hasty remembers a call made while a reconnect, a     *)
(* connect or a handler of before was still under way.                     *)
UserStart(success) ==
  /\ ~c.started
  /\ LET d == [c EXCEPT !.started = TRUE, !.configured = TRUE,
                        !.connected = FALSE, !.ready = opt.byRequest]
     IN  c' = IF opt.byRequest THEN d ELSE Connect(d, success)
  /\ hasty' = (hasty \/ ~Calm(c))
  /\ UNCHANGED opt

(* Mutant of UserStop: the session ends before the client is stopped. *)
UserStopLate ==
  /\ c.started
  /\ c' = [StopConnection(c) EXCEPT !.started = FALSE, !.connected = FALSE,
                                    !.ready = FALSE]
  /\ UNCHANGED <<opt, hasty>>

UserStop ==
  /\ c.started
  /\ c' = StopConnection([c EXCEPT !.started = FALSE, !.connected = FALSE,
                                   !.ready = FALSE])
  /\ UNCHANGED <<opt, hasty>>

UserShutdown ==
  /\ c' = StopConnection([c EXCEPT !.connected = FALSE, !.ready = FALSE])
  /\ hasty' = (hasty \/ ~c.connected \/ Busy(c) # {})
  /\ UNCHANGED opt

UserClose ==
  /\ c' = CloseSocket([c EXCEPT !.connected = FALSE, !.ready = FALSE])
  /\ hasty' = TRUE
  /\ UNCHANGED opt

UserConnect(success) ==
  /\ c' = Connect(c, success)
  /\ hasty' = (hasty \/ c.started \/ ~Calm(c))
  /\ UNCHANGED opt

(* send with options: a client that connects by request connects first. *)
UserSend(success, overflow) ==
  /\ LET connects == ~c.connected /\ opt.byRequest /\ c.configured
         d == IF connects THEN Connect(c, success) ELSE c
     IN  /\ c' = IF d.connected THEN Send(d, overflow) ELSE d
         /\ hasty' = (hasty \/ (connects /\ ~Calm(c)))
  /\ UNCHANGED opt
-----------------------------------------------------------------------------
(* A thread takes a completed operation and finds its owner alive. *)
Take(t, place, d) ==
  /\ c.at[t] = "idle"
  /\ c' = [d EXCEPT !.at[t] = place]
  /\ UNCHANGED <<opt, hasty>>

ConnectDone(t) == /\ c.sock = "connecting"
                  /\ Take(t, "connected", [c EXCEPT !.sock = "open"])

ConnectRefused(t) ==
  \/ /\ c.sock = "connecting"
     /\ Take(t, "refused", [c EXCEPT !.sock = "unconnected"])
  \/ /\ c.failed > 0
     /\ Take(t, "refused", [c EXCEPT !.failed = @ - 1])

ReadEnds(t)   == c.reading /\ Take(t, "ended", [c EXCEPT !.reading = FALSE])
WriteFails(t) == c.writing /\ Take(t, "ended", [c EXCEPT !.writing = FALSE])

(* The peer answers each request once. *)
Answered(t) == /\ c.reading /\ c.unanswered
               /\ Take(t, "answer", [c EXCEPT !.unanswered = FALSE])

PingDue(t) == c.pings > 0 /\ Take(t, "ping", [c EXCEPT !.pings = @ - 1])

(* The thread has the mutex and runs the rest of its handler as d. *)
Handle(t, place, d) ==
  /\ c.at[t] = place
  /\ c' = [d EXCEPT !.at[t] = "idle", !.late = @ \ {t}]
  /\ hasty' = (hasty \/ t \in c.late)
  /\ UNCHANGED opt

(* Mutant of HandleRefused: the refusal is noted and forgotten. *)
HandleRefusedOnce(t) ==
  Handle(t, "refused", CloseSocket([c EXCEPT !.connected = FALSE]))

HandleConnected(t) == Handle(t, "connected", StartSession(c))
HandleRefused(t)   == Handle(t, "refused", OnClosed(c))
HandleEnded(t)     == Handle(t, "ended", StopConnection(c))

(* The input handler of upgrate_options_ for sequence_duplex_mode. *)
HandleAnswer(t) ==
  Handle(t, "answer",
         [c EXCEPT !.ready = @ \/ (Duplex(c) /\ c.connected)])

(* Mutant of HandlePing: the next ping waits for a free client. *)
HandlePingOnce(t) ==
  \E overflow \in BOOLEAN : Handle(t, "ping", Send(c, overflow))

(* ping_: not ready ends the chain of pings. *)
HandlePing(t) ==
  \E overflow \in BOOLEAN :
    LET s == Send(c, overflow)
    IN  Handle(t, "ping",
               IF c.ready THEN [s EXCEPT !.pings = @ + 1] ELSE c)

WriteDone == /\ c.writing /\ c' = [c EXCEPT !.writing = FALSE]
             /\ UNCHANGED <<opt, hasty>>

(* The reconnect timer; no owner drops it. *)
Timer(success) ==
  /\ c.timers > 0
  /\ LET d == [c EXCEPT !.timers = @ - 1]
     IN  c' = IF c.started THEN Connect(d, success) ELSE d
  /\ UNCHANGED <<opt, hasty>>

UserNext ==
  \/ \E success \in BOOLEAN : UserStart(success) \/ UserConnect(success)
  \/ \E success, overflow \in BOOLEAN : UserSend(success, overflow)
  \/ UserStop \/ UserShutdown \/ UserClose

HandlerNext(t) ==
  \/ HandleConnected(t) \/ HandleRefused(t) \/ HandleEnded(t)
  \/ HandleAnswer(t) \/ HandlePing(t)

IoNext ==
  \/ \E t \in IoThreads :
       \/ ConnectDone(t) \/ ConnectRefused(t) \/ ReadEnds(t)
       \/ WriteFails(t) \/ Answered(t) \/ PingDue(t)
       \/ HandlerNext(t)
  \/ \E success \in BOOLEAN : Timer(success)
  \/ WriteDone

(* Beyond bounds the histories: what a second reconnect under way leads to *)
(* has no end, each closes the other's socket and orders a new one.        *)
Next == (hasty => Beyond) /\ (UserNext \/ IoNext)

Spec == Init /\ [][Next]_vars

(* Handlers get the mutex, timers fire, refusals are delivered, and an     *)
(* attempt made again and again meets a listening server some day.         *)
Fairness ==
  /\ \A t \in IoThreads : WF_vars(HandlerNext(t))
  /\ WF_vars(\E success \in BOOLEAN : Timer(success))
  /\ SF_vars(Timer(TRUE))
  /\ WF_vars(\E t \in IoThreads : ConnectDone(t) \/ ConnectRefused(t))
  /\ SF_vars(\E t \in IoThreads : ConnectDone(t))

FairSpec == Spec /\ Fairness
-----------------------------------------------------------------------------
(* The types; only a duty that is under way can be late.                   *)
TypeOK == /\ c \in ClientState /\ opt \in Options /\ hasty \in BOOLEAN
          /\ c.late \subseteq Busy(c)

(* The threads with a handler of the current session at one of the places. *)
CurrentAt(places) == {t \in IoThreads \ c.late : c.at[t] \in places}

One(condition) == IF condition THEN 1 ELSE 0

(* A started client is always in exactly one of these: it waits for a      *)
(* reconnect, connects, or has a session.  None would be a client that     *)
(* never comes back, two would close each other's sockets for ever.        *)
OneWay == c.started /\ ~opt.byRequest /\ ~hasty =>
  1 = c.timers + c.failed + One(c.sock = "connecting")
      + Cardinality(CurrentAt({"connected", "refused"}))
      + One(c.reading \/ CurrentAt({"ended"}) # {})

(* A connected client has a session that will tell it of its end, and the  *)
(* output handler of that session.                                         *)
ConnectedMeansSession == c.connected /\ ~hasty =>
  /\ c.sock = "open" /\ c.output = "live" /\ c.handled
  /\ c.reading \/ CurrentAt({"ended"}) # {}

(* A connected client goes on pinging: the next ping is ordered by the     *)
(* last one.  (In duplex mode a ping that meets an unanswered request ends *)
(* the chain.)                                                             *)
KeepsPinging == Pings(c) /\ ~Duplex(c) /\ c.connected /\ ~hasty =>
  c.pings > 0 \/ CurrentAt({"ping"}) # {}

(* options.hpp on sequence_duplex_mode: until the answer comes the client  *)
(* is not available.                                                       *)
UnavailableUntilAnswer == Duplex(c) /\ c.connected /\ c.unanswered => ~c.ready

(* stop() orders no reconnect, although the shutdown handler that it runs   *)
(* does so for a started client, and leaves no socket open.                *)
StopIsFinal == [][c.started /\ ~c'.started =>
  c'.timers = c.timers /\ c'.sock = "closed" /\ ~c'.connected]_vars

(* A started client connects, when the server may be reached.              *)
EventuallyConnected ==
  (c.started /\ ~opt.byRequest) ~> (c.connected \/ ~c.started \/ hasty)
=============================================================================
