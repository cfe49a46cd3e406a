---------------------------- MODULE ClientProofs ----------------------------
(***************************************************************************)
(* Proofs about Client, for any number of io threads and any set of modes. *)
(* The functions of the client's state are lemmas about typed states; each *)
(* action is a composition of them.                                        *)
(***************************************************************************)
EXTENDS Client, FiniteSetTheorems, TLAPS

(* A state of the client whose late threads are busy. *)
Typed(d) == d \in ClientState /\ d.late \subseteq Busy(d)

(* Each function of the client's state keeps it typed. *)
LEMMA CloseSocketTyped ==
  ASSUME NEW d, Typed(d)
  PROVE  Typed(CloseSocket(d))
<1> DEFINE n == IF d.sock = "connecting" THEN d.failed + 1 ELSE d.failed
<1>0. n \in Nat /\ CloseSocket(d) = [d EXCEPT !.sock = "closed", !.reading = FALSE,
                                                !.writing = FALSE, !.failed = n]
  BY DEF Typed, ClientState, CloseSocket
<1> HIDE DEF n
<1>1. CloseSocket(d) \in ClientState
  BY <1>0 DEF Typed, ClientState
<1>2. CloseSocket(d).at = d.at /\ CloseSocket(d).late = d.late
  BY DEF Typed, ClientState, CloseSocket
<1>3. QED
  BY <1>1, <1>2 DEF Typed, Busy

LEMMA OnClosedTyped ==
  ASSUME NEW d, Typed(d), TypeOK
  PROVE  Typed(OnClosed(d))
<1> DEFINE e == [d EXCEPT !.ready = opt.byRequest, !.connected = FALSE]
           f == CloseSocket(e)
<1>1. opt.byRequest \in BOOLEAN
  BY ClientAssumption DEF TypeOK
<1>2. Typed(e)
  BY <1>1 DEF Typed, ClientState, Busy
<1>3. Typed(f)
  BY <1>2, CloseSocketTyped
<1>4. Typed([f EXCEPT !.timers = @ + 1])
  BY <1>3 DEF Typed, ClientState, Busy
<1>5. QED
  BY <1>2, <1>3, <1>4 DEF OnClosed, DelayedReconnect

LEMMA StopConnectionTyped ==
  ASSUME NEW d, Typed(d), TypeOK
  PROVE  Typed(StopConnection(d))
<1> DEFINE e == CloseSocket(IF d.handled THEN OnClosed(d) ELSE d)
<1>1. Typed(e)
  BY OnClosedTyped, CloseSocketTyped
<1> DEFINE o == IF e.output = "live" THEN "dead" ELSE e.output
<1>2. o \in {"none", "live", "dead"} /\ Busy(e) \subseteq IoThreads
  BY <1>1 DEF Typed, ClientState, Busy
<1>3. StopConnection(d) = [e EXCEPT !.failed = 0, !.pings = 0, !.unanswered = FALSE,
                                    !.output = o, !.late = Busy(e)]
  BY DEF StopConnection
<1> HIDE DEF e, o
<1> DEFINE e1 == [e EXCEPT !.failed = 0, !.pings = 0, !.late = Busy(e)]
           e2 == [e1 EXCEPT !.output = o, !.unanswered = FALSE]
<1>4. e1 \in ClientState /\ e1.at = e.at /\ e1.late = Busy(e)
  BY <1>1, <1>2 DEF Typed, ClientState
<1>5. StopConnection(d) = e2
  BY <1>1, <1>3 DEF Typed, ClientState
<1> HIDE DEF e1
<1>6. e2 \in ClientState /\ e2.at = e.at /\ e2.late = Busy(e)
  BY <1>2, <1>4 DEF ClientState
<1>7. QED
  BY <1>5, <1>6 DEF Typed, Busy

LEMMA StartSessionTyped ==
  ASSUME NEW d, Typed(d)
  PROVE  Typed(StartSession(d))
<1> DEFINE p == IF Pings(d) THEN d.pings + 1 ELSE d.pings
           e1 == [d EXCEPT !.handled = TRUE, !.connected = TRUE, !.ready = TRUE]
           e2 == [e1 EXCEPT !.output = "live", !.reading = TRUE]
           e3 == [e2 EXCEPT !.unanswered = FALSE, !.pings = p]
<1>1. p \in Nat
  BY DEF Typed, ClientState
<1>2. StartSession(d) = IF d.sock = "closed" THEN [d EXCEPT !.handled = TRUE] ELSE e3
  BY DEF Typed, ClientState, StartSession
<1> HIDE DEF p
<1>3. Typed(e1) /\ Typed([d EXCEPT !.handled = TRUE])
  BY DEF Typed, ClientState, Busy
<1> HIDE DEF e1
<1>4. Typed(e2)
  BY <1>3 DEF Typed, ClientState, Busy
<1> HIDE DEF e2
<1>5. Typed(e3)
  BY <1>1, <1>4 DEF Typed, ClientState, Busy
<1>6. QED
  BY <1>2, <1>3, <1>5

LEMMA ConnectTyped ==
  ASSUME NEW d, Typed(d), TypeOK, NEW success \in BOOLEAN
  PROVE  Typed(Connect(d, success))
<1>1. Typed([d EXCEPT !.sock = "connecting"]) /\ Typed([d EXCEPT !.failed = @ + 1])
      /\ Typed([d EXCEPT !.sock = "open"]) /\ Typed([d EXCEPT !.sock = "unconnected"])
  BY DEF Typed, ClientState, Busy
<1>2. Typed(StartSession([d EXCEPT !.sock = "open"]))
  BY <1>1, StartSessionTyped
<1>3. Typed(OnClosed([d EXCEPT !.sock = "unconnected"])) /\ Typed(OnClosed(d))
  BY <1>1, OnClosedTyped
<1>4. QED
  BY <1>1, <1>2, <1>3 DEF Connect

LEMMA SendTyped ==
  ASSUME NEW d, Typed(d), TypeOK, NEW overflow \in BOOLEAN
  PROVE  Typed(Send(d, overflow))
<1> DEFINE s == IF Duplex(d) THEN [d EXCEPT !.ready = FALSE] ELSE d
<1>1. Typed(s)
  <2>1. Typed([d EXCEPT !.ready = FALSE])
    BY DEF Typed, ClientState, Busy
  <2>2. QED
    BY <2>1
<1>2. Typed(StopConnection(s))
  BY <1>1, StopConnectionTyped
<1>3. Typed([s EXCEPT !.unanswered = TRUE, !.writing = TRUE])
      /\ Typed([s EXCEPT !.ready = @ \/ d.connected])
  <2>1. d.connected \in BOOLEAN
    BY DEF Typed, ClientState
  <2> HIDE DEF s
  <2>2. (s.ready \/ d.connected) \in BOOLEAN
    OBVIOUS
  <2>3. QED
    BY <1>1, <2>2 DEF Typed, ClientState, Busy
<1>4. d.output \in {"none", "live", "dead"} /\ d.ready \in BOOLEAN
  BY DEF Typed, ClientState
<1>5. QED
  BY <1>1, <1>2, <1>3, <1>4 DEF Send
-----------------------------------------------------------------------------
(* Taking a completion and ending a handler. *)
LEMMA TakeTyped ==
  ASSUME TypeOK, NEW t \in IoThreads, NEW place \in Places \ {"idle"}, NEW d,
         d \in ClientState, d.at = c.at, d.late = c.late, Take(t, place, d)
  PROVE  TypeOK'
<1>1. c' \in ClientState
  BY DEF Take, ClientState
<1>2. c'.late \subseteq Busy(c')
  BY DEF Take, ClientState, TypeOK, Busy
<1>3. QED
  BY <1>1, <1>2 DEF Take, TypeOK, Busy

LEMMA HandleTyped ==
  ASSUME TypeOK, NEW t \in IoThreads, NEW place, NEW d, Typed(d), Handle(t, place, d)
  PROVE  TypeOK'
<1>1. c' \in ClientState
  BY DEF Handle, ClientState, Typed, Places
<1>2. c'.late \subseteq Busy(c')
  BY DEF Handle, ClientState, Typed, Busy
<1>3. QED
  BY <1>1, <1>2 DEF Handle, TypeOK, Busy
-----------------------------------------------------------------------------
(* The client is made typed. *)
LEMMA TypeInit == Init => TypeOK
<1> SUFFICES ASSUME Init PROVE TypeOK
  OBVIOUS
<1>1. c.at \in [IoThreads -> Places] /\ c.late \subseteq Busy(c)
  BY DEF Init, Places, Busy
<1>2. c \in ClientState
  BY <1>1 DEF Init, ClientState
<1>3. QED
  BY <1>1, <1>2 DEF Init, TypeOK

(* The user's calls. *)
LEMMA UserNextTyped ==
  ASSUME TypeOK, UserNext
  PROVE  TypeOK'
<1>1. Typed(c) /\ opt.byRequest \in BOOLEAN
  BY ClientAssumption DEF TypeOK, Typed
<1>2. SUFFICES Typed(c') /\ opt' = opt /\ hasty' \in BOOLEAN
  BY DEF TypeOK, Typed, Busy
<1>3. ASSUME NEW success \in BOOLEAN, UserStart(success)
      PROVE  Typed(c') /\ opt' = opt /\ hasty' \in BOOLEAN
  <2> DEFINE d == [c EXCEPT !.started = TRUE, !.configured = TRUE,
                            !.connected = FALSE, !.ready = opt.byRequest]
  <2>1. Typed(d)
    BY <1>1 DEF Typed, ClientState, Busy
  <2>2. Typed(Connect(d, success))
    BY <2>1, ConnectTyped
  <2>3. QED
    BY <1>3, <2>1, <2>2 DEF UserStart, TypeOK
<1>4. ASSUME NEW success \in BOOLEAN, UserConnect(success)
      PROVE  Typed(c') /\ opt' = opt /\ hasty' \in BOOLEAN
  BY <1>1, <1>4, ConnectTyped DEF UserConnect, TypeOK
<1>5. ASSUME NEW success \in BOOLEAN, NEW overflow \in BOOLEAN, UserSend(success, overflow)
      PROVE  Typed(c') /\ opt' = opt /\ hasty' \in BOOLEAN
  BY <1>1, <1>5, ConnectTyped, SendTyped DEF UserSend, TypeOK
<1>6. Typed([c EXCEPT !.connected = FALSE, !.ready = FALSE])
      /\ Typed([c EXCEPT !.started = FALSE, !.connected = FALSE, !.ready = FALSE])
  BY <1>1 DEF Typed, ClientState, Busy
<1>7. CASE UserStop
  BY <1>6, <1>7, StopConnectionTyped DEF UserStop, TypeOK
<1>8. CASE UserShutdown
  BY <1>6, <1>8, StopConnectionTyped DEF UserShutdown, TypeOK
<1>9. CASE UserClose
  BY <1>6, <1>9, CloseSocketTyped DEF UserClose, TypeOK
<1>10. QED
  BY <1>3, <1>4, <1>5, <1>7, <1>8, <1>9 DEF UserNext

(* A thread takes a completion. *)
LEMMA TakenTyped ==
  ASSUME TypeOK, NEW t \in IoThreads,
         \/ ConnectDone(t) \/ ConnectRefused(t) \/ ReadEnds(t)
         \/ WriteFails(t) \/ Answered(t) \/ PingDue(t)
  PROVE  TypeOK'
<1> DEFINE Same(d) == d \in ClientState /\ d.at = c.at /\ d.late = c.late
<1>1. /\ Same([c EXCEPT !.sock = "open"]) /\ Same([c EXCEPT !.sock = "unconnected"])
      /\ Same([c EXCEPT !.reading = FALSE]) /\ Same([c EXCEPT !.writing = FALSE])
      /\ Same([c EXCEPT !.unanswered = FALSE])
  BY DEF TypeOK, ClientState
<1>2. /\ c.failed > 0 => Same([c EXCEPT !.failed = @ - 1])
      /\ c.pings > 0 => Same([c EXCEPT !.pings = @ - 1])
  BY DEF TypeOK, ClientState
<1>3. QED
  BY <1>1, <1>2, TakeTyped
     DEF ConnectDone, ConnectRefused, ReadEnds, WriteFails, Answered, PingDue, Places

(* A handler runs. *)
LEMMA HandlerNextTyped ==
  ASSUME TypeOK, NEW t \in IoThreads, HandlerNext(t)
  PROVE  TypeOK'
<1>1. Typed(c)
  BY DEF TypeOK, Typed
<1>2. CASE HandleConnected(t)
  BY <1>1, <1>2, StartSessionTyped, HandleTyped DEF HandleConnected
<1>3. CASE HandleRefused(t)
  BY <1>1, <1>3, OnClosedTyped, HandleTyped DEF HandleRefused
<1>4. CASE HandleEnded(t)
  BY <1>1, <1>4, StopConnectionTyped, HandleTyped DEF HandleEnded
<1>5. CASE HandleAnswer(t)
  <2> DEFINE r == c.ready \/ (Duplex(c) /\ c.connected)
  <2>1. Typed([c EXCEPT !.ready = r])
    BY <1>1 DEF Typed, ClientState, Busy
  <2>2. QED
    BY <1>5, <2>1, HandleTyped DEF HandleAnswer
<1>6. CASE HandlePing(t)
  <2>1. PICK overflow \in BOOLEAN :
          Handle(t, "ping", IF c.ready THEN [Send(c, overflow) EXCEPT !.pings = @ + 1] ELSE c)
    BY <1>6 DEF HandlePing
  <2>2. Typed(Send(c, overflow))
    BY <1>1, SendTyped
  <2>3. Typed([Send(c, overflow) EXCEPT !.pings = @ + 1])
    BY <2>2 DEF Typed, ClientState, Busy
  <2>4. QED
    BY <1>1, <2>1, <2>3, HandleTyped
<1>7. QED
  BY <1>2, <1>3, <1>4, <1>5, <1>6 DEF HandlerNext

(* Every step keeps the types. *)
LEMMA TypeStep == TypeOK /\ [Next]_vars => TypeOK'
<1> SUFFICES ASSUME TypeOK, [Next]_vars PROVE TypeOK'
  OBVIOUS
<1>1. Typed(c)
  BY DEF TypeOK, Typed
<1>2. CASE UserNext
  BY <1>2, UserNextTyped
<1>3. ASSUME NEW t \in IoThreads,
             \/ ConnectDone(t) \/ ConnectRefused(t) \/ ReadEnds(t)
             \/ WriteFails(t) \/ Answered(t) \/ PingDue(t)
      PROVE  TypeOK'
  BY <1>3, TakenTyped
<1>4. ASSUME NEW t \in IoThreads, HandlerNext(t)
      PROVE  TypeOK'
  BY <1>4, HandlerNextTyped
<1>5. ASSUME NEW success \in BOOLEAN, Timer(success)
      PROVE  TypeOK'
  <2>1. Typed([c EXCEPT !.timers = @ - 1])
    BY <1>1, <1>5 DEF Typed, ClientState, Busy, Timer
  <2>2. Typed(Connect([c EXCEPT !.timers = @ - 1], success))
    BY <2>1, ConnectTyped
  <2>3. Typed(c')
    BY <1>5, <2>1, <2>2 DEF Timer
  <2>4. QED
    BY <1>5, <2>3 DEF Timer, TypeOK, Typed, Busy
<1>6. CASE WriteDone
  BY <1>6 DEF WriteDone, TypeOK, ClientState, Busy
<1>7. CASE UNCHANGED vars
  BY <1>7 DEF vars, TypeOK, Busy
<1>8. QED
  BY <1>2, <1>3, <1>4, <1>5, <1>6, <1>7 DEF Next, IoNext

(* The client's variables keep their types, and only a handler that a      *)
(* thread is in is late.                                                   *)
THEOREM TypeCorrect == Spec => []TypeOK
<1>1. QED
  BY TypeInit, TypeStep, PTL DEF Spec
-----------------------------------------------------------------------------
(* The inductive invariant of the histories that are not hasty: what the   *)
(* three properties say together, of any state d of the client.            *)
Cur(d, places) == {t \in IoThreads \ d.late : d.at[t] \in places}
Pending(d) == Cur(d, {"connected", "refused"})
Session(d) == d.reading \/ Cur(d, {"ended"}) # {}

(* The ways back to a session, and the session itself. *)
Ways(d) == d.timers + d.failed + One(d.sock = "connecting")
           + Cardinality(Pending(d)) + One(Session(d))

Sound(d) ==
  /\ Ways(d) <= 1 /\ (d.started /\ ~opt.byRequest => Ways(d) = 1)
  /\ d.connected <=> Session(d)
  /\ d.output = "live" <=> d.connected
  /\ d.connected => d.sock = "open" /\ d.handled /\ (Duplex(d) \/ d.ready)
  /\ d.connected /\ Pings(d) /\ ~Duplex(d) => d.pings > 0 \/ Cur(d, {"ping"}) # {}
  /\ d.writing => d.connected
  /\ Cur(d, {"connected"}) # {} => d.sock = "open"

IInv == TypeOK /\ (~hasty => Sound(c))

(* A state with no way and no session. *)
Still(d) ==
  /\ d.timers = 0 /\ d.failed = 0 /\ d.sock # "connecting" /\ Pending(d) = {}
  /\ ~Session(d) /\ ~d.connected /\ d.output # "live" /\ ~d.writing

(* Finite sets, so that they can be counted. *)
LEMMA PendingFinite ==
  ASSUME NEW d, Typed(d)
  PROVE  /\ IsFiniteSet(Pending(d)) /\ Cardinality(Pending(d)) \in Nat
         /\ Cardinality(Pending(d)) = 0 <=> Pending(d) = {}
<1>1. IsFiniteSet(IoThreads) /\ Pending(d) \subseteq IoThreads
  BY ClientAssumption DEF Pending, Cur
<1>2. IsFiniteSet(Pending(d))
  BY <1>1, FS_Subset
<1>3. QED
  BY <1>2, FS_CardinalityType, FS_EmptySet

(* With a way of one kind there is none of another. *)
LEMMA OnlyWay ==
  ASSUME NEW d, Typed(d), Ways(d) <= 1
  PROVE  /\ d.timers > 0 => /\ d.timers = 1 /\ d.failed = 0 /\ d.sock # "connecting"
                           /\ Pending(d) = {} /\ ~Session(d)
         /\ Pending(d) # {} => /\ d.timers = 0 /\ d.failed = 0 /\ d.sock # "connecting"
                              /\ Cardinality(Pending(d)) = 1 /\ ~Session(d)
         /\ Session(d) => /\ d.timers = 0 /\ d.failed = 0 /\ d.sock # "connecting"
                         /\ Pending(d) = {}
<1>1. d.timers \in Nat /\ d.failed \in Nat
  BY DEF Typed, ClientState
<1>2. QED
  BY <1>1, PendingFinite DEF Ways, One

(* A client with a session, and one without. *)
LEMMA SessionSound ==
  ASSUME NEW d, Typed(d), Pending(d) = {}, d.timers = 0, d.failed = 0, d.sock = "open",
         d.handled, d.connected, d.ready, d.output = "live", d.reading,
         Pings(d) => d.pings > 0
  PROVE  Sound(d)
<1>1. Cardinality(Pending(d)) = 0 /\ Cur(d, {"connected"}) = {}
  BY PendingFinite DEF Pending, Cur
<1>2. Ways(d) = 1
  BY <1>1 DEF Ways, Session, One
<1>3. QED
  BY <1>1, <1>2 DEF Sound, Session

LEMMA NoSessionSound ==
  ASSUME NEW d, Typed(d), Pending(d) = {}, d.timers <= 1, d.failed = 0,
         d.sock # "connecting", ~Session(d), ~d.connected, d.output # "live", ~d.writing,
         d.started /\ ~opt.byRequest => d.timers = 1
  PROVE  Sound(d)
<1>1. Cardinality(Pending(d)) = 0 /\ Cur(d, {"connected"}) = {} /\ d.timers \in Nat
  BY PendingFinite DEF Pending, Cur, Typed, ClientState
<1>2. Ways(d) = d.timers
  BY <1>1 DEF Ways, One
<1>3. QED
  BY <1>1, <1>2 DEF Sound

-----------------------------------------------------------------------------
(* What the functions do, field by field. *)
LEMMA CloseSocketDoes ==
  ASSUME NEW d, Typed(d), NEW e, e = CloseSocket(d)
  PROVE  /\ e.sock = "closed" /\ ~e.reading /\ ~e.writing
         /\ e.failed = IF d.sock = "connecting" THEN d.failed + 1 ELSE d.failed
         /\ e.timers = d.timers /\ e.pings = d.pings /\ e.output = d.output
         /\ e.handled = d.handled /\ e.connected = d.connected /\ e.ready = d.ready
         /\ e.started = d.started /\ e.configured = d.configured
         /\ e.at = d.at /\ e.late = d.late
<1> DEFINE n == IF d.sock = "connecting" THEN d.failed + 1 ELSE d.failed
<1>1. e = [d EXCEPT !.sock = "closed", !.reading = FALSE, !.writing = FALSE, !.failed = n]
  BY DEF Typed, ClientState, CloseSocket
<1> HIDE DEF n
<1>2. e.sock = "closed" /\ ~e.reading /\ ~e.writing /\ e.failed = n
  BY <1>1 DEF Typed, ClientState
<1>3. /\ e.timers = d.timers /\ e.pings = d.pings /\ e.output = d.output
      /\ e.handled = d.handled /\ e.connected = d.connected /\ e.ready = d.ready
      /\ e.started = d.started /\ e.configured = d.configured
      /\ e.at = d.at /\ e.late = d.late
  BY <1>1 DEF Typed, ClientState
<1>4. QED
  BY <1>2, <1>3 DEF n

LEMMA OnClosedDoes ==
  ASSUME NEW d, Typed(d), TypeOK, NEW e, e = OnClosed(d)
  PROVE  /\ ~e.connected /\ e.output = d.output
         /\ e.handled = d.handled /\ e.started = d.started /\ e.configured = d.configured
         /\ e.at = d.at /\ e.late = d.late
         /\ e.timers = IF d.started /\ ~opt.byRequest THEN d.timers + 1 ELSE d.timers
         /\ d.started => e.sock = "closed" /\ ~e.reading /\ ~e.writing
         /\ ~d.started => /\ e.sock = d.sock /\ e.reading = d.reading
                         /\ e.writing = d.writing
         /\ e.failed = IF d.started /\ d.sock = "connecting"
                       THEN d.failed + 1 ELSE d.failed
<1> DEFINE f == [d EXCEPT !.ready = opt.byRequest, !.connected = FALSE]
           g == CloseSocket(f)
<1>1. Typed(f)
  BY ClientAssumption DEF Typed, ClientState, Busy, TypeOK
<1>2. /\ ~f.connected /\ f.output = d.output /\ f.handled = d.handled
      /\ f.started = d.started /\ f.configured = d.configured /\ f.at = d.at
      /\ f.late = d.late /\ f.timers = d.timers /\ f.sock = d.sock
      /\ f.reading = d.reading /\ f.writing = d.writing /\ f.failed = d.failed
  BY DEF Typed, ClientState
<1>3. e = IF ~f.started THEN f
          ELSE IF opt.byRequest THEN g ELSE [g EXCEPT !.timers = @ + 1]
  BY DEF OnClosed, DelayedReconnect
<1> HIDE DEF f
<1>4. /\ Typed(g) /\ g.sock = "closed" /\ ~g.reading /\ ~g.writing
      /\ g.failed = IF f.sock = "connecting" THEN f.failed + 1 ELSE f.failed
      /\ g.timers = f.timers /\ g.output = f.output /\ g.handled = f.handled
      /\ g.connected = f.connected /\ g.started = f.started
      /\ g.configured = f.configured /\ g.at = f.at /\ g.late = f.late
  BY <1>1, CloseSocketTyped, CloseSocketDoes
<1> HIDE DEF g
<1>5. CASE ~f.started
  BY <1>2, <1>3, <1>5
<1>6. CASE f.started /\ opt.byRequest
  BY <1>2, <1>3, <1>4, <1>6
<1>7. CASE f.started /\ ~opt.byRequest
  <2>1. e = [g EXCEPT !.timers = @ + 1]
    BY <1>3, <1>7
  <2>2. /\ e.timers = g.timers + 1 /\ e.sock = g.sock /\ e.reading = g.reading
        /\ e.writing = g.writing /\ e.failed = g.failed /\ e.output = g.output
        /\ e.handled = g.handled /\ e.connected = g.connected /\ e.started = g.started
        /\ e.configured = g.configured /\ e.at = g.at /\ e.late = g.late
    BY <2>1, <1>4 DEF Typed, ClientState
  <2>3. QED
    BY <2>2, <1>2, <1>4, <1>7
<1>8. QED
  BY <1>5, <1>6, <1>7

LEMMA StopConnectionDoes ==
  ASSUME NEW d, Typed(d), TypeOK, NEW e, e = StopConnection(d)
  PROVE  /\ e.connected => d.connected /\ ~d.handled
         /\ e.output # "live" /\ e.started = d.started /\ e.at = d.at
         /\ e.sock = "closed" /\ ~e.reading /\ ~e.writing /\ e.failed = 0
         /\ e.timers = IF d.handled /\ d.started /\ ~opt.byRequest
                       THEN d.timers + 1 ELSE d.timers
         /\ \A places : "idle" \notin places => Cur(e, places) = {}
<1> DEFINE f == IF d.handled THEN OnClosed(d) ELSE d
           g == CloseSocket(f)
           o == IF g.output = "live" THEN "dead" ELSE g.output
<1>1. /\ Typed(f) /\ (f.connected => d.connected /\ ~d.handled)
      /\ f.started = d.started /\ f.at = d.at
      /\ f.timers = IF d.handled /\ d.started /\ ~opt.byRequest
                    THEN d.timers + 1 ELSE d.timers
  <2>1. CASE d.handled
    BY <2>1, OnClosedTyped, OnClosedDoes
  <2>2. CASE ~d.handled
    BY <2>2
  <2>3. QED
    BY <2>1, <2>2
<1> HIDE DEF f
<1>2. /\ Typed(g) /\ g.sock = "closed" /\ ~g.reading /\ ~g.writing
      /\ g.timers = f.timers /\ g.connected = f.connected
      /\ g.started = f.started /\ g.at = f.at
  BY <1>1, CloseSocketTyped, CloseSocketDoes
<1>3. e = [g EXCEPT !.failed = 0, !.pings = 0, !.unanswered = FALSE,
                    !.output = o, !.late = Busy(g)]
  BY DEF StopConnection, f
<1>4. o # "live"
  OBVIOUS
<1> HIDE DEF g, o
<1>5. e.output = o /\ e.failed = 0 /\ e.late = Busy(g) /\ e.at = g.at
  BY <1>2, <1>3 DEF Typed, ClientState
<1>6. /\ e.connected = g.connected /\ e.started = g.started /\ e.timers = g.timers
      /\ e.sock = g.sock /\ e.reading = g.reading /\ e.writing = g.writing
  BY <1>2, <1>3 DEF Typed, ClientState
<1>7. \A places : "idle" \notin places => Cur(e, places) = {}
  BY <1>5 DEF Cur, Busy
<1>8. QED
  BY <1>1, <1>2, <1>4, <1>5, <1>6, <1>7

LEMMA StartSessionDoes ==
  ASSUME NEW d, Typed(d), d.sock # "closed", NEW e, e = StartSession(d)
  PROVE  /\ e.handled /\ e.connected /\ e.ready /\ e.output = "live" /\ e.reading
         /\ Pings(d) => e.pings > 0
         /\ e.sock = d.sock /\ e.timers = d.timers /\ e.failed = d.failed
         /\ e.started = d.started /\ e.configured = d.configured
         /\ e.at = d.at /\ e.late = d.late
<1> DEFINE p == IF Pings(d) THEN d.pings + 1 ELSE d.pings
<1>1. Pings(d) => p > 0
  BY DEF Typed, ClientState
<1>2. e = [d EXCEPT !.handled = TRUE, !.connected = TRUE, !.ready = TRUE,
                    !.output = "live", !.reading = TRUE, !.unanswered = FALSE, !.pings = p]
  BY DEF Typed, ClientState, StartSession
<1> HIDE DEF p
<1>3. e.handled /\ e.connected /\ e.ready /\ e.output = "live" /\ e.reading /\ e.pings = p
  BY <1>2 DEF Typed, ClientState
<1>4. /\ e.sock = d.sock /\ e.timers = d.timers /\ e.failed = d.failed
      /\ e.started = d.started /\ e.configured = d.configured
      /\ e.at = d.at /\ e.late = d.late
  BY <1>2 DEF Typed, ClientState
<1>5. QED
  BY <1>1, <1>3, <1>4
-----------------------------------------------------------------------------
(* Only the user starts and stops a client. *)
LEMMA StartedKept ==
  ASSUME NEW d, Typed(d), TypeOK
  PROVE  /\ CloseSocket(d).started = d.started /\ OnClosed(d).started = d.started
         /\ StopConnection(d).started = d.started /\ StartSession(d).started = d.started
         /\ \A success \in BOOLEAN : Connect(d, success).started = d.started
         /\ \A overflow \in BOOLEAN : Send(d, overflow).started = d.started
<1>1. CloseSocket(d).started = d.started
  BY CloseSocketDoes
<1>2. ASSUME NEW e, Typed(e)
      PROVE  OnClosed(e).started = e.started
  BY <1>2, OnClosedDoes
<1>3. ASSUME NEW e, Typed(e)
      PROVE  StopConnection(e).started = e.started
  BY <1>3, StopConnectionDoes
<1>4. ASSUME NEW e, Typed(e)
      PROVE  StartSession(e).started = e.started
  <2>1. CASE e.sock = "closed"
    BY <1>4, <2>1 DEF Typed, ClientState, StartSession
  <2>2. CASE e.sock # "closed"
    BY <1>4, <2>2, StartSessionDoes
  <2>3. QED
    BY <2>1, <2>2
<1>5. ASSUME NEW success \in BOOLEAN
      PROVE  Connect(d, success).started = d.started
  <2> DEFINE With(sock) == [d EXCEPT !.sock = sock]
  <2>1. \A sock \in {"connecting", "open", "unconnected"} :
          Typed(With(sock)) /\ With(sock).started = d.started
    BY DEF Typed, ClientState, Busy
  <2>2. [d EXCEPT !.failed = @ + 1].started = d.started
    BY DEF Typed, ClientState
  <2>3. QED
    BY <2>1, <2>2, <1>2, <1>4 DEF Connect
<1>6. ASSUME NEW overflow \in BOOLEAN
      PROVE  Send(d, overflow).started = d.started
  <2> DEFINE s == IF Duplex(d) THEN [d EXCEPT !.ready = FALSE] ELSE d
  <2>1. Typed([d EXCEPT !.ready = FALSE]) /\ [d EXCEPT !.ready = FALSE].started = d.started
    BY DEF Typed, ClientState, Busy
  <2>2. Typed(s) /\ s.started = d.started
    BY <2>1
  <2> HIDE DEF s
  <2>3. /\ StopConnection(s).started = d.started
        /\ [s EXCEPT !.unanswered = TRUE, !.writing = TRUE].started = d.started
        /\ [s EXCEPT !.ready = @ \/ d.connected].started = d.started
    BY <2>2, <1>3 DEF Typed, ClientState
  <2>4. d.output \in {"none", "live", "dead"} /\ d.ready \in BOOLEAN
    BY DEF Typed, ClientState
  <2>5. QED
    BY <2>3, <2>4 DEF Send, s
<1>7. QED
  BY <1>1, <1>2, <1>3, <1>4, <1>5, <1>6

LEMMA OnlyUserStops ==
  ASSUME TypeOK, [Next]_vars, c.started, ~c'.started
  PROVE  UserStop
<1>1. Typed(c)
  BY DEF TypeOK, Typed
<1>2. c'.started = c.started \/ UserStop
  <2>1. CASE UserNext
    <3>1. ASSUME NEW success \in BOOLEAN, UserConnect(success)
          PROVE  c'.started = c.started
      BY <1>1, <3>1, StartedKept DEF UserConnect
    <3>2. ASSUME NEW success \in BOOLEAN, NEW overflow \in BOOLEAN,
                 UserSend(success, overflow)
          PROVE  c'.started = c.started
      BY <1>1, <3>2, StartedKept, ConnectTyped DEF UserSend
    <3>3. CASE UserShutdown \/ UserClose
      <4> DEFINE d == [c EXCEPT !.connected = FALSE, !.ready = FALSE]
      <4>1. Typed(d) /\ d.started = c.started
        BY <1>1 DEF Typed, ClientState, Busy
      <4>2. QED
        BY <3>3, <4>1, StartedKept DEF UserShutdown, UserClose
    <3>4. QED
      BY <2>1, <3>1, <3>2, <3>3 DEF UserNext, UserStart
  <2>2. ASSUME NEW t \in IoThreads,
               \/ ConnectDone(t) \/ ConnectRefused(t) \/ ReadEnds(t)
               \/ WriteFails(t) \/ Answered(t) \/ PingDue(t)
        PROVE  c'.started = c.started
    <3>1. ASSUME NEW d, NEW place, d \in ClientState, d.started = c.started,
                 Take(t, place, d)
          PROVE  c'.started = c.started
      BY <3>1 DEF Take, ClientState
    <3> DEFINE Same(d) == d \in ClientState /\ d.started = c.started
    <3>2. /\ Same([c EXCEPT !.sock = "open"]) /\ Same([c EXCEPT !.sock = "unconnected"])
          /\ Same([c EXCEPT !.reading = FALSE]) /\ Same([c EXCEPT !.writing = FALSE])
          /\ Same([c EXCEPT !.unanswered = FALSE])
      BY DEF TypeOK, ClientState
    <3>3. /\ c.failed > 0 => Same([c EXCEPT !.failed = @ - 1])
          /\ c.pings > 0 => Same([c EXCEPT !.pings = @ - 1])
      <4>1. /\ c.failed > 0 => [c EXCEPT !.failed = @ - 1] \in ClientState
            /\ c.pings > 0 => [c EXCEPT !.pings = @ - 1] \in ClientState
        BY DEF TypeOK, ClientState
      <4>2. /\ [c EXCEPT !.failed = @ - 1].started = c.started
            /\ [c EXCEPT !.pings = @ - 1].started = c.started
        BY DEF TypeOK, ClientState
      <4>3. QED
        BY <4>1, <4>2
    <3>4. QED
      BY <2>2, <3>1, <3>2, <3>3
         DEF ConnectDone, ConnectRefused, ReadEnds, WriteFails, Answered, PingDue
  <2>3. ASSUME NEW t \in IoThreads, HandlerNext(t)
        PROVE  c'.started = c.started
    <3>1. ASSUME NEW d, NEW place, Typed(d), d.started = c.started, Handle(t, place, d)
          PROVE  c'.started = c.started
      BY <3>1 DEF Handle, Typed, ClientState
    <3>2. CASE HandleConnected(t) \/ HandleRefused(t) \/ HandleEnded(t)
      BY <1>1, <3>1, <3>2, StartedKept, StartSessionTyped, OnClosedTyped,
         StopConnectionTyped DEF HandleConnected, HandleRefused, HandleEnded
    <3>3. CASE HandleAnswer(t)
      <4> DEFINE ready == c.ready \/ (Duplex(c) /\ c.connected)
                 d == [c EXCEPT !.ready = ready]
      <4>1. Typed(d) /\ d.started = c.started
        BY <1>1 DEF Typed, ClientState, Busy
      <4>2. QED
        BY <3>1, <3>3, <4>1 DEF HandleAnswer
    <3>4. CASE HandlePing(t)
      <4>1. PICK overflow \in BOOLEAN :
              Handle(t, "ping",
                     IF c.ready THEN [Send(c, overflow) EXCEPT !.pings = @ + 1] ELSE c)
        BY <3>4 DEF HandlePing
      <4>2. Typed(Send(c, overflow)) /\ Send(c, overflow).started = c.started
        BY <1>1, SendTyped, StartedKept
      <4> DEFINE d == [Send(c, overflow) EXCEPT !.pings = @ + 1]
      <4> DEFINE s == Send(c, overflow)
      <4>3. d \in ClientState /\ d.at = s.at /\ d.late = s.late /\ d.started = s.started
        <5> HIDE DEF s
        <5>1. [s EXCEPT !.pings = @ + 1] \in ClientState
          BY <4>2 DEF Typed, ClientState, s
        <5>2. /\ [s EXCEPT !.pings = @ + 1].at = s.at
              /\ [s EXCEPT !.pings = @ + 1].late = s.late
              /\ [s EXCEPT !.pings = @ + 1].started = s.started
          BY <4>2 DEF Typed, ClientState, s
        <5>3. QED
          BY <5>1, <5>2 DEF s
      <4>4. Typed(d) /\ d.started = c.started
        BY <4>2, <4>3 DEF Typed, Busy
      <4>5. QED
        BY <1>1, <3>1, <4>1, <4>4
    <3>5. QED
      BY <2>3, <3>2, <3>3, <3>4 DEF HandlerNext
  <2>4. ASSUME NEW success \in BOOLEAN, Timer(success)
        PROVE  c'.started = c.started
    <3> DEFINE d == [c EXCEPT !.timers = @ - 1]
    <3>1. c.timers > 0
      BY <2>4 DEF Timer
    <3>2. d \in ClientState /\ d.at = c.at /\ d.late = c.late /\ d.started = c.started
      <4>1. d \in ClientState
        BY <1>1, <3>1 DEF Typed, ClientState
      <4>2. d.at = c.at /\ d.late = c.late /\ d.started = c.started
        BY <1>1 DEF Typed, ClientState
      <4>3. QED
        BY <4>1, <4>2
    <3>3. Typed(d)
      BY <1>1, <3>2 DEF Typed, Busy
    <3>4. QED
      BY <2>4, <3>2, <3>3, StartedKept DEF Timer
  <2>5. CASE WriteDone \/ UNCHANGED vars
    BY <2>5 DEF WriteDone, vars, TypeOK, ClientState
  <2>6. QED
    BY <2>1, <2>2, <2>3, <2>4, <2>5 DEF Next, IoNext
<1>3. QED
  BY <1>2

(* stop() orders no reconnect although the shutdown handler that it runs   *)
(* does so for a started client, and it leaves no socket open.             *)
THEOREM StopIsFinalHolds == Spec => StopIsFinal
<1>1. ASSUME TypeOK, [Next]_vars, c.started, ~c'.started
      PROVE  c'.timers = c.timers /\ c'.sock = "closed" /\ ~c'.connected
  <2> DEFINE d == [c EXCEPT !.started = FALSE, !.connected = FALSE, !.ready = FALSE]
  <2>1. Typed(d) /\ ~d.started /\ ~d.connected /\ d.timers = c.timers
    BY <1>1 DEF TypeOK, Typed, ClientState, Busy
  <2>2. c' = StopConnection(d)
    BY <1>1, OnlyUserStops DEF UserStop
  <2> HIDE DEF d
  <2>3. QED
    BY <1>1, <2>1, <2>2, StopConnectionDoes
<1>2. TypeOK /\ [Next]_vars =>
        [c.started /\ ~c'.started =>
           c'.timers = c.timers /\ c'.sock = "closed" /\ ~c'.connected]_vars
  BY <1>1
<1>3. QED
  BY <1>2, TypeCorrect, PTL DEF Spec, StopIsFinal
-----------------------------------------------------------------------------
(* What the functions do to Sound. *)
LEMMA StopSound ==
  ASSUME NEW d, Typed(d), TypeOK, d.timers <= 1, d.connected => d.handled,
         d.started /\ ~opt.byRequest => d.timers = IF d.handled THEN 0 ELSE 1
  PROVE  Sound(StopConnection(d))
<1> DEFINE e == StopConnection(d)
<1>1. Typed(e) /\ d.timers \in Nat
  BY StopConnectionTyped DEF Typed, ClientState
<1>2. /\ ~e.connected /\ e.output # "live" /\ e.started = d.started
      /\ e.sock = "closed" /\ ~e.reading /\ ~e.writing /\ e.failed = 0
      /\ e.timers = IF d.handled /\ d.started /\ ~opt.byRequest
                    THEN d.timers + 1 ELSE d.timers
      /\ Pending(e) = {} /\ Cur(e, {"ended"}) = {} /\ Cur(e, {"connected"}) = {}
  BY StopConnectionDoes DEF Pending
<1> HIDE DEF e
<1>3. e.timers <= 1 /\ (e.started /\ ~opt.byRequest => e.timers = 1)
  BY <1>1, <1>2
<1>4. ~Session(e)
  BY <1>2 DEF Session
<1>5. Sound(e)
  BY <1>1, <1>2, <1>3, <1>4, NoSessionSound
<1>6. QED
  BY <1>5 DEF e

LEMMA StartSound ==
  ASSUME NEW d, Typed(d), TypeOK, Still(d), d.sock = "open"
  PROVE  Sound(StartSession(d))
<1> DEFINE e == StartSession(d)
<1>1. /\ Typed(e) /\ e.handled /\ e.connected /\ e.ready /\ e.output = "live" /\ e.reading
      /\ Pings(d) => e.pings > 0
      /\ e.sock = d.sock /\ e.timers = d.timers /\ e.failed = d.failed
      /\ e.started = d.started /\ e.configured = d.configured
      /\ e.at = d.at /\ e.late = d.late
  BY StartSessionDoes, StartSessionTyped
<1> HIDE DEF e
<1>2. Pending(e) = {} /\ Pings(e) = Pings(d)
  BY <1>1 DEF Pending, Cur, Still, Pings
<1>3. Sound(e)
  BY <1>1, <1>2, SessionSound DEF Still
<1>4. QED
  BY <1>3 DEF e

(* A refusal with no other way leaves one, when there is to be one. *)
LEMMA OnClosedSound ==
  ASSUME NEW d, Typed(d), TypeOK, Still(d)
  PROVE  Sound(OnClosed(d))
<1> DEFINE e == OnClosed(d)
<1>1. /\ Typed(e) /\ ~e.connected /\ e.output = d.output /\ e.started = d.started
      /\ e.at = d.at /\ e.late = d.late
      /\ e.timers = IF d.started /\ ~opt.byRequest THEN d.timers + 1 ELSE d.timers
      /\ ~e.reading /\ ~e.writing /\ e.sock # "connecting" /\ e.failed = 0
  BY OnClosedDoes, OnClosedTyped DEF Still, Session
<1> HIDE DEF e
<1>2. Pending(e) = {} /\ ~Session(e)
  BY <1>1 DEF Pending, Cur, Still, Session
<1>3. e.timers <= 1 /\ (e.started /\ ~opt.byRequest => e.timers = 1) /\ e.output # "live"
  BY <1>1 DEF Still
<1>4. Sound(e)
  BY <1>1, <1>2, <1>3, NoSessionSound
<1>5. QED
  BY <1>4 DEF e

LEMMA ConnectSound ==
  ASSUME NEW d, Typed(d), TypeOK, Still(d), NEW success \in BOOLEAN
  PROVE  Sound(Connect(d, success))
<1> DEFINE With(sock) == [d EXCEPT !.sock = sock]
           Failed == [d EXCEPT !.failed = @ + 1]
<1>1. /\ Cardinality(Pending(d)) = 0 /\ Cur(d, {"connected"}) = {}
      /\ Cur(d, {"ended"}) = {} /\ ~d.reading
  BY PendingFinite DEF Still, Session, Pending, Cur
<1>2. ASSUME NEW sock \in {"connecting", "open", "unconnected"}
      PROVE  /\ Typed(With(sock)) /\ With(sock).sock = sock
             /\ Pending(With(sock)) = Pending(d)
             /\ Cur(With(sock), {"connected"}) = {} /\ Session(With(sock)) = Session(d)
             /\ sock # "connecting" => Still(With(sock))
             /\ sock = "connecting" => Sound(With(sock))
  <2> DEFINE e == With(sock)
  <2>1. Typed(e)
    BY DEF Typed, ClientState, Busy
  <2>2. /\ e.sock = sock /\ e.at = d.at /\ e.late = d.late /\ e.reading = d.reading
        /\ e.timers = d.timers /\ e.failed = d.failed /\ e.connected = d.connected
        /\ e.output = d.output /\ e.writing = d.writing /\ e.started = d.started
    BY DEF Typed, ClientState
  <2> HIDE DEF e
  <2>3. /\ Pending(e) = Pending(d) /\ Cur(e, {"connected"}) = {}
        /\ Session(e) = Session(d)
    BY <2>2, <1>1 DEF Pending, Cur, Session
  <2>4. sock # "connecting" => Still(e)
    BY <2>2, <2>3 DEF Still
  <2>5. sock = "connecting" => Ways(e) = 1
    BY <2>2, <2>3, <1>1 DEF Ways, One, Still
  <2>6. sock = "connecting" => Sound(e)
    BY <2>2, <2>3, <2>5 DEF Sound, Still
  <2>7. QED
    BY <2>1, <2>2, <2>3, <2>4, <2>6 DEF e
<1>3. Sound(Failed)
  <2> DEFINE e == Failed
  <2>1. /\ e.failed = 1 /\ e.at = d.at /\ e.late = d.late /\ e.reading = d.reading
        /\ e.timers = d.timers /\ e.sock = d.sock /\ e.connected = d.connected
        /\ e.output = d.output /\ e.writing = d.writing
    BY DEF Typed, ClientState, Still
  <2> HIDE DEF e
  <2>2. Pending(e) = Pending(d) /\ Cur(e, {"connected"}) = {} /\ Session(e) = Session(d)
    BY <2>1, <1>1 DEF Pending, Cur, Session
  <2>3. Ways(e) = 1
    BY <2>1, <2>2, <1>1 DEF Ways, One, Still
  <2>4. Sound(e)
    BY <2>1, <2>2, <2>3 DEF Sound, Still
  <2>5. QED
    BY <2>4 DEF e
<1>4. Sound(StartSession(With("open")))
  BY <1>2, StartSound
<1>5. Sound(OnClosed(With("unconnected"))) /\ Sound(OnClosed(d))
  BY <1>2, OnClosedSound
<1>6. QED
  BY <1>2, <1>3, <1>4, <1>5 DEF Connect

(* Two states that agree in what Sound reads, but for ready and pings. *)
LEMMA SameSound ==
  ASSUME NEW d, NEW e, Sound(d),
         e.started = d.started, e.configured = d.configured, e.at = d.at, e.late = d.late,
         e.timers = d.timers, e.failed = d.failed, e.sock = d.sock, e.output = d.output,
         e.reading = d.reading, e.connected = d.connected, e.handled = d.handled,
         e.writing => d.writing \/ d.connected, d.ready => e.ready \/ Duplex(d),
         d.pings > 0 => e.pings > 0
  PROVE  Sound(e)
<1>1. \A places : Cur(e, places) = Cur(d, places)
  BY DEF Cur
<1>2. Pending(e) = Pending(d) /\ Session(e) = Session(d)
  BY <1>1 DEF Pending, Session
<1>3. Ways(e) = Ways(d) /\ Duplex(e) = Duplex(d) /\ Pings(e) = Pings(d)
  BY <1>2 DEF Ways, Duplex, Pings
<1>4. QED
  BY <1>1, <1>2, <1>3 DEF Sound

LEMMA SendSound ==
  ASSUME NEW d, Typed(d), TypeOK, Sound(d), NEW overflow \in BOOLEAN
  PROVE  Sound(Send(d, overflow)) /\ Send(d, overflow).at = d.at
<1> DEFINE s == IF Duplex(d) THEN [d EXCEPT !.ready = FALSE] ELSE d
           asked == [s EXCEPT !.unanswered = TRUE, !.writing = TRUE]
           free == [s EXCEPT !.ready = @ \/ d.connected]
<1>1. /\ Typed(s) /\ s.at = d.at /\ s.late = d.late /\ s.started = d.started
      /\ s.configured = d.configured /\ s.timers = d.timers /\ s.failed = d.failed
      /\ s.sock = d.sock /\ s.output = d.output /\ s.reading = d.reading
      /\ s.connected = d.connected /\ s.handled = d.handled /\ s.writing = d.writing
      /\ s.pings = d.pings /\ (Duplex(d) \/ s.ready = d.ready)
  <2> DEFINE e == [d EXCEPT !.ready = FALSE]
  <2>1. /\ Typed(e) /\ e.at = d.at /\ e.late = d.late /\ e.started = d.started
        /\ e.configured = d.configured /\ e.timers = d.timers /\ e.failed = d.failed
        /\ e.sock = d.sock /\ e.output = d.output /\ e.reading = d.reading
        /\ e.connected = d.connected /\ e.handled = d.handled /\ e.writing = d.writing
        /\ e.pings = d.pings
    BY DEF Typed, ClientState, Busy
  <2> HIDE DEF e
  <2>2. s = IF Duplex(d) THEN e ELSE d
    BY DEF e
  <2>3. QED
    BY <2>1, <2>2
<1> HIDE DEF s
<1>2. CASE d.output = "live"
  <2>1. d.connected /\ d.handled /\ d.timers = 0 /\ Ways(d) <= 1
    BY <1>2, OnlyWay DEF Sound
  <2>2. Sound(StopConnection(s)) /\ StopConnection(s).at = d.at
    <3>1. s.timers <= 1 /\ s.handled /\ s.timers = 0
      BY <1>1, <2>1
    <3>2. Sound(StopConnection(s))
      BY <1>1, <3>1, StopSound
    <3>3. StopConnection(s).at = s.at
      BY <1>1, StopConnectionDoes
    <3>4. QED
      BY <1>1, <3>2, <3>3
  <2>3. /\ asked.at = s.at /\ asked.late = s.late /\ asked.started = s.started
        /\ asked.configured = s.configured /\ asked.timers = s.timers
        /\ asked.failed = s.failed /\ asked.sock = s.sock /\ asked.output = s.output
        /\ asked.reading = s.reading /\ asked.connected = s.connected
        /\ asked.handled = s.handled /\ asked.pings = s.pings /\ asked.ready = s.ready
    BY <1>1 DEF Typed, ClientState
  <2> HIDE DEF asked
  <2>4. Sound(asked)
    BY <1>1, <2>1, <2>3, SameSound
  <2>5. Send(d, overflow) \in {d, StopConnection(s), asked}
    BY <1>2 DEF Send, s, asked, Typed, ClientState
  <2>6. QED
    BY <1>1, <2>2, <2>3, <2>4, <2>5
<1>3. CASE d.output # "live"
  <2>1. ~d.connected
    BY <1>3 DEF Sound
  <2>2. /\ free.at = s.at /\ free.late = s.late /\ free.started = s.started
        /\ free.configured = s.configured /\ free.timers = s.timers
        /\ free.failed = s.failed /\ free.sock = s.sock /\ free.output = s.output
        /\ free.reading = s.reading /\ free.connected = s.connected
        /\ free.handled = s.handled /\ free.pings = s.pings
        /\ free.writing = s.writing /\ (s.ready => free.ready)
    BY <1>1 DEF Typed, ClientState
  <2> HIDE DEF free
  <2>3. Sound(free)
    BY <1>1, <2>1, <2>2, SameSound
  <2>4. Send(d, overflow) \in {d, free}
    BY <1>3 DEF Send, s, free, Typed, ClientState
  <2>5. QED
    BY <1>1, <2>2, <2>3, <2>4
<1>4. QED
  BY <1>2, <1>3
-----------------------------------------------------------------------------
(* A thread takes a completion: it is of the current session. *)
LEMMA TakePlaces ==
  ASSUME TypeOK, NEW t \in IoThreads, NEW place \in Places \ {"idle"}, NEW d,
         d \in ClientState, d.at = c.at, d.late = c.late, Take(t, place, d)
  PROVE  /\ \A places : "idle" \notin places =>
              Cur(c', places) = IF place \in places THEN Cur(c, places) \cup {t}
                                ELSE Cur(c, places)
         /\ t \notin Pending(c)
         /\ place \in {"connected", "refused"} =>
              Cardinality(Pending(c')) = Cardinality(Pending(c)) + 1
         /\ place \notin {"connected", "refused"} => Pending(c') = Pending(c)
<1>1. t \notin c.late /\ c.at[t] = "idle"
  BY DEF Take, TypeOK, Busy
<1>2. c'.late = c.late /\ c'.at = [c.at EXCEPT ![t] = place]
  BY DEF Take, ClientState
<1>3. c.at \in [IoThreads -> Places]
  BY DEF TypeOK, ClientState
<1>4. ASSUME NEW places, "idle" \notin places
      PROVE  Cur(c', places) = IF place \in places THEN Cur(c, places) \cup {t}
                               ELSE Cur(c, places)
  BY <1>1, <1>2, <1>3, <1>4 DEF Cur
<1>5. t \notin Pending(c)
  BY <1>1 DEF Pending, Cur
<1>6. Typed(c)
  BY DEF TypeOK, Typed
<1>7. Pending(c') = IF place \in {"connected", "refused"} THEN Pending(c) \cup {t}
                    ELSE Pending(c)
  BY <1>4 DEF Pending
<1>8. QED
  BY <1>4, <1>5, <1>6, <1>7, PendingFinite, FS_AddElement

(* A thread leaves its handler. *)
Left(d, t) == [d EXCEPT !.at[t] = "idle", !.late = @ \ {t}]

LEMMA LeavePlaces ==
  ASSUME NEW t \in IoThreads, NEW d, Typed(d), NEW e, e = Left(d, t)
  PROVE  /\ \A places : "idle" \notin places => Cur(e, places) = Cur(d, places) \ {t}
         /\ e.started = d.started /\ e.configured = d.configured /\ e.timers = d.timers
         /\ e.failed = d.failed /\ e.sock = d.sock /\ e.output = d.output
         /\ e.reading = d.reading /\ e.connected = d.connected /\ e.handled = d.handled
         /\ e.writing = d.writing /\ e.pings = d.pings /\ e.ready = d.ready
<1>1. e.at = [d.at EXCEPT ![t] = "idle"] /\ e.late = d.late \ {t}
  BY DEF Left, Typed, ClientState
<1>2. \A places : "idle" \notin places => Cur(e, places) = Cur(d, places) \ {t}
  BY <1>1 DEF Cur, Typed, ClientState
<1>3. /\ e.started = d.started /\ e.configured = d.configured /\ e.timers = d.timers
      /\ e.failed = d.failed /\ e.sock = d.sock /\ e.output = d.output
      /\ e.reading = d.reading /\ e.connected = d.connected /\ e.handled = d.handled
      /\ e.writing = d.writing /\ e.pings = d.pings /\ e.ready = d.ready
  BY DEF Left, Typed, ClientState
<1>4. QED
  BY <1>2, <1>3

(* It leaves a sound state sound when its place was of no account. *)
LEMMA LeaveSound ==
  ASSUME NEW t \in IoThreads, NEW d, Typed(d), Sound(d), NEW e, e = Left(d, t),
         t \notin Cur(d, {"connected", "refused", "ended"}),
         t \in Cur(d, {"ping"}) /\ d.connected /\ Pings(d) /\ ~Duplex(d) => d.pings > 0
  PROVE  Sound(e)
<1>1. /\ \A places : "idle" \notin places => Cur(e, places) = Cur(d, places) \ {t}
      /\ e.started = d.started /\ e.configured = d.configured /\ e.timers = d.timers
      /\ e.failed = d.failed /\ e.sock = d.sock /\ e.output = d.output
      /\ e.reading = d.reading /\ e.connected = d.connected /\ e.handled = d.handled
      /\ e.writing = d.writing /\ e.pings = d.pings /\ e.ready = d.ready
  BY LeavePlaces
<1>2. /\ Pending(e) = Pending(d) /\ Cur(e, {"ended"}) = Cur(d, {"ended"})
      /\ Cur(e, {"connected"}) = Cur(d, {"connected"})
      /\ Cur(e, {"ping"}) = Cur(d, {"ping"}) \ {t}
  <2>1. t \notin Pending(d) /\ t \notin Cur(d, {"ended"}) /\ t \notin Cur(d, {"connected"})
    BY DEF Pending, Cur
  <2>2. QED
    BY <1>1, <2>1 DEF Pending
<1>3. Session(e) = Session(d) /\ Duplex(e) = Duplex(d) /\ Pings(e) = Pings(d)
  BY <1>1, <1>2 DEF Session, Duplex, Pings
<1>4. Ways(e) = Ways(d)
  BY <1>1, <1>2, <1>3 DEF Ways
<1>5. e.connected /\ Pings(e) /\ ~Duplex(e) => e.pings > 0 \/ Cur(e, {"ping"}) # {}
  BY <1>1, <1>2, <1>3 DEF Sound
<1>6. QED
  BY <1>1, <1>2, <1>3, <1>4, <1>5 DEF Sound
-----------------------------------------------------------------------------
(* Each action keeps Sound, in a history that it leaves free of haste.  A  *)
(* calm client that is sound is also still.                                *)
LEMMA CalmStill ==
  ASSUME Typed(c), Sound(c), Calm(c)
  PROVE  Still(c)
<1>1. ~c.connected
  BY DEF Sound, Calm
<1>2. Pending(c) = {}
  BY DEF Pending, Cur, Calm, Busy
<1>3. QED
  BY <1>1, <1>2 DEF Sound, Calm, Still

(* The user's calls. *)
LEMMA UserNextSound ==
  ASSUME IInv, UserNext, ~hasty'
  PROVE  Sound(c')
<1>1. TypeOK /\ Typed(c) /\ opt.byRequest \in BOOLEAN
  BY ClientAssumption DEF IInv, TypeOK, Typed
<1>2. ~hasty /\ Sound(c)
  <2>1. CASE \E success \in BOOLEAN : UserStart(success) \/ UserConnect(success)
    BY <2>1 DEF IInv, UserStart, UserConnect
  <2>2. CASE \E success, overflow \in BOOLEAN : UserSend(success, overflow)
    BY <2>2 DEF IInv, UserSend
  <2>3. CASE UserStop
    BY <2>3 DEF IInv, UserStop
  <2>4. CASE UserShutdown \/ UserClose
    BY <2>4 DEF IInv, UserShutdown, UserClose
  <2>5. QED
    BY <2>1, <2>2, <2>3, <2>4 DEF UserNext
<1>3. ASSUME NEW success \in BOOLEAN, UserStart(success)
      PROVE  Sound(c')
  <2> DEFINE d == [c EXCEPT !.started = TRUE, !.configured = TRUE,
                            !.connected = FALSE, !.ready = opt.byRequest]
  <2>1. Still(c)
    BY <1>1, <1>2, <1>3, CalmStill DEF UserStart
  <2>2. /\ d.timers = c.timers /\ d.failed = c.failed /\ d.sock = c.sock /\ ~d.connected
        /\ d.output = c.output /\ d.writing = c.writing /\ d.reading = c.reading
        /\ d.at = c.at /\ d.late = c.late
    BY <1>1 DEF Typed, ClientState
  <2>3. Typed(d)
    BY <1>1 DEF Typed, ClientState, Busy
  <2>4. c' = IF opt.byRequest THEN d ELSE Connect(d, success)
    BY <1>3 DEF UserStart
  <2> HIDE DEF d
  <2>5. Still(d)
    BY <2>1, <2>2 DEF Still, Pending, Session, Cur
  <2>6. QED
    BY <1>1, <2>3, <2>4, <2>5, ConnectSound, NoSessionSound DEF Still
<1>4. ASSUME NEW success \in BOOLEAN, UserConnect(success)
      PROVE  Sound(c')
  BY <1>1, <1>2, <1>4, CalmStill, ConnectSound DEF UserConnect
<1>5. ASSUME NEW success \in BOOLEAN, NEW overflow \in BOOLEAN, UserSend(success, overflow)
      PROVE  Sound(c')
  <2> DEFINE connects == ~c.connected /\ opt.byRequest /\ c.configured
             d == IF connects THEN Connect(c, success) ELSE c
  <2>1. c' = (IF d.connected THEN Send(d, overflow) ELSE d) /\ (connects => Calm(c))
    BY <1>5 DEF UserSend
  <2>2. Typed(d) /\ Sound(d)
    BY <1>1, <1>2, <2>1, CalmStill, ConnectSound, ConnectTyped
  <2> HIDE DEF d
  <2>3. QED
    BY <1>1, <2>1, <2>2, SendSound
<1>6. CASE UserStop
  <2> DEFINE d == [c EXCEPT !.started = FALSE, !.connected = FALSE, !.ready = FALSE]
  <2>1. Typed(d) /\ ~d.started /\ ~d.connected /\ d.timers = c.timers
    BY <1>1 DEF Typed, ClientState, Busy
  <2>2. c' = StopConnection(d)
    BY <1>6 DEF UserStop
  <2> HIDE DEF d
  <2>3. c.timers <= 1
    BY <1>1, <1>2, OnlyWay DEF Sound, Typed, ClientState
  <2>4. QED
    BY <1>1, <2>1, <2>2, <2>3, StopSound
<1>7. CASE UserShutdown
  <2> DEFINE d == [c EXCEPT !.connected = FALSE, !.ready = FALSE]
  <2>1. Typed(d) /\ ~d.connected /\ d.timers = c.timers /\ d.handled = c.handled
    BY <1>1 DEF Typed, ClientState, Busy
  <2>2. c' = StopConnection(d) /\ c.connected
    BY <1>7 DEF UserShutdown
  <2> HIDE DEF d
  <2>3. c.handled /\ c.timers = 0
    BY <1>1, <1>2, <2>2, OnlyWay DEF Sound
  <2>4. d.handled /\ d.timers = 0 /\ d.timers <= 1
    BY <2>1, <2>3
  <2>5. QED
    BY <1>1, <2>1, <2>2, <2>4, StopSound
<1>8. CASE UserClose
  BY <1>8 DEF UserClose
<1>9. QED
  BY <1>3, <1>4, <1>5, <1>6, <1>7, <1>8 DEF UserNext

(* Completions taken by a thread. *)
LEMMA TakenSound ==
  ASSUME IInv, NEW t \in IoThreads, ~hasty',
         \/ ConnectDone(t) \/ ConnectRefused(t) \/ ReadEnds(t)
         \/ WriteFails(t) \/ Answered(t) \/ PingDue(t)
  PROVE  Sound(c')
<1>1. TypeOK /\ Typed(c) /\ c \in ClientState
  BY DEF IInv, TypeOK, Typed
<1>2. Sound(c)
  BY DEF IInv, ConnectDone, ConnectRefused, ReadEnds, WriteFails, Answered, PingDue, Take
<1>3. ASSUME NEW d, NEW place \in Places \ {"idle"},
             Take(t, place, d), d \in ClientState, d.at = c.at, d.late = c.late,
             d.started = c.started, d.configured = c.configured, d.timers = c.timers,
             d.output = c.output, d.connected = c.connected, d.handled = c.handled,
             d.ready = c.ready, d.writing => c.writing,
             d.failed + One(d.sock = "connecting") + One(place \in {"connected", "refused"})
               = c.failed + One(c.sock = "connecting"),
             IF place = "ended" THEN c.connected ELSE d.reading = c.reading,
             IF place = "ping" THEN TRUE ELSE d.pings = c.pings,
             place = "connected" => d.sock = "open",
             c.sock = "open" => d.sock = "open"
      PROVE  Sound(c')
  <2>1. /\ c'.started = d.started /\ c'.configured = d.configured
        /\ c'.timers = d.timers /\ c'.failed = d.failed /\ c'.sock = d.sock
        /\ c'.output = d.output /\ c'.connected = d.connected /\ c'.handled = d.handled
        /\ c'.ready = d.ready /\ c'.writing = d.writing /\ c'.reading = d.reading
        /\ c'.pings = d.pings /\ opt' = opt
    BY <1>3 DEF Take, ClientState
  <2>2. /\ Cur(c', {"ended"}) = IF place = "ended" THEN Cur(c, {"ended"}) \cup {t}
                                ELSE Cur(c, {"ended"})
        /\ Cur(c', {"ping"}) = IF place = "ping" THEN Cur(c, {"ping"}) \cup {t}
                               ELSE Cur(c, {"ping"})
        /\ Cur(c', {"connected"}) = IF place = "connected"
                                    THEN Cur(c, {"connected"}) \cup {t}
                                    ELSE Cur(c, {"connected"})
        /\ Cardinality(Pending(c')) = Cardinality(Pending(c))
                                      + One(place \in {"connected", "refused"})
    <3>1. /\ \A places : "idle" \notin places =>
                Cur(c', places) = IF place \in places THEN Cur(c, places) \cup {t}
                                  ELSE Cur(c, places)
          /\ place \in {"connected", "refused"} =>
                Cardinality(Pending(c')) = Cardinality(Pending(c)) + 1
          /\ place \notin {"connected", "refused"} => Pending(c') = Pending(c)
      BY <1>1, <1>3, TakePlaces
    <3>2. Cardinality(Pending(c)) \in Nat
      BY <1>1, PendingFinite
    <3>3. Cardinality(Pending(c')) = Cardinality(Pending(c))
                                      + One(place \in {"connected", "refused"})
      BY <3>1, <3>2 DEF One
    <3>4. QED
      BY <3>1, <3>3
  <2>3. Session(c') = Session(c)
    BY <1>2, <1>3, <2>1, <2>2 DEF Session, Sound
  <2>4. c.timers \in Nat /\ c.failed \in Nat /\ d.failed \in Nat
        /\ Cardinality(Pending(c)) \in Nat
    BY <1>1, <1>3, PendingFinite DEF ClientState
  <2>5. Ways(c') = Ways(c)
    BY <1>3, <2>1, <2>2, <2>3, <2>4 DEF Ways, One
  <2>6. Duplex(c') = Duplex(c) /\ Pings(c') = Pings(c)
    BY <1>3, <2>1 DEF Duplex, Pings
  <2>7. c'.connected /\ Pings(c') /\ ~Duplex(c') => c'.pings > 0 \/ Cur(c', {"ping"}) # {}
    BY <1>2, <1>3, <2>1, <2>2, <2>6 DEF Sound
  <2>8. Cur(c', {"connected"}) # {} => c'.sock = "open"
    BY <1>2, <1>3, <2>1, <2>2 DEF Sound
  <2>9. QED
    BY <1>2, <1>3, <2>1, <2>3, <2>5, <2>6, <2>7, <2>8 DEF Sound
<1>4. CASE ConnectDone(t)
  <2> DEFINE d == [c EXCEPT !.sock = "open"]
  <2>1. Take(t, "connected", d) /\ c.sock = "connecting"
    BY <1>4 DEF ConnectDone
  <2>2. /\ d \in ClientState /\ d.at = c.at /\ d.late = c.late
        /\ d.started = c.started /\ d.configured = c.configured /\ d.timers = c.timers
        /\ d.output = c.output /\ d.connected = c.connected /\ d.handled = c.handled
        /\ d.ready = c.ready /\ d.writing = c.writing /\ d.failed = c.failed
        /\ d.reading = c.reading /\ d.pings = c.pings /\ d.sock = "open"
    BY <1>1 DEF ClientState
  <2> HIDE DEF d
  <2>3. c.failed \in Nat
    BY <1>1 DEF ClientState
  <2>4. QED
    BY <1>3, <2>1, <2>2, <2>3 DEF One, Places
<1>5. CASE c.sock = "connecting" /\ Take(t, "refused", [c EXCEPT !.sock = "unconnected"])
  <2> DEFINE d == [c EXCEPT !.sock = "unconnected"]
  <2>1. Take(t, "refused", d) /\ c.sock = "connecting"
    BY <1>5
  <2>2. /\ d \in ClientState /\ d.at = c.at /\ d.late = c.late
        /\ d.started = c.started /\ d.configured = c.configured /\ d.timers = c.timers
        /\ d.output = c.output /\ d.connected = c.connected /\ d.handled = c.handled
        /\ d.ready = c.ready /\ d.writing = c.writing /\ d.failed = c.failed
        /\ d.reading = c.reading /\ d.pings = c.pings /\ d.sock = "unconnected"
    BY <1>1 DEF ClientState
  <2> HIDE DEF d
  <2>3. c.failed \in Nat
    BY <1>1 DEF ClientState
  <2>4. QED
    BY <1>3, <2>1, <2>2, <2>3 DEF One, Places
<1>6. CASE c.failed > 0 /\ Take(t, "refused", [c EXCEPT !.failed = @ - 1])
  <2> DEFINE n == c.failed - 1
             d == [c EXCEPT !.failed = n]
  <2>1. n \in Nat /\ c.failed = n + 1
    BY <1>1, <1>6 DEF ClientState
  <2>2. Take(t, "refused", d)
    BY <1>6
  <2> HIDE DEF n
  <2>3. /\ d \in ClientState /\ d.at = c.at /\ d.late = c.late
        /\ d.started = c.started /\ d.configured = c.configured /\ d.timers = c.timers
        /\ d.output = c.output /\ d.connected = c.connected /\ d.handled = c.handled
        /\ d.ready = c.ready /\ d.writing = c.writing /\ d.failed = n
        /\ d.reading = c.reading /\ d.pings = c.pings /\ d.sock = c.sock
    BY <1>1, <2>1 DEF ClientState
  <2> HIDE DEF d
  <2>4. QED
    BY <1>3, <2>1, <2>2, <2>3 DEF One, Places
<1>7. ASSUME NEW d, Take(t, "ended", d), c.connected,
             d \in {[c EXCEPT !.reading = FALSE], [c EXCEPT !.writing = FALSE]}
      PROVE  Sound(c')
  <2>1. /\ d \in ClientState /\ d.at = c.at /\ d.late = c.late
        /\ d.started = c.started /\ d.configured = c.configured /\ d.timers = c.timers
        /\ d.output = c.output /\ d.connected = c.connected /\ d.handled = c.handled
        /\ d.ready = c.ready /\ (d.writing => c.writing) /\ d.failed = c.failed
        /\ d.pings = c.pings /\ d.sock = c.sock
    <3>1. CASE d = [c EXCEPT !.reading = FALSE]
      BY <1>1, <3>1 DEF ClientState
    <3>2. CASE d = [c EXCEPT !.writing = FALSE]
      BY <1>1, <3>2 DEF ClientState
    <3>3. QED
      BY <1>7, <3>1, <3>2
  <2>2. c.failed \in Nat /\ Take(t, "ended", d) /\ c.connected
    BY <1>1, <1>7 DEF ClientState
  <2>3. d.failed + One(d.sock = "connecting") + One("ended" \in {"connected", "refused"})
          = c.failed + One(c.sock = "connecting")
    BY <2>1, <2>2 DEF One
  <2>4. QED
    BY <1>3, <2>1, <2>2, <2>3 DEF Places
<1>8. CASE Answered(t)
  <2> DEFINE d == [c EXCEPT !.unanswered = FALSE]
  <2>1. Take(t, "answer", d)
    BY <1>8 DEF Answered
  <2>2. /\ d \in ClientState /\ d.at = c.at /\ d.late = c.late
        /\ d.started = c.started /\ d.configured = c.configured /\ d.timers = c.timers
        /\ d.output = c.output /\ d.connected = c.connected /\ d.handled = c.handled
        /\ d.ready = c.ready /\ d.writing = c.writing /\ d.failed = c.failed
        /\ d.reading = c.reading /\ d.pings = c.pings /\ d.sock = c.sock
    BY <1>1 DEF ClientState
  <2> HIDE DEF d
  <2>3. c.failed \in Nat
    BY <1>1 DEF ClientState
  <2>4. QED
    BY <1>3, <2>1, <2>2, <2>3 DEF One, Places
<1>9. CASE PingDue(t)
  <2> DEFINE n == c.pings - 1
             d == [c EXCEPT !.pings = n]
  <2>1. Take(t, "ping", d) /\ n \in Nat
    BY <1>1, <1>9 DEF PingDue, ClientState
  <2> HIDE DEF n
  <2>2. /\ d \in ClientState /\ d.at = c.at /\ d.late = c.late
        /\ d.started = c.started /\ d.configured = c.configured /\ d.timers = c.timers
        /\ d.output = c.output /\ d.connected = c.connected /\ d.handled = c.handled
        /\ d.ready = c.ready /\ d.writing = c.writing /\ d.failed = c.failed
        /\ d.reading = c.reading /\ d.sock = c.sock
    BY <1>1, <2>1 DEF ClientState
  <2> HIDE DEF d
  <2>3. c.failed \in Nat
    BY <1>1 DEF ClientState
  <2>4. QED
    BY <1>3, <2>1, <2>2, <2>3 DEF One, Places
<1>10. CASE ReadEnds(t) \/ WriteFails(t)
  <2>1. c.connected
    BY <1>2, <1>10 DEF ReadEnds, WriteFails, Sound, Session
  <2>2. QED
    BY <1>7, <1>10, <2>1 DEF ReadEnds, WriteFails
<1>11. QED
  BY <1>4, <1>5, <1>6, <1>8, <1>9, <1>10 DEF ConnectRefused

(* A handler of the current session: late ones make the history hasty. *)
LEMMA HandlerNextSound ==
  ASSUME IInv, NEW t \in IoThreads, HandlerNext(t), ~hasty'
  PROVE  Sound(c')
<1>1. TypeOK /\ Typed(c) /\ c \in ClientState
  BY DEF IInv, TypeOK, Typed
<1>2. Sound(c) /\ t \notin c.late /\ UNCHANGED opt
  BY DEF IInv, HandlerNext, HandleConnected, HandleRefused, HandleEnded, HandleAnswer,
         HandlePing, Handle
<1>3. ASSUME NEW place, NEW d, Handle(t, place, d)
      PROVE  c' = Left(d, t) /\ \A places : t \in Cur(c, places) <=> place \in places
  BY <1>2, <1>3 DEF Handle, Left, Cur
(* The thread was the only way. *)
<1>4. ASSUME t \in Pending(c)
      PROVE  /\ c.timers = 0 /\ c.failed = 0 /\ c.sock # "connecting" /\ ~Session(c)
             /\ ~c.connected /\ c.output # "live" /\ ~c.writing
             /\ Pending(c) = {t}
  <2>1. /\ c.timers = 0 /\ c.failed = 0 /\ c.sock # "connecting" /\ ~Session(c)
        /\ Cardinality(Pending(c)) = 1
    BY <1>1, <1>2, <1>4, OnlyWay DEF Sound
  <2>2. IsFiniteSet(Pending(c)) /\ Cardinality(Pending(c) \ {t}) = 0
    <3>1. IsFiniteSet(Pending(c))
      BY <1>1, PendingFinite
    <3>2. Cardinality(Pending(c) \ {t}) = Cardinality(Pending(c)) - 1
      BY <1>4, <3>1, FS_RemoveElement
    <3>3. QED
      BY <2>1, <3>1, <3>2
  <2>3. IsFiniteSet(Pending(c) \ {t})
    BY <2>2, FS_Subset
  <2>4. Pending(c) \ {t} = {}
    BY <2>2, <2>3, FS_EmptySet
  <2>5. QED
    BY <1>2, <1>4, <2>1, <2>4 DEF Sound
<1>5. ASSUME NEW d, Typed(d), NEW e, e = Left(d, t)
      PROVE  Typed(e)
  <2>1. e \in ClientState
    BY <1>5 DEF Typed, ClientState, Left, Places
  <2>2. e.at = [d.at EXCEPT ![t] = "idle"] /\ e.late = d.late \ {t}
    BY <1>5 DEF Typed, ClientState, Left
  <2>3. QED
    BY <1>5, <2>1, <2>2 DEF Typed, Busy, ClientState
<1>6. CASE HandleConnected(t)
  <2> DEFINE d == StartSession(c)
  <2>1. c' = Left(d, t) /\ t \in Pending(c) /\ c.sock = "open"
    BY <1>2, <1>3, <1>6 DEF HandleConnected, Pending, Sound
  <2>2. /\ Typed(d) /\ d.handled /\ d.connected /\ d.ready /\ d.output = "live"
        /\ d.reading /\ (Pings(c) => d.pings > 0) /\ d.sock = "open"
        /\ d.timers = 0 /\ d.failed = 0 /\ d.configured = c.configured
        /\ d.at = c.at /\ d.late = c.late
    BY <1>1, <1>4, <2>1, StartSessionTyped, StartSessionDoes
  <2> HIDE DEF d
  <2>3. Pending(c') = {}
    <3>1. Pending(d) = Pending(c)
      BY <2>2 DEF Pending, Cur
    <3>2. Pending(c') = Pending(d) \ {t}
      BY <2>1, <2>2, LeavePlaces DEF Pending
    <3>3. QED
      BY <1>4, <2>1, <3>1, <3>2
  <2>4. /\ Typed(c') /\ c'.handled /\ c'.connected /\ c'.ready /\ c'.output = "live"
        /\ c'.reading /\ (Pings(c') => c'.pings > 0) /\ c'.sock = "open"
        /\ c'.timers = 0 /\ c'.failed = 0
    BY <1>2, <1>5, <2>1, <2>2, LeavePlaces DEF Pings
  <2>5. QED
    BY <2>3, <2>4, SessionSound
<1>7. CASE HandleRefused(t)
  <2> DEFINE d == OnClosed(c)
  <2>1. c' = Left(d, t) /\ t \in Pending(c)
    BY <1>3, <1>7 DEF HandleRefused, Pending
  <2>2. /\ Typed(d) /\ ~d.connected /\ d.output # "live" /\ d.started = c.started
        /\ d.at = c.at /\ d.late = c.late /\ ~d.reading /\ ~d.writing
        /\ d.timers = IF c.started /\ ~opt.byRequest THEN 1 ELSE 0
        /\ d.sock # "connecting" /\ d.failed = 0
    BY <1>1, <1>4, <2>1, OnClosedTyped, OnClosedDoes DEF Session
  <2> HIDE DEF d
  <2>3. Pending(c') = {} /\ Cur(c', {"ended"}) = {}
    <3>1. Pending(d) = Pending(c) /\ Cur(d, {"ended"}) = Cur(c, {"ended"})
      BY <2>2 DEF Pending, Cur
    <3>2. Pending(c') = Pending(d) \ {t} /\ Cur(c', {"ended"}) = Cur(d, {"ended"}) \ {t}
      BY <2>1, <2>2, LeavePlaces DEF Pending
    <3>3. Cur(c, {"ended"}) = {}
      BY <1>4, <2>1 DEF Session
    <3>4. QED
      BY <1>4, <2>1, <3>1, <3>2, <3>3
  <2>4. /\ Typed(c') /\ ~c'.connected /\ c'.output # "live" /\ c'.started = c.started
        /\ ~c'.reading /\ ~c'.writing /\ c'.sock # "connecting" /\ c'.failed = 0
        /\ c'.timers = IF c.started /\ ~opt.byRequest THEN 1 ELSE 0
    BY <1>5, <2>1, <2>2, LeavePlaces
  <2>5. QED
    BY <2>3, <2>4, NoSessionSound DEF Session
<1>8. CASE HandleEnded(t)
  <2> DEFINE d == StopConnection(c)
  <2>1. c' = Left(d, t) /\ t \in Cur(c, {"ended"})
    BY <1>3, <1>8 DEF HandleEnded
  <2>2. c.handled /\ c.timers = 0
    BY <1>1, <1>2, <2>1, OnlyWay DEF Sound, Session
  <2>3. Typed(d) /\ Sound(d)
    BY <1>1, <2>2, StopConnectionTyped, StopSound
  <2>4. \A places : "idle" \notin places => Cur(d, places) = {}
    BY <1>1, StopConnectionDoes
  <2> HIDE DEF d
  <2>5. QED
    BY <2>1, <2>3, <2>4, LeaveSound
<1>9. CASE HandleAnswer(t)
  <2> DEFINE ready == c.ready \/ (Duplex(c) /\ c.connected)
             d == [c EXCEPT !.ready = ready]
  <2>1. c' = Left(d, t) /\ \A places : t \in Cur(c, places) <=> "answer" \in places
    BY <1>3, <1>9 DEF HandleAnswer
  <2>2. /\ Typed(d) /\ d.started = c.started /\ d.configured = c.configured
        /\ d.at = c.at /\ d.late = c.late /\ d.timers = c.timers /\ d.failed = c.failed
        /\ d.sock = c.sock /\ d.output = c.output /\ d.reading = c.reading
        /\ d.connected = c.connected /\ d.handled = c.handled /\ d.writing = c.writing
        /\ d.pings = c.pings /\ (c.ready => d.ready)
    BY <1>1 DEF Typed, ClientState, Busy
  <2> HIDE DEF d
  <2>3. Sound(d)
    BY <1>2, <2>2, SameSound
  <2>4. \A places : Cur(d, places) = Cur(c, places)
    BY <2>2 DEF Cur
  <2>5. QED
    BY <2>1, <2>2, <2>3, <2>4, LeaveSound
<1>10. CASE HandlePing(t)
  <2>1. PICK overflow \in BOOLEAN :
          Handle(t, "ping", IF c.ready THEN [Send(c, overflow) EXCEPT !.pings = @ + 1] ELSE c)
    BY <1>10 DEF HandlePing
  <2>2. \A places : t \in Cur(c, places) <=> "ping" \in places
    BY <1>3, <2>1
  <2>3. CASE ~c.ready
    <3>1. c' = Left(c, t)
      BY <1>3, <2>1, <2>3
    <3>2. c.connected => Duplex(c)
      BY <1>2, <2>3 DEF Sound
    <3>3. QED
      BY <1>1, <1>2, <2>2, <3>1, <3>2, LeaveSound
  <2>4. CASE c.ready
    <3> DEFINE s == Send(c, overflow)
               d == [s EXCEPT !.pings = @ + 1]
    <3>1. c' = Left(d, t)
      BY <1>3, <2>1, <2>4
    <3>2. Typed(s) /\ Sound(s) /\ s.at = c.at
      BY <1>1, <1>2, SendTyped, SendSound
    <3> HIDE DEF s
    <3>3. /\ d.started = s.started /\ d.configured = s.configured
          /\ d.at = s.at /\ d.late = s.late /\ d.timers = s.timers /\ d.failed = s.failed
          /\ d.sock = s.sock /\ d.output = s.output /\ d.reading = s.reading
          /\ d.connected = s.connected /\ d.handled = s.handled /\ d.writing = s.writing
          /\ d.ready = s.ready
      BY <3>2 DEF Typed, ClientState
    <3>4. d \in ClientState /\ d.pings > 0
      BY <3>2 DEF Typed, ClientState
    <3> HIDE DEF d
    <3>5. Typed(d)
      BY <3>2, <3>3, <3>4 DEF Typed, Busy
    <3>6. Sound(d)
      BY <3>2, <3>3, <3>4, SameSound
    <3>7. c.at[t] = "ping"
      BY <2>1 DEF Handle
    <3>8. t \notin Cur(d, {"connected", "refused", "ended"})
      BY <3>2, <3>3, <3>7 DEF Cur
    <3>9. QED
      BY <3>1, <3>4, <3>5, <3>6, <3>8, LeaveSound
  <2>5. QED
    BY <2>3, <2>4
<1>11. QED
  BY <1>6, <1>7, <1>8, <1>9, <1>10 DEF HandlerNext

(* Every step keeps the invariant, and the client is made with it. *)
LEMMA SoundStep == IInv /\ [Next]_vars => IInv'
<1> SUFFICES ASSUME IInv, [Next]_vars PROVE IInv'
  OBVIOUS
<1>1. TypeOK /\ TypeOK' /\ Typed(c)
  BY TypeStep DEF IInv, TypeOK, Typed
<1>2. SUFFICES ASSUME ~hasty' PROVE Sound(c)'
  BY <1>1 DEF IInv
<1>3. opt' = opt
  BY DEF Next, vars, UserNext, UserStart, UserConnect, UserSend, UserStop, UserShutdown,
         UserClose, IoNext, HandlerNext, HandleConnected, HandleRefused, HandleEnded,
         HandleAnswer, HandlePing, Handle, ConnectDone, ConnectRefused, ReadEnds,
         WriteFails, Answered, PingDue, Take, Timer, WriteDone
<1>4. SUFFICES Sound(c')
  BY <1>3 DEF Sound, Ways, Session, Pending, Cur, Duplex, Pings
<1>5. CASE UserNext
  BY <1>2, <1>5, UserNextSound
<1>6. ASSUME NEW t \in IoThreads,
             \/ ConnectDone(t) \/ ConnectRefused(t) \/ ReadEnds(t)
             \/ WriteFails(t) \/ Answered(t) \/ PingDue(t)
      PROVE  Sound(c')
  BY <1>2, <1>6, TakenSound
<1>7. ASSUME NEW t \in IoThreads, HandlerNext(t)
      PROVE  Sound(c')
  BY <1>2, <1>7, HandlerNextSound
<1>8. ASSUME NEW success \in BOOLEAN, Timer(success)
      PROVE  Sound(c')
  <2> DEFINE n == c.timers - 1
             d == [c EXCEPT !.timers = n]
  <2>1. ~hasty /\ Sound(c) /\ c.timers > 0 /\ c' = IF c.started THEN Connect(d, success) ELSE d
    BY <1>2, <1>8 DEF Timer, IInv
  <2>2. /\ c.timers = 1 /\ c.failed = 0 /\ c.sock # "connecting" /\ Pending(c) = {}
        /\ ~Session(c) /\ ~c.connected /\ c.output # "live" /\ ~c.writing
    BY <1>1, <2>1, OnlyWay DEF Sound
  <2>3. n = 0
    BY <2>2
  <2> HIDE DEF n
  <2>4. /\ Typed(d) /\ d.timers = 0 /\ d.failed = c.failed /\ d.sock = c.sock
        /\ d.connected = c.connected /\ d.output = c.output /\ d.writing = c.writing
        /\ d.reading = c.reading /\ d.at = c.at /\ d.late = c.late /\ d.started = c.started
    BY <1>1, <2>3 DEF Typed, ClientState, Busy
  <2> HIDE DEF d
  <2>5. Still(d)
    BY <2>2, <2>4 DEF Still, Pending, Session, Cur
  <2>6. QED
    BY <1>1, <2>1, <2>4, <2>5, ConnectSound, NoSessionSound DEF Still
<1>9. CASE WriteDone
  <2> DEFINE d == [c EXCEPT !.writing = FALSE]
  <2>1. ~hasty /\ Sound(c) /\ c' = d
    BY <1>2, <1>9 DEF WriteDone, IInv
  <2>2. /\ d.started = c.started /\ d.configured = c.configured
        /\ d.at = c.at /\ d.late = c.late /\ d.timers = c.timers /\ d.failed = c.failed
        /\ d.sock = c.sock /\ d.output = c.output /\ d.reading = c.reading
        /\ d.connected = c.connected /\ d.handled = c.handled /\ ~d.writing
        /\ d.pings = c.pings /\ d.ready = c.ready
    BY <1>1 DEF Typed, ClientState
  <2> HIDE DEF d
  <2>3. QED
    BY <2>1, <2>2, SameSound
<1>10. CASE UNCHANGED vars
  BY <1>2, <1>10 DEF vars, IInv
<1>11. QED
  BY <1>5, <1>6, <1>7, <1>8, <1>9, <1>10 DEF Next, IoNext

LEMMA SoundInit == Init => IInv
<1> SUFFICES ASSUME Init PROVE IInv
  OBVIOUS
<1>1. TypeOK /\ Typed(c)
  BY TypeInit DEF TypeOK, Typed
<1>2. /\ Pending(c) = {} /\ ~Session(c) /\ ~c.started /\ ~c.connected /\ c.timers = 0
      /\ c.failed = 0 /\ c.sock = "closed" /\ c.output = "none" /\ ~c.writing
  BY DEF Init, Pending, Session, Cur
<1>3. QED
  BY <1>1, <1>2, NoSessionSound DEF IInv

(* The client's invariant, of every reachable state. *)
THEOREM Invariance == Spec => []IInv
<1>1. QED
  BY SoundInit, SoundStep, PTL DEF Spec

(* In a history without haste a started client has exactly one way back to *)
(* a session, or the session.                                              *)
THEOREM OneWayHolds == Spec => []OneWay
<1>1. IInv => OneWay
  BY DEF IInv, Sound, Ways, OneWay, Pending, Session, Cur, CurrentAt
<1>2. QED
  BY <1>1, Invariance, PTL

(* A connected client has a session that will report its end, and its      *)
(* output handler.                                                         *)
THEOREM ConnectedMeansSessionHolds == Spec => []ConnectedMeansSession
<1>1. IInv => ConnectedMeansSession
  BY DEF IInv, Sound, ConnectedMeansSession, Session, Cur, CurrentAt
<1>2. QED
  BY <1>1, Invariance, PTL

(* A connected client that pings, and does not run in duplex mode, always  *)
(* has its next ping ordered or in its handler.                            *)
THEOREM KeepsPingingHolds == Spec => []KeepsPinging
<1>1. IInv => KeepsPinging
  BY DEF IInv, Sound, KeepsPinging, Cur, CurrentAt
<1>2. QED
  BY <1>1, Invariance, PTL
=============================================================================
