--------------------------- MODULE AcceptorProofs ---------------------------
(***************************************************************************)
(* Proofs about Acceptor, for any connections, io threads and limit.  The  *)
(* invariant is about one connection at a time: which threads are at it,   *)
(* and what its stage is then.  It is stated of any state of the           *)
(* variables, since an action may end with the start of the next accept    *)
(* (More).                                                                 *)
(***************************************************************************)
EXTENDS Acceptor, FiniteSetTheorems, TLAPS

ConnState == [stage : Stages, current : BOOLEAN, handlers : Handlers,
              lock : IoThreads \cup {None}]

(* Thread t is at connection c, in the places pl. *)
On(pl, t, place, c) == pl[t] = [place |-> place, conn |-> c]

Entering == {"ok", "blocked", "error"}

GoodConn(cn, map, pl, c) ==
  /\ cn[c].stage \in {"accepting", "misarmed", "accepted"} => c \notin map
  /\ c \in map /\ cn[c].current => cn[c].stage \in {"live", "stillborn"}
  /\ cn[c].stage = "live" => c \in map \/ \E t \in IoThreads, p \in Places : On(pl, t, p, c)
  /\ \A t \in IoThreads :
       /\ cn[c].lock = t <=> On(pl, t, "erase", c)
       /\ \A p \in Entering : On(pl, t, p, c) => cn[c].stage = "accepted"
       /\ On(pl, t, "get_id", c) =>
            /\ c \notin map /\ cn[c].stage \in {"live", "stillborn", "closed"}
            /\ cn[c].stage = "closed" => ~cn[c].current
       /\ \A p \in {"end", "erase"} : On(pl, t, p, c) => cn[c].stage \in {"live", "closed"}
  /\ \A t, u \in IoThreads, p \in Entering, q \in Places :
       On(pl, t, p, c) /\ On(pl, u, q, c) => t = u

GoodPlaces(a, pl) ==
  /\ a \in [status : BOOLEAN, open : BOOLEAN, failed : BOOLEAN, lock : IoThreads \cup {None}]
  /\ pl \in [IoThreads -> {Idle} \cup [place : Places, conn : Connections]]
  /\ \A t \in IoThreads : a.lock = t <=> pl[t].place = "get_id"

Good(a, cn, map, pl) ==
  /\ GoodPlaces(a, pl) /\ cn \in [Connections -> ConnState] /\ map \subseteq Connections
  /\ \A c \in Connections : GoodConn(cn, map, pl, c)

IInv == Good(acceptor, conn, held, at) /\ stray \in BOOLEAN

(* A connection that the step has nothing to do with. *)
LEMMA Elsewhere ==
  ASSUME NEW cn, NEW map, NEW pl, NEW cn2, NEW map2, NEW pl2, NEW d,
         GoodConn(cn, map, pl, d), cn2[d] = cn[d], d \in map2 <=> d \in map,
         \A t \in IoThreads, p \in Places : On(pl2, t, p, d) <=> On(pl, t, p, d)
  PROVE  GoodConn(cn2, map2, pl2, d)
BY DEF GoodConn, Entering, Places

(* The next accept is started into a connection that nobody refers to. *)
LEMMA MoreGood ==
  ASSUME NEW a, NEW cn, NEW map, NEW pl, Good(a, cn, map, pl), More(a, cn, map, pl)
  PROVE  Good(a, conn', map, pl)
<1> DEFINE stage == IF a.open THEN "accepting" ELSE "misarmed"
           new == [Dead EXCEPT !.stage = stage, !.current = TRUE]
<1>1. new \in ConnState /\ new.stage \in {"accepting", "misarmed"} /\ new.lock = None
  <2>1. stage \in {"accepting", "misarmed"}
    OBVIOUS
  <2> HIDE DEF stage
  <2>2. Dead \in ConnState /\ Dead.lock = None
    BY DEF ConnState, Dead, Stages, Handlers
  <2>3. QED
    BY <2>1, <2>2 DEF ConnState, Stages
<1> HIDE DEF new
<1>2. CASE conn' = cn
  BY <1>2
<1>3. ASSUME NEW n \in Unused(cn, map, pl), conn' = [cn EXCEPT ![n] = new]
      PROVE  Good(a, conn', map, pl)
  <2>1. /\ n \in Connections /\ n \notin map
        /\ \A t \in IoThreads, p \in Places : ~On(pl, t, p, n)
    BY <1>3 DEF Unused, On, Idle, Places
  <2>2. conn' \in [Connections -> ConnState] /\ conn'[n] = new
        /\ \A d \in Connections : d # n => conn'[d] = cn[d]
    BY <1>1, <1>3, <2>1 DEF Good
  <2>3. GoodConn(conn', map, pl, n)
    BY <1>1, <2>1, <2>2, AcceptorAssumption DEF GoodConn, Entering, Places
  <2>4. ASSUME NEW d \in Connections, d # n
        PROVE  GoodConn(conn', map, pl, d)
    BY <2>2, <2>4, Elsewhere DEF Good
  <2>5. QED
    BY <2>2, <2>3, <2>4 DEF Good
<1>4. QED
  BY <1>2, <1>3 DEF More, new

(* A step of thread t at connection c. *)
LEMMA StepGood ==
  ASSUME IInv, NEW t \in IoThreads, NEW c \in Connections,
         NEW a2, NEW cn2, NEW map2, NEW pl2, GoodPlaces(a2, pl2), map2 \subseteq Connections,
         cn2 \in [Connections -> ConnState],
         at[t] = Idle \/ at[t].conn = c,
         pl2[t] = Idle \/ pl2[t].conn = c,
         \A u \in IoThreads : u # t => pl2[u] = at[u],
         \A d \in Connections : d # c => cn2[d] = conn[d] /\ (d \in map2 <=> d \in held),
         GoodConn(cn2, map2, pl2, c)
  PROVE  Good(a2, cn2, map2, pl2)
<1>1. ASSUME NEW d \in Connections, d # c
      PROVE  GoodConn(cn2, map2, pl2, d)
  <2>1. \A u \in IoThreads, p \in Places : On(pl2, u, p, d) <=> On(at, u, p, d)
    BY <1>1 DEF On, Idle
  <2>2. QED
    BY <1>1, <2>1, Elsewhere DEF IInv, Good
<1>2. QED
  BY <1>1 DEF Good

-----------------------------------------------------------------------------
(* The user's calls and the kernel. *)
LEMMA CallsGood ==
  ASSUME IInv, Start \/ Close \/ Stop \/ \E c \in Connections : Canceled(c)
  PROVE  IInv'
<1>1. CASE Start
  <2> DEFINE cn == [c \in Connections |->
                     IF c \in held /\ ~InHands(c, Places) THEN Dead ELSE conn[c]]
  <2>1. GoodPlaces(acceptor', at)
    BY <1>1 DEF Start, IInv, Good, GoodPlaces
  <2>2. cn \in [Connections -> ConnState]
    BY DEF IInv, Good, ConnState, Dead, Stages, Handlers
  <2>3. ASSUME NEW c \in Connections
        PROVE  GoodConn(cn, {}, at, c)
    <3>1. \A t \in IoThreads, p \in Places : On(at, t, p, c) => InHands(c, Places)
      BY DEF InHands, Waits, On
    <3>2. CASE c \in held /\ ~InHands(c, Places)
      BY <3>1, <3>2, AcceptorAssumption DEF GoodConn, Dead, Entering, Places
    <3>3. CASE InHands(c, Places)
      <4>1. cn[c] = conn[c] /\ \E t \in IoThreads, p \in Places : On(at, t, p, c)
        BY <3>3 DEF InHands, Waits, On
      <4>2. QED
        BY <4>1 DEF GoodConn, IInv, Good
    <3>4. CASE c \notin held
      BY <3>4 DEF GoodConn, IInv, Good
    <3>5. QED
      BY <3>2, <3>3, <3>4
  <2>4. Good(acceptor', cn, {}, at)
    BY <2>1, <2>2, <2>3 DEF Good
  <2>5. More(acceptor', cn, {}, at) /\ held' = {} /\ at' = at /\ stray' = stray
    BY <1>1 DEF Start
  <2>6. QED
    BY <2>4, <2>5, MoreGood DEF IInv
<1>2. CASE Close
  BY <1>2 DEF Close, IInv, Good, GoodPlaces
<1>3. CASE Stop
  <2>1. GoodPlaces(acceptor', at')
    BY <1>3 DEF Stop, IInv, Good, GoodPlaces
  <2>2. conn' \in [Connections -> ConnState]
    <3>1. Dead \in ConnState
      BY DEF ConnState, Dead, Stages, Handlers
    <3>2. ASSUME NEW c \in Connections
          PROVE  [conn[c] EXCEPT !.current = FALSE] \in ConnState
      <4>1. conn[c] \in ConnState
        BY DEF IInv, Good
      <4>2. QED
        BY <4>1 DEF ConnState
    <3>3. QED
      BY <1>3, <3>1, <3>2 DEF Stop
  <2>3. ASSUME NEW c \in Connections
        PROVE  GoodConn(conn', held', at', c)
    <3>1. at' = at /\ held' = held
      BY <1>3 DEF Stop
    <3>2. CASE conn[c].stage \in {"accepting", "misarmed"}
      <4>1. conn'[c] = Dead
        BY <1>3, <3>2 DEF Stop
      <4>2. QED
        BY <3>1, <3>2, <4>1, AcceptorAssumption DEF GoodConn, IInv, Good, Dead, Entering, Places
    <3>3. CASE conn[c].stage \notin {"accepting", "misarmed"}
      <4>1. /\ conn'[c].stage = conn[c].stage /\ conn'[c].lock = conn[c].lock
            /\ ~conn'[c].current
        BY <1>3, <3>3 DEF Stop, IInv, Good, ConnState
      <4>2. QED
        BY <3>1, <4>1 DEF GoodConn, IInv, Good
    <3>4. QED
      BY <3>2, <3>3
  <2>4. QED
    BY <1>3, <2>1, <2>2, <2>3 DEF Stop, IInv, Good
<1>4. ASSUME NEW c \in Connections, Canceled(c)
      PROVE  IInv'
  <2>1. conn' = [conn EXCEPT ![c] = Dead] /\ UNCHANGED <<acceptor, held, at, stray>>
    BY <1>4 DEF Canceled
  <2>2. conn' \in [Connections -> ConnState] /\ conn'[c] = Dead
        /\ \A d \in Connections : d # c => conn'[d] = conn[d]
    BY <2>1 DEF IInv, Good, ConnState, Dead, Stages, Handlers
  <2>3. GoodConn(conn', held, at, c)
    BY <1>4, <2>2, AcceptorAssumption
       DEF Canceled, GoodConn, IInv, Good, Dead, Entering, Places
  <2>4. ASSUME NEW d \in Connections, d # c
        PROVE  GoodConn(conn', held, at, d)
    BY <2>2, <2>4, Elsewhere DEF IInv, Good
  <2>5. QED
    BY <2>1, <2>2, <2>3, <2>4 DEF IInv, Good
<1>5. QED
  BY <1>1, <1>2, <1>3, <1>4
-----------------------------------------------------------------------------
(* What is so of a thread at a connection. *)
LEMMA AtPlace ==
  ASSUME IInv, NEW t \in IoThreads, NEW c \in Connections, NEW p \in Places, Waits(t, p, c)
  PROVE  /\ On(at, t, p, c) /\ at[t].conn = c /\ at[t].place = p /\ at[t] # Idle
         /\ GoodConn(conn, held, at, c) /\ conn[c] \in ConnState
         /\ acceptor.lock = t <=> p = "get_id"
         /\ conn[c].lock = t <=> p = "erase"
<1>1. On(at, t, p, c) /\ at[t].conn = c /\ at[t].place = p
  BY DEF Waits, On
<1>2. at[t] # Idle
  BY <1>1 DEF Idle, Places
<1>3. /\ GoodPlaces(acceptor, at) /\ GoodConn(conn, held, at, c) /\ conn[c] \in ConnState
  BY DEF IInv, Good
<1>4. acceptor.lock = t <=> p = "get_id"
  BY <1>1, <1>3 DEF GoodPlaces
<1>5. conn[c].lock = t <=> p = "erase"
  <2>1. conn[c].lock = t <=> On(at, t, "erase", c)
    BY <1>3 DEF GoodConn
  <2>2. On(at, t, "erase", c) <=> p = "erase"
    BY <1>1 DEF On
  <2>3. QED
    BY <2>1, <2>2
<1>6. QED
  BY <1>1, <1>2, <1>3, <1>4, <1>5

(* A completed accept is taken, or a connection begins to end. *)
LEMMA TakenGood ==
  ASSUME IInv, NEW t \in IoThreads, NEW c \in Connections,
         Accepted(t, c) \/ Ends(t, c)
  PROVE  IInv'
<1>1. PICK p \in Entering \cup {"end"} :
        /\ Take(t, p, c) /\ (p = "end" <=> Ends(t, c) /\ ~Accepted(t, c))
        /\ p \in Entering => /\ conn[c].stage \in {"accepting", "misarmed"}
                             /\ conn' = [conn EXCEPT ![c].stage = "accepted"]
        /\ p = "end" => /\ conn[c].stage = "live" /\ conn[c].handlers > 0
                        /\ conn' = [conn EXCEPT ![c].handlers = @ - 1]
  <2>1. CASE Accepted(t, c)
    BY <2>1 DEF Accepted, Entering
  <2>2. CASE Ends(t, c) /\ ~Accepted(t, c)
    BY <2>2 DEF Ends, Entering
  <2>3. QED
    BY <2>1, <2>2
<1>2. at[t] = Idle /\ at' = [at EXCEPT ![t] = [place |-> p, conn |-> c]]
      /\ UNCHANGED <<acceptor, held, stray>>
  BY <1>1 DEF Take
<1>3. /\ conn' \in [Connections -> ConnState]
      /\ \A d \in Connections : d # c => conn'[d] = conn[d]
      /\ conn'[c].lock = conn[c].lock /\ conn'[c].current = conn[c].current
      /\ conn'[c].stage = IF p = "end" THEN "live" ELSE "accepted"
  <2>1. conn \in [Connections -> ConnState] /\ conn[c] \in ConnState
    BY DEF IInv, Good
  <2>2. CASE p \in Entering
    BY <1>1, <2>1, <2>2 DEF ConnState, Stages, Entering
  <2>3. CASE p = "end"
    BY <1>1, <2>1, <2>3 DEF ConnState, Handlers, Entering
  <2>4. QED
    BY <2>2, <2>3
<1>4. /\ GoodPlaces(acceptor', at') /\ at'[t] = [place |-> p, conn |-> c]
      /\ \A u \in IoThreads : u # t => at'[u] = at[u]
  <2>1. at[t].place = "idle" /\ acceptor.lock # t
    BY <1>2 DEF IInv, Good, GoodPlaces, Idle
  <2>2. QED
    BY <1>2, <2>1 DEF IInv, Good, GoodPlaces, Places, Entering
<1>5. GoodConn(conn', held', at', c)
  <2>1. GoodConn(conn, held, at, c)
    BY DEF IInv, Good
  <2>2. /\ On(at', t, p, c) /\ \A q \in Places : On(at', t, q, c) => q = p
        /\ \A u \in IoThreads, q \in Places : u # t => (On(at', u, q, c) <=> On(at, u, q, c))
        /\ \A q \in Places : ~On(at, t, q, c)
    BY <1>2, <1>4 DEF On, Idle
  <2>3. CASE p \in Entering
    <3>1. conn[c].stage \in {"accepting", "misarmed"}
      BY <1>1, <2>3
    <3>2. \A u \in IoThreads, q \in Places : ~On(at, u, q, c)
      BY <2>1, <3>1 DEF GoodConn, Places, Entering
    <3>3. \A u \in IoThreads, q \in Places : On(at', u, q, c) <=> u = t /\ q = p
      BY <2>2, <3>2
    <3>4. conn'[c].stage = "accepted" /\ c \notin held' /\ p \in Places
      BY <1>2, <1>3, <2>1, <2>3, <3>1 DEF GoodConn, Places, Entering
    <3>5. \A u \in IoThreads : conn[c].lock # u
      BY <2>1, <3>2 DEF GoodConn, Places
    <3>6. p # "erase" /\ p # "get_id" /\ p # "end"
      BY <2>3 DEF Entering
    <3>7. \A u \in IoThreads :
            /\ conn'[c].lock = u <=> On(at', u, "erase", c)
            /\ ~On(at', u, "get_id", c)
            /\ \A q \in {"end", "erase"} : ~On(at', u, q, c)
      BY <1>3, <3>3, <3>5, <3>6 DEF Places
    <3>8. QED
      BY <3>3, <3>4, <3>7 DEF GoodConn, Places, Entering
  <2>4. CASE p = "end"
    <3>1. conn[c].stage = "live"
      BY <1>1, <2>4
    <3>2. \A u \in IoThreads, q \in Entering : ~On(at, u, q, c)
      BY <2>1, <3>1 DEF GoodConn, Places, Entering
    <3>3. conn'[c].stage = "live" /\ held' = held /\ On(at', t, "end", c) /\ "end" \in Places
      BY <1>2, <1>3, <2>2, <2>4, <3>1 DEF Places
    <3>4. \A u \in IoThreads, q \in Entering : ~On(at', u, q, c)
      BY <2>2, <2>4, <3>2 DEF Places, Entering
    <3>5. \A u \in IoThreads, q \in {"erase", "get_id"} : On(at', u, q, c) <=> On(at, u, q, c)
      BY <2>2, <2>4 DEF Places
    <3>6. \A u \in IoThreads : conn'[c].lock = u <=> On(at', u, "erase", c)
      BY <1>3, <2>1, <3>5 DEF GoodConn
    <3>7. QED
      BY <2>1, <3>3, <3>4, <3>5, <3>6 DEF GoodConn, Places, Entering
  <2>5. QED
    BY <2>3, <2>4
<1>6. QED
  <2>1. at'[t].conn = c /\ held' = held /\ held \subseteq Connections
    BY <1>2, <1>4 DEF IInv, Good
  <2>2. Good(acceptor', conn', held', at')
    BY <1>2, <1>3, <1>4, <1>5, <2>1, StepGood
  <2>3. QED
    BY <1>2, <2>2 DEF IInv

(* A thread that enters the accept handler is alone with its connection. *)
LEMMA Alone ==
  ASSUME IInv, NEW t \in IoThreads, NEW c \in Connections, NEW p \in Entering, Waits(t, p, c)
  PROVE  \A u \in IoThreads, q \in Places : u # t => ~On(at, u, q, c)
<1>1. p \in Places
  BY DEF Places, Entering
<1>2. On(at, t, p, c) /\ GoodConn(conn, held, at, c)
  BY <1>1, AtPlace
<1>3. QED
  BY <1>2 DEF GoodConn

(* One thread at most is in get_id(): it has the acceptor's mutex. *)
LEMMA OneInside ==
  ASSUME IInv, NEW t \in IoThreads, NEW u \in IoThreads, NEW c, NEW d,
         On(at, t, "get_id", c), On(at, u, "get_id", d)
  PROVE  t = u /\ c = d
<1>1. acceptor.lock = t /\ acceptor.lock = u
  BY DEF IInv, Good, GoodPlaces, On
<1>2. QED
  BY <1>1 DEF On

(* The accepted connection is closed. *)
LEMMA RefusedGood ==
  ASSUME IInv, NEW t \in IoThreads, NEW c \in Connections, NEW p \in Entering, Waits(t, p, c),
         NEW pl2, pl2 = [at EXCEPT ![t] = Idle]
  PROVE  Good(acceptor, [conn EXCEPT ![c] = Dead], held, pl2)
<1> DEFINE cn2 == [conn EXCEPT ![c] = Dead]
<1>1. /\ at[t].conn = c /\ acceptor.lock # t /\ GoodConn(conn, held, at, c)
      /\ On(at, t, p, c) /\ p \in Places
  <2>1. p \in Places /\ p # "get_id"
    BY DEF Places, Entering
  <2>2. QED
    BY <2>1, AtPlace
<1>2. /\ GoodPlaces(acceptor, pl2) /\ pl2[t] = Idle
      /\ \A u \in IoThreads : u # t => pl2[u] = at[u]
  <2>1. Idle.place # "get_id"
    BY DEF Idle
  <2>2. QED
    BY <1>1, <2>1 DEF IInv, Good, GoodPlaces
<1>3. /\ cn2 \in [Connections -> ConnState] /\ cn2[c] = Dead
      /\ \A d \in Connections : d # c => cn2[d] = conn[d]
  BY DEF IInv, Good, ConnState, Dead, Stages, Handlers
<1>4. \A u \in IoThreads, q \in Places : ~On(pl2, u, q, c)
  <2>1. \A u \in IoThreads, q \in Places : u # t => ~On(at, u, q, c)
    BY Alone
  <2>2. \A q \in Places : ~On(pl2, t, q, c)
    BY <1>2 DEF On, Idle, Places
  <2>3. QED
    BY <1>2, <2>1, <2>2 DEF On
<1>5. c \notin held
  BY <1>1 DEF GoodConn
<1> HIDE DEF cn2
<1>6. GoodConn(cn2, held, pl2, c)
  <2>1. cn2[c].stage = "closed" /\ ~cn2[c].current /\ \A u \in IoThreads : cn2[c].lock # u
    BY <1>3, AcceptorAssumption DEF Dead
  <2>2. QED
    BY <1>4, <1>5, <2>1 DEF GoodConn, Entering, Places
<1>7. Good(acceptor, cn2, held, pl2)
  <2>1. held \subseteq Connections
    BY DEF IInv, Good
  <2>2. \A d \in Connections : d # c => cn2[d] = conn[d] /\ (d \in held <=> d \in held)
    BY <1>3
  <2>3. at[t] = Idle \/ at[t].conn = c
    BY <1>1
  <2>4. pl2[t] = Idle \/ pl2[t].conn = c
    BY <1>2
  <2>5. GoodPlaces(acceptor, pl2) /\ cn2 \in [Connections -> ConnState]
        /\ \A u \in IoThreads : u # t => pl2[u] = at[u]
    BY <1>2, <1>3
  <2>6. QED
    BY <1>6, <2>1, <2>2, <2>3, <2>4, <2>5, StepGood
<1>8. QED
  BY <1>7 DEF cn2

LEMMA RefusalsGood ==
  ASSUME IInv, NEW t \in IoThreads, NEW c \in Connections,
         ConfirmRefuse(t, c) \/ WouldBlock(t, c) \/ Fatal(t, c)
  PROVE  IInv'
<1> DEFINE cn2 == [conn EXCEPT ![c] = Dead]
<1>1. PICK p \in Entering : Waits(t, p, c)
  BY DEF ConfirmRefuse, WouldBlock, Fatal, Enter, Entering
<1>2. at' = [at EXCEPT ![t] = Idle] /\ held' = held /\ stray' \in BOOLEAN
  <2>1. ASSUME NEW q, Enter(t, q, c)
        PROVE  stray' \in BOOLEAN
    BY <2>1 DEF Enter, IInv
  <2>2. QED
    BY <2>1 DEF ConfirmRefuse, WouldBlock, Fatal
<1>3. Good(acceptor, cn2, held, at')
  BY <1>1, <1>2, RefusedGood
<1>4. CASE ConfirmRefuse(t, c) \/ WouldBlock(t, c)
  <2>1. More(acceptor, cn2, held, at') /\ acceptor' = acceptor
    BY <1>4 DEF ConfirmRefuse, WouldBlock
  <2>2. QED
    BY <1>2, <1>3, <2>1, MoreGood DEF IInv
<1>5. CASE Fatal(t, c)
  <2>1. conn' = cn2 /\ acceptor' = [acceptor EXCEPT !.failed = TRUE]
    BY <1>5 DEF Fatal
  <2>2. GoodPlaces(acceptor', at')
    BY <1>3, <2>1 DEF Good, GoodPlaces
  <2>3. QED
    BY <1>2, <1>3, <2>1, <2>2 DEF IInv, Good
<1>6. QED
  BY <1>4, <1>5

(* The connection starts, and its thread waits for its mutex. *)
LEMMA ConfirmStartGood ==
  ASSUME IInv, NEW t \in IoThreads, NEW c \in Connections, ConfirmStart(t, c)
  PROVE  IInv'
<1> DEFINE where == [place |-> "get_id", conn |-> c]
<1>1. /\ Waits(t, "ok", c) /\ acceptor.lock = None /\ held' = held
      /\ acceptor' = [acceptor EXCEPT !.lock = t]
      /\ at' = [at EXCEPT ![t].place = "get_id"]
  BY DEF ConfirmStart, Enter
<1>2. stray' \in BOOLEAN
  BY DEF ConfirmStart, Enter, IInv
<1>3. /\ at[t].conn = c /\ GoodConn(conn, held, at, c) /\ On(at, t, "ok", c)
      /\ conn[c] \in ConnState /\ conn[c].lock # t
  BY <1>1, AtPlace DEF Places
<1>4. at' = [at EXCEPT ![t] = where]
  <2>1. at[t] = [place |-> "ok", conn |-> c]
    BY <1>3 DEF On
  <2>2. [at[t] EXCEPT !.place = "get_id"] = where
    BY <2>1
  <2>3. QED
    BY <1>1, <2>2
<1>5. /\ GoodPlaces(acceptor', at') /\ at'[t] = where
      /\ \A u \in IoThreads : u # t => at'[u] = at[u]
  <2>1. where \in [place : Places, conn : {c}] /\ where.place = "get_id"
    BY DEF Places
  <2> HIDE DEF where
  <2>2. \A u \in IoThreads : u # t => (t = u <=> acceptor.lock = u)
    BY <1>1, AcceptorAssumption
  <2>3. t \in IoThreads \cup {None}
    OBVIOUS
  <2>4. QED
    BY <1>1, <1>3, <1>4, <2>1, <2>2, <2>3 DEF IInv, Good, GoodPlaces
<1>0. PICK new \in {[conn[c] EXCEPT !.stage = "live", !.handlers = 2],
                    [conn[c] EXCEPT !.stage = "stillborn"]} :
        conn' = [conn EXCEPT ![c] = new]
  BY DEF ConfirmStart, IInv, Good
<1>6. /\ conn' \in [Connections -> ConnState] /\ conn'[c].stage \in {"live", "stillborn"}
      /\ conn'[c].lock = conn[c].lock
      /\ \A d \in Connections : d # c => conn'[d] = conn[d]
  <2>1. conn \in [Connections -> ConnState]
    BY DEF IInv, Good
  <2>2. CASE new = [conn[c] EXCEPT !.stage = "live", !.handlers = 2]
    <3> DEFINE staged == [conn[c] EXCEPT !.stage = "live"]
    <3>1. staged \in ConnState /\ staged.stage = "live" /\ staged.lock = conn[c].lock
      BY <1>3 DEF ConnState, Stages
    <3>2. new = [staged EXCEPT !.handlers = 2]
      BY <2>2
    <3> HIDE DEF staged
    <3>3. new \in ConnState /\ new.stage = "live" /\ new.lock = conn[c].lock
      BY <3>1, <3>2 DEF ConnState, Handlers
    <3>4. QED
      BY <1>0, <2>1, <3>3
  <2>3. CASE new = [conn[c] EXCEPT !.stage = "stillborn"]
    <3>1. new \in ConnState /\ new.stage = "stillborn" /\ new.lock = conn[c].lock
      BY <1>3, <2>3 DEF ConnState, Stages
    <3>2. QED
      BY <1>0, <2>1, <3>1
  <2>4. QED
    BY <2>2, <2>3
<1>7. \A u \in IoThreads, q \in Places : On(at', u, q, c) <=> u = t /\ q = "get_id"
  <2>1. \A u \in IoThreads, q \in Places : u # t => ~On(at, u, q, c)
    BY <1>1, Alone DEF Entering
  <2>2. QED
    BY <1>5, <2>1 DEF On
<1>8. c \notin held /\ \A u \in IoThreads : conn'[c].lock # u
  BY <1>1, <1>3, <1>6, Alone DEF GoodConn, Entering, Places
<1>9. GoodConn(conn', held, at', c)
  BY <1>6, <1>7, <1>8 DEF GoodConn, Entering, Places
<1>10. Good(acceptor', conn', held, at')
  BY <1>3, <1>5, <1>6, <1>9, StepGood DEF IInv, Good
<1>11. QED
  BY <1>1, <1>2, <1>10 DEF IInv

(* The connection is attached. *)
LEMMA ConfirmAttachGood ==
  ASSUME IInv, NEW t \in IoThreads, NEW c \in Connections, ConfirmAttach(t, c)
  PROVE  IInv'
<1> DEFINE a2 == [acceptor EXCEPT !.lock = None]
<1>1. /\ Waits(t, "get_id", c) /\ acceptor' = a2 /\ at' = [at EXCEPT ![t] = Idle]
      /\ held' = held \cup {c} /\ stray' = stray /\ More(acceptor, conn, held', at')
  BY DEF ConfirmAttach
<1>2. /\ at[t].conn = c /\ GoodConn(conn, held, at, c) /\ On(at, t, "get_id", c)
      /\ acceptor.lock = t /\ conn[c].lock # t
  BY <1>1, AtPlace DEF Places
<1>3. \A u \in IoThreads : u # t => (None = u <=> acceptor.lock = u)
  BY <1>2, AcceptorAssumption
<1>4. /\ GoodPlaces(a2, at') /\ at'[t] = Idle
      /\ \A u \in IoThreads : u # t => at'[u] = at[u]
  <2>1. Idle.place # "get_id" /\ None # t
    BY AcceptorAssumption DEF Idle
  <2>2. None \in IoThreads \cup {None}
    OBVIOUS
  <2> HIDE DEF a2
  <2>3. a2 = [acceptor EXCEPT !.lock = None]
    BY DEF a2
  <2>4. QED
    BY <1>1, <1>2, <1>3, <2>1, <2>2, <2>3 DEF IInv, Good, GoodPlaces
<1>5. \A u \in IoThreads, q \in Places :
        On(at', u, q, c) => /\ On(at, u, q, c) /\ q # "get_id"
  <2>1. \A u \in IoThreads : u # t => ~On(at, u, "get_id", c)
    BY <1>2, OneInside
  <2>2. \A q \in Places : ~On(at', t, q, c)
    BY <1>4 DEF On, Idle, Places
  <2>3. QED
    BY <1>4, <2>1, <2>2 DEF On
<1>6. \A u \in IoThreads : On(at', u, "erase", c) <=> On(at, u, "erase", c)
  <2>1. ~On(at, t, "erase", c)
    BY <1>2 DEF On
  <2>2. QED
    BY <1>4, <1>5, <2>1 DEF On, Places
<1>7. GoodConn(conn, held', at', c)
  <2>1. conn[c].stage \notin {"accepting", "misarmed", "accepted"} /\ c \in held'
        /\ (conn[c].current => conn[c].stage \in {"live", "stillborn"})
    BY <1>1, <1>2 DEF GoodConn
  <2>2. \A u \in IoThreads : conn[c].lock = u <=> On(at', u, "erase", c)
    BY <1>2, <1>6 DEF GoodConn
  <2>3. \A u \in IoThreads : ~On(at', u, "get_id", c)
    BY <1>5 DEF Places
  <2>4. \A u \in IoThreads, q \in Entering : ~On(at', u, q, c)
    BY <1>2, <1>5, <2>1 DEF GoodConn, Entering, Places
  <2>5. \A u \in IoThreads, q \in {"end", "erase"} :
          On(at', u, q, c) => conn[c].stage \in {"live", "closed"}
    BY <1>2, <1>5 DEF GoodConn, Places
  <2>6. QED
    BY <2>1, <2>2, <2>3, <2>4, <2>5 DEF GoodConn
<1>8. Good(a2, conn, held', at')
  <2>1. held' \subseteq Connections /\ conn \in [Connections -> ConnState]
    BY <1>1 DEF IInv, Good
  <2>2. \A d \in Connections : d # c => conn[d] = conn[d] /\ (d \in held' <=> d \in held)
    BY <1>1
  <2>3. at[t] = Idle \/ at[t].conn = c
    BY <1>2
  <2>4. at'[t] = Idle \/ at'[t].conn = c
    BY <1>4
  <2> HIDE DEF a2
  <2>5. QED
    BY <1>4, <1>7, <2>1, <2>2, <2>3, <2>4, StepGood
<1>9. More(a2, conn, held', at')
  <2>1. a2.status = acceptor.status /\ a2.open = acceptor.open
    BY DEF IInv, Good, GoodPlaces
  <2>2. QED
    BY <1>1, <2>1 DEF More
<1>10. QED
  BY <1>1, <1>8, <1>9, MoreGood DEF IInv

(* Nobody enters the accept handler of a connection that a thread is to    *)
(* end, and nobody else has its mutex.                                     *)
LEMMA Ending ==
  ASSUME IInv, NEW t \in IoThreads, NEW c \in Connections,
         NEW p \in {"end", "erase"}, Waits(t, p, c)
  PROVE  /\ \A u \in IoThreads, q \in Entering : ~On(at, u, q, c)
         /\ \A u \in IoThreads : conn[c].lock = u <=> On(at, u, "erase", c)
         /\ conn[c].stage \in {"live", "closed"} /\ conn[c] \in ConnState
         /\ at[t].conn = c /\ acceptor.lock # t
<1>1. p \in Places /\ p \notin Entering
  BY DEF Places, Entering
<1>2. /\ On(at, t, p, c) /\ at[t].conn = c /\ acceptor.lock # t
      /\ GoodConn(conn, held, at, c) /\ conn[c] \in ConnState
  BY <1>1, AtPlace
<1>3. ASSUME NEW u \in IoThreads, NEW q \in Entering, On(at, u, q, c)
      PROVE  FALSE
  <2>1. u = t
    BY <1>1, <1>2, <1>3 DEF GoodConn
  <2>2. p = q
    BY <1>2, <1>3, <2>1 DEF On
  <2>3. QED
    BY <1>1, <2>2
<1>4. QED
  BY <1>2, <1>3 DEF GoodConn

(* The thread has the connection's mutex and goes to the acceptor. *)
LEMMA LockedGood ==
  ASSUME IInv, NEW t \in IoThreads, NEW c \in Connections, EndLocked(t, c), conn[c].current
  PROVE  IInv'
<1> DEFINE where == [place |-> "erase", conn |-> c]
           new == [conn[c] EXCEPT !.lock = t]
<1>1. /\ Waits(t, "end", c) /\ conn[c].lock = None
      /\ conn' = [conn EXCEPT ![c].lock = t] /\ at' = [at EXCEPT ![t].place = "erase"]
      /\ UNCHANGED <<acceptor, held, stray>>
  BY DEF EndLocked
<1>2. /\ \A u \in IoThreads, q \in Entering : ~On(at, u, q, c)
      /\ \A u \in IoThreads : conn[c].lock = u <=> On(at, u, "erase", c)
      /\ conn[c].stage \in {"live", "closed"} /\ conn[c] \in ConnState
      /\ at[t].conn = c /\ acceptor.lock # t
  BY <1>1, Ending
<1>3. /\ GoodPlaces(acceptor', at') /\ at'[t] = where
      /\ \A u \in IoThreads : u # t => at'[u] = at[u]
  <2>1. [at[t] EXCEPT !.place = "erase"] = where
    BY <1>1 DEF Waits
  <2>2. at' = [at EXCEPT ![t] = where]
    BY <1>1, <2>1
  <2>3. where \in [place : Places, conn : {c}] /\ where.place # "get_id"
    BY DEF Places
  <2> HIDE DEF where
  <2>4. QED
    <3>1. /\ at' \in [IoThreads -> {Idle} \cup [place : Places, conn : Connections]]
          /\ at'[t] = where /\ \A u \in IoThreads : u # t => at'[u] = at[u]
      BY <2>2, <2>3 DEF IInv, Good, GoodPlaces
    <3>2. acceptor' = acceptor /\ GoodPlaces(acceptor, at)
      BY <1>1 DEF IInv, Good
    <3>3. QED
      BY <1>2, <2>3, <3>1, <3>2 DEF GoodPlaces
<1>4. /\ conn' \in [Connections -> ConnState] /\ conn'[c].lock = t
      /\ conn'[c].stage = conn[c].stage /\ conn'[c].current = conn[c].current
      /\ \A d \in Connections : d # c => conn'[d] = conn[d]
  <2>1. conn \in [Connections -> ConnState]
    BY DEF IInv, Good
  <2>2. new \in ConnState /\ new.lock = t /\ new.stage = conn[c].stage
        /\ new.current = conn[c].current
    BY <1>2 DEF ConnState
  <2>3. conn' = [conn EXCEPT ![c] = new]
    BY <1>1, <2>1
  <2> HIDE DEF new
  <2>4. QED
    BY <2>1, <2>2, <2>3
<1>5. GoodConn(conn', held', at', c)
  <2>1. \A u \in IoThreads, q \in Entering : ~On(at', u, q, c)
    BY <1>2, <1>3 DEF On, Entering
  <2>2. \A u \in IoThreads : On(at', u, "erase", c) <=> u = t
    BY <1>1, <1>2, <1>3, AcceptorAssumption DEF On
  <2>3. On(at', t, "erase", c) /\ "erase" \in Places
    BY <2>2 DEF Places
  <2>4. GoodConn(conn, held, at, c) /\ held' = held
    BY <1>1 DEF IInv, Good
  <2>5. c \in held' /\ conn'[c].current => conn'[c].stage \in {"live", "stillborn"}
    BY <1>4, <2>4 DEF GoodConn
  <2>6. QED
    <3>1. \A u \in IoThreads : conn'[c].lock = u <=> On(at', u, "erase", c)
      BY <1>4, <2>2
    <3>2. \A u \in IoThreads : On(at', u, "get_id", c) =>
            /\ c \notin held' /\ conn'[c].stage \in {"live", "stillborn", "closed"}
            /\ conn'[c].stage = "closed" => ~conn'[c].current
      <4>1. \A u \in IoThreads : On(at', u, "get_id", c) => On(at, u, "get_id", c)
        BY <1>3 DEF On
      <4>2. QED
        BY <1>4, <2>4, <4>1 DEF GoodConn
    <3>3. QED
      BY <1>2, <1>4, <2>1, <2>3, <2>5, <3>1, <3>2 DEF GoodConn
<1>6. Good(acceptor', conn', held', at')
  <2>1. held' \subseteq Connections
    BY <1>1 DEF IInv, Good
  <2>2. at'[t].conn = c
    BY <1>3
  <2>3. \A d \in Connections : d # c => conn'[d] = conn[d] /\ (d \in held' <=> d \in held)
    BY <1>1, <1>4
  <2>4. QED
    BY <1>2, <1>3, <1>4, <1>5, <2>1, <2>2, <2>3, StepGood
<1>7. QED
  BY <1>1, <1>6 DEF IInv

(* The connection is closed, and its thread leaves. *)
LEMMA ClosedGood ==
  ASSUME IInv, NEW t \in IoThreads, NEW c \in Connections,
         NEW p \in {"end", "erase"}, Waits(t, p, c),
         p = "end" => conn[c].lock = None /\ ~conn[c].current /\ held' = held,
         p = "erase" => held' = held \ {c} /\ acceptor.lock = None,
         conn' = Closed(c), at' = [at EXCEPT ![t] = Idle], UNCHANGED <<acceptor, stray>>
  PROVE  IInv'
<1> DEFINE current == conn[c].current /\ InHands(c, {"end"})
           new == [Dead EXCEPT !.current = current]
<1>1. /\ \A u \in IoThreads, q \in Entering : ~On(at, u, q, c)
      /\ \A u \in IoThreads : conn[c].lock = u <=> On(at, u, "erase", c)
      /\ conn[c] \in ConnState /\ at[t].conn = c /\ acceptor.lock # t
  BY Ending
<1>2. /\ GoodPlaces(acceptor', at') /\ at'[t] = Idle
      /\ \A u \in IoThreads : u # t => at'[u] = at[u]
  <2>1. Idle.place # "get_id"
    BY DEF Idle
  <2>2. QED
    BY <1>1, <2>1 DEF IInv, Good, GoodPlaces
<1>3. /\ conn' \in [Connections -> ConnState] /\ conn'[c].stage = "closed"
      /\ conn'[c].lock = None /\ (conn'[c].current => conn[c].current)
      /\ \A d \in Connections : d # c => conn'[d] = conn[d]
  <2>1. conn \in [Connections -> ConnState]
    BY DEF IInv, Good
  <2>2. current \in BOOLEAN /\ (current => conn[c].current)
    BY <1>1 DEF ConnState
  <2> HIDE DEF current
  <2>3. /\ new \in ConnState /\ new.stage = "closed" /\ new.lock = None
        /\ (new.current => conn[c].current)
    BY <2>2 DEF ConnState, Dead, Stages, Handlers
  <2>4. conn' = [conn EXCEPT ![c] = new]
    BY DEF Closed, current
  <2> HIDE DEF new
  <2>5. QED
    BY <2>1, <2>3, <2>4
<1>4. \A u \in IoThreads : ~On(at', u, "erase", c)
  <2>1. ~On(at', t, "erase", c)
    BY <1>2 DEF On, Idle
  <2>2. ASSUME NEW u \in IoThreads, u # t
        PROVE  ~On(at, u, "erase", c)
    <3>1. CASE p = "end"
      BY <1>1, <3>1, AcceptorAssumption
    <3>2. CASE p = "erase"
      BY <1>1, <2>2, <3>2 DEF Waits, On
    <3>3. QED
      BY <3>1, <3>2
  <2>3. QED
    BY <1>2, <2>1, <2>2 DEF On
<1>5. \A u \in IoThreads, q \in Entering : ~On(at', u, q, c)
  <2>1. \A q \in Entering : ~On(at', t, q, c)
    BY <1>2 DEF On, Idle
  <2>2. QED
    BY <1>1, <1>2, <2>1 DEF On
<1>6. c \in held' => ~conn'[c].current
  BY <1>3
<1>7a. \A u \in IoThreads :
         On(at', u, "get_id", c) => c \notin held' /\ ~conn'[c].current
  <2>1. ASSUME NEW u \in IoThreads, On(at', u, "get_id", c)
        PROVE  c \notin held' /\ ~conn'[c].current
    <3>1. On(at, u, "get_id", c)
      BY <1>2, <2>1 DEF On, Idle
    <3>2. acceptor.lock = u
      BY <3>1 DEF On, IInv, Good, GoodPlaces
    <3>3. p = "end"
      BY <3>2, AcceptorAssumption
    <3>4. c \notin held
      BY <3>1 DEF GoodConn, IInv, Good
    <3>5. QED
      BY <1>3, <3>3, <3>4
  <2>2. QED
    BY <2>1
<1>7. GoodConn(conn', held', at', c)
  <2>1. \A u \in IoThreads : conn'[c].lock # u
    BY <1>3, AcceptorAssumption
  <2>2. QED
    BY <1>3, <1>4, <1>5, <1>6, <1>7a, <2>1 DEF GoodConn, Entering
<1>8. Good(acceptor', conn', held', at')
  <2>1. held' \subseteq Connections
    BY DEF IInv, Good
  <2>2. \A d \in Connections : d # c => conn'[d] = conn[d] /\ (d \in held' <=> d \in held)
    BY <1>3
  <2>3. ASSUME NEW d \in Connections, d # c
        PROVE  GoodConn(conn', held', at', d)
    <3>1. \A u \in IoThreads, q \in Places : On(at', u, q, d) <=> On(at, u, q, d)
      BY <1>1, <1>2, <2>3 DEF On, Idle
    <3>2. GoodConn(conn, held, at, d)
      BY DEF IInv, Good
    <3>3. QED
      BY <2>2, <2>3, <3>1, <3>2, Elsewhere
  <2>4. QED
    BY <1>2, <1>3, <1>7, <2>1, <2>3 DEF Good
<1>9. QED
  BY <1>8 DEF IInv

(* A handler that ends a connection. *)
LEMMA EndsGood ==
  ASSUME IInv, NEW t \in IoThreads, NEW c \in Connections, EndLocked(t, c) \/ Erase(t, c)
  PROVE  IInv'
<1>1. CASE EndLocked(t, c) /\ conn[c].current
  BY <1>1, LockedGood
<1>2. CASE EndLocked(t, c) /\ ~conn[c].current
  BY <1>2, ClosedGood DEF EndLocked
<1>3. CASE Erase(t, c)
  BY <1>3, ClosedGood DEF Erase
<1>4. QED
  BY <1>1, <1>2, <1>3
-----------------------------------------------------------------------------
LEMMA Initially == Init => IInv
<1> SUFFICES ASSUME Init PROVE IInv
  OBVIOUS
<1>1. GoodPlaces(acceptor, at)
  BY AcceptorAssumption DEF Init, GoodPlaces, Idle
<1>2. conn \in [Connections -> ConnState]
  BY DEF Init, ConnState, Dead, Stages, Handlers
<1>3. ASSUME NEW c \in Connections
      PROVE  GoodConn(conn, held, at, c)
  <2>1. \A t \in IoThreads, p \in Places : ~On(at, t, p, c)
    BY DEF Init, On, Idle
  <2>2. conn[c] = Dead /\ c \notin held
    BY DEF Init
  <2>3. QED
    BY <2>1, <2>2, AcceptorAssumption DEF GoodConn, Dead, Entering, Places
<1>4. QED
  BY <1>1, <1>2, <1>3 DEF Init, IInv, Good

LEMMA Stepwise ==
  ASSUME IInv, [Next]_vars
  PROVE  IInv'
<1>1. CASE Start \/ Close \/ Stop \/ \E c \in Connections : Canceled(c)
  BY <1>1, CallsGood
<1>2. ASSUME NEW t \in IoThreads, NEW c \in Connections, Accepted(t, c) \/ Ends(t, c)
      PROVE  IInv'
  BY <1>2, TakenGood
<1>3. ASSUME NEW t \in IoThreads, HandlerNext(t)
      PROVE  IInv'
  <2>1. PICK c \in Connections :
          \/ ConfirmStart(t, c) \/ ConfirmAttach(t, c) \/ ConfirmRefuse(t, c)
          \/ WouldBlock(t, c) \/ Fatal(t, c) \/ EndLocked(t, c) \/ Erase(t, c)
    BY <1>3 DEF HandlerNext, With
  <2>2. QED
    BY <2>1, ConfirmStartGood, ConfirmAttachGood, RefusalsGood, EndsGood
<1>4. CASE UNCHANGED vars
  BY <1>4 DEF vars, IInv, Good, GoodPlaces, GoodConn, On
<1>5. QED
  BY <1>1, <1>2, <1>3, <1>4 DEF Next

(* The invariant holds in every behaviour. *)
THEOREM Invariance == Spec => []IInv
<1>1. IInv /\ [Next]_vars => IInv'
  BY Stepwise
<1>2. QED
  BY <1>1, Initially, PTL DEF Spec

(* The types, and each mutex has the holder that is inside it: the         *)
(* acceptor's the accept handler in get_id(), the connection's the handler *)
(* in the shutdown handler.                                                *)
THEOREM TypeCorrect == Spec => []TypeOK
<1>1. IInv => TypeOK
  BY DEF IInv, Good, GoodPlaces, GoodConn, ConnState, TypeOK, Waits, On
<1>2. QED
  BY <1>1, Invariance, PTL

(* Every connection in the manager's map is live, unless its own startup   *)
(* handler stopped it or the acceptor was stopped since it was accepted:   *)
(* one that ends in any other way is erased after it was attached.         *)
THEOREM NoGhostsHolds == Spec => []NoGhosts
<1>1. IInv => NoGhosts
  BY DEF IInv, Good, GoodConn, NoGhosts
<1>2. QED
  BY <1>1, Invariance, PTL

(* A live connection is in the map, or the thread that will put it there   *)
(* or erases it is in its handler.                                         *)
THEOREM OwnedHolds == Spec => []Owned
<1>1. IInv => Owned
  BY DEF IInv, Good, GoodConn, Owned, InHands, Waits, On
<1>2. QED
  BY <1>1, Invariance, PTL
-----------------------------------------------------------------------------
(* The accepts under way and the handler between two of them.  A chain of  *)
(* accepts has one of these, and each action but More ends or keeps it.    *)
Early == {"accepting", "misarmed", "accepted"}

Front(cn, pl) ==
  {c \in Connections : \/ cn[c].stage \in Early /\ cn[c].current
                       \/ \E t \in IoThreads : On(pl, t, "get_id", c)}

Chain(a, cn, pl, astray) ==
  /\ ~a.status => \A c \in Connections : cn[c].stage \notin {"accepting", "misarmed"}
  /\ ~astray =>
       /\ \A c, d \in Front(cn, pl) : c = d
       /\ ~a.status => Front(cn, pl) = {}
       /\ a.status /\ a.open /\ ~a.failed => Front(cn, pl) # {}

ChainInv == IInv /\ Chain(acceptor, conn, at, stray)

(* Where a chain has ended, More begins the next one. *)
LEMMA MoreChain ==
  ASSUME NEW a, NEW cn, NEW map, NEW pl, NEW astray, cn \in [Connections -> ConnState],
         More(a, cn, map, pl), a.status \in BOOLEAN,
         ~a.status => \A c \in Connections : cn[c].stage \notin {"accepting", "misarmed"},
         ~astray => Front(cn, pl) = {}
  PROVE  Chain(a, conn', pl, astray)
<1>1. CASE ~a.status
  BY <1>1 DEF More, Chain
<1>2. CASE a.status
  <2> DEFINE new == [Dead EXCEPT !.stage = IF a.open THEN "accepting" ELSE "misarmed",
                                 !.current = TRUE]
  <2>1. PICK n \in Unused(cn, map, pl) : conn' = [cn EXCEPT ![n] = new]
    BY <1>2 DEF More
  <2>2. new.stage \in Early /\ new.current
    BY DEF Dead, Early
  <2> HIDE DEF new
  <2>3. /\ n \in Connections /\ conn'[n] = new
        /\ \A d \in Connections : d # n => conn'[d] = cn[d]
    BY <2>1 DEF Unused
  <2>4. n \in Front(conn', pl)
    BY <2>2, <2>3 DEF Front
  <2>5. ASSUME ~astray, NEW d \in Front(conn', pl)
        PROVE  d = n
    <3>1. d # n => d \in Front(cn, pl)
      BY <2>3, <2>5 DEF Front
    <3>2. QED
      BY <2>5, <3>1
  <2>6. QED
    BY <1>2, <2>4, <2>5 DEF Chain
<1>3. QED
  BY <1>1, <1>2

(* A step that starts no accept, when the acceptor is not changed. *)
LEMMA KeepsChain ==
  ASSUME ChainInv, acceptor' = acceptor, stray' = stray,
         Front(conn', at') = Front(conn, at),
         \A c \in Connections :
           conn'[c].stage \in {"accepting", "misarmed"} => conn'[c].stage = conn[c].stage
  PROVE  Chain(acceptor', conn', at', stray')
BY DEF ChainInv, Chain

(* The user's calls and the kernel. *)
LEMMA CallsChain ==
  ASSUME ChainInv, Start \/ Close \/ Stop \/ \E c \in Connections : Canceled(c)
  PROVE  Chain(acceptor', conn', at', stray')
<1>0. IInv /\ Chain(acceptor, conn, at, stray) /\ conn \in [Connections -> ConnState]
  BY DEF ChainInv, IInv, Good
<1>1. CASE Start
  <2> DEFINE cn == [c \in Connections |->
                     IF c \in held /\ ~InHands(c, Places) THEN Dead ELSE conn[c]]
  <2>1. cn \in [Connections -> ConnState]
    BY <1>0 DEF ConnState, Dead, Stages, Handlers
  <2>2. More(acceptor', cn, held', at) /\ at' = at /\ stray' = stray
        /\ acceptor'.status = TRUE /\ ~acceptor.status
    BY <1>0, <1>1 DEF Start, IInv, Good, GoodPlaces
  <2>3. \A c \in Connections : cn[c] = conn[c] \/ cn[c] = Dead
    OBVIOUS
  <2>4. Front(cn, at) \subseteq Front(conn, at)
    BY <2>3 DEF Front, Dead, Early
  <2> HIDE DEF cn
  <2>5. ~stray' => Front(cn, at) = {}
    BY <1>0, <2>2, <2>4 DEF Chain
  <2>6. Chain(acceptor', conn', at, stray')
    BY <2>1, <2>2, <2>5, MoreChain
  <2>7. QED
    BY <2>2, <2>6
<1>2. CASE Close
  BY <1>0, <1>2 DEF Close, Chain, IInv, Good, GoodPlaces
<1>3. CASE Stop
  <2>1. at' = at /\ stray' = stray /\ ~acceptor'.status /\ acceptor.lock = None
        /\ GoodPlaces(acceptor, at)
    BY <1>0, <1>3 DEF Stop, IInv, Good, GoodPlaces
  <2>2. \A t \in IoThreads, c \in Connections : ~On(at', t, "get_id", c)
    BY <2>1, AcceptorAssumption DEF GoodPlaces, On
  <2>3. ASSUME NEW c \in Connections
        PROVE  ~conn'[c].current /\ conn'[c].stage \notin {"accepting", "misarmed"}
    <3>1. conn[c] \in ConnState
      BY <1>0
    <3>2. conn'[c] = IF conn[c].stage \in {"accepting", "misarmed"} THEN Dead
                     ELSE [conn[c] EXCEPT !.current = FALSE]
      BY <1>3 DEF Stop
    <3>3. QED
      BY <3>1, <3>2 DEF ConnState, Dead
  <2>4. Front(conn', at') = {}
    BY <2>2, <2>3 DEF Front
  <2>5. QED
    BY <2>1, <2>3, <2>4 DEF Chain
<1>4. ASSUME NEW c \in Connections, Canceled(c)
      PROVE  Chain(acceptor', conn', at', stray')
  <2>1. /\ conn' = [conn EXCEPT ![c] = Dead] /\ ~acceptor.open
        /\ acceptor' = acceptor /\ at' = at /\ stray' = stray
    BY <1>4 DEF Canceled
  <2>2. \A d \in Connections : conn'[d] = conn[d] \/ conn'[d] = Dead
    BY <1>0, <2>1
  <2>3. Front(conn', at') \subseteq Front(conn, at)
    BY <2>1, <2>2 DEF Front, Dead, Early
  <2>4. \A d \in Connections :
          conn'[d].stage \in {"accepting", "misarmed"} => conn'[d].stage = conn[d].stage
    BY <2>2 DEF Dead
  <2>5. QED
    BY <1>0, <2>1, <2>3, <2>4 DEF Chain
<1>5. QED
  BY <1>1, <1>2, <1>3, <1>4

(* A completed accept is taken, or a connection begins to end. *)
LEMMA TakenChain ==
  ASSUME ChainInv, NEW t \in IoThreads, NEW c \in Connections, Accepted(t, c) \/ Ends(t, c)
  PROVE  Chain(acceptor', conn', at', stray')
<1>1. conn \in [Connections -> ConnState] /\ conn[c] \in ConnState
      /\ at \in [IoThreads -> {Idle} \cup [place : Places, conn : Connections]]
  BY DEF ChainInv, IInv, Good, GoodPlaces
<1>2. PICK p \in Entering \cup {"end"} : Take(t, p, c)
  BY DEF Accepted, Ends, Entering
<1>3. /\ acceptor' = acceptor /\ stray' = stray /\ at[t] = Idle
      /\ at'[t] = [place |-> p, conn |-> c] /\ \A u \in IoThreads : u # t => at'[u] = at[u]
  BY <1>1, <1>2 DEF Take
<1>4. \A u \in IoThreads, d \in Connections :
        On(at', u, "get_id", d) <=> On(at, u, "get_id", d)
  BY <1>3 DEF On, Idle, Entering
<1>5. /\ \A d \in Connections : d # c => conn'[d] = conn[d]
      /\ conn'[c].current = conn[c].current
      /\ conn'[c].stage \in Early <=> conn[c].stage \in Early
      /\ conn'[c].stage \notin {"accepting", "misarmed"}
  <2>1. CASE Accepted(t, c)
    BY <1>1, <2>1 DEF Accepted, ConnState, Early
  <2>2. CASE Ends(t, c)
    BY <1>1, <2>2 DEF Ends, ConnState, Early
  <2>3. QED
    BY <2>1, <2>2
<1>6. Front(conn', at') = Front(conn, at)
  BY <1>4, <1>5 DEF Front
<1>7. QED
  BY <1>3, <1>5, <1>6, KeepsChain

(* The accept handler, when it drops the connection. *)
LEMMA RefusalsChain ==
  ASSUME ChainInv, NEW t \in IoThreads, NEW c \in Connections,
         ConfirmRefuse(t, c) \/ WouldBlock(t, c) \/ Fatal(t, c)
  PROVE  Chain(acceptor', conn', at', stray')
<1> DEFINE cn2 == [conn EXCEPT ![c] = Dead]
<1>1. PICK p \in Entering : Enter(t, p, c)
  BY DEF ConfirmRefuse, WouldBlock, Fatal, Entering
<1>2. /\ Waits(t, p, c) /\ p \in Places /\ p # "get_id"
      /\ stray' = (stray \/ ~conn[c].current)
  BY <1>1 DEF Enter, Places, Entering
<1>3. IInv /\ conn \in [Connections -> ConnState] /\ stray \in BOOLEAN
      /\ at \in [IoThreads -> {Idle} \cup [place : Places, conn : Connections]]
      /\ acceptor.status \in BOOLEAN /\ Chain(acceptor, conn, at, stray)
  BY DEF ChainInv, IInv, Good, GoodPlaces
<1>4. On(at, t, p, c) /\ conn[c].stage = "accepted"
  BY <1>2, <1>3, AtPlace DEF GoodConn
<1>5. at'[t] = Idle /\ \A u \in IoThreads : u # t => at'[u] = at[u]
  BY <1>3 DEF ConfirmRefuse, WouldBlock, Fatal
<1>6. cn2 \in [Connections -> ConnState] /\ cn2[c] = Dead
      /\ \A d \in Connections : d # c => cn2[d] = conn[d]
  BY <1>3 DEF ConnState, Dead, Stages, Handlers
<1>7. ~stray' => Front(cn2, at') = {}
  <2> SUFFICES ASSUME ~stray', NEW d \in Front(cn2, at')
               PROVE  FALSE
    OBVIOUS
  <2>1. ~stray /\ conn[c].current /\ c \in Front(conn, at)
    BY <1>2, <1>3, <1>4 DEF Front, Early
  <2>2. \A u \in IoThreads, e \in Connections :
          On(at', u, "get_id", e) => On(at, u, "get_id", e)
    BY <1>5 DEF On, Idle
  <2>3. d # c => d \in Front(conn, at)
    BY <1>6, <2>2 DEF Front
  <2>4. d = c
    BY <1>3, <2>1, <2>3 DEF Chain
  <2>5. PICK u \in IoThreads : On(at, u, "get_id", c)
    BY <1>6, <2>2, <2>4 DEF Front, Dead, Early
  <2>6. QED
    BY <1>3, <1>4, <2>5 DEF IInv, Good, GoodConn
<1>8. \A d \in Connections :
        cn2[d].stage \in {"accepting", "misarmed"} => cn2[d].stage = conn[d].stage
  BY <1>6 DEF Dead
<1>9. CASE ConfirmRefuse(t, c) \/ WouldBlock(t, c)
  <2>1. More(acceptor, cn2, held, at') /\ acceptor' = acceptor
    BY <1>9 DEF ConfirmRefuse, WouldBlock
  <2> HIDE DEF cn2
  <2>2. ~acceptor.status => \A d \in Connections : cn2[d].stage \notin {"accepting", "misarmed"}
    BY <1>3, <1>8 DEF Chain
  <2>3. Chain(acceptor, conn', at', stray')
    BY <1>3, <1>6, <1>7, <2>1, <2>2, MoreChain
  <2>4. QED
    BY <2>1, <2>3
<1>10. CASE Fatal(t, c)
  <2>1. conn' = cn2 /\ acceptor' = [acceptor EXCEPT !.failed = TRUE]
    BY <1>10 DEF Fatal
  <2>2. acceptor'.failed /\ acceptor'.status = acceptor.status
    BY <2>1, <1>3 DEF IInv, Good, GoodPlaces
  <2> HIDE DEF cn2
  <2>3. QED
    BY <1>3, <1>7, <1>8, <2>1, <2>2 DEF Chain
<1>11. QED
  BY <1>9, <1>10

(* The accept becomes the connection that is being started. *)
LEMMA ConfirmStartChain ==
  ASSUME ChainInv, NEW t \in IoThreads, NEW c \in Connections, ConfirmStart(t, c)
  PROVE  Chain(acceptor', conn', at', stray')
<1>1. /\ Waits(t, "ok", c) /\ stray' = (stray \/ ~conn[c].current)
      /\ acceptor' = [acceptor EXCEPT !.lock = t]
      /\ at' = [at EXCEPT ![t].place = "get_id"]
      /\ \/ conn' = [conn EXCEPT ![c].stage = "live", ![c].handlers = 2]
         \/ conn' = [conn EXCEPT ![c].stage = "stillborn"]
  BY DEF ConfirmStart, Enter
<1>2. IInv /\ conn \in [Connections -> ConnState] /\ stray \in BOOLEAN
      /\ at \in [IoThreads -> {Idle} \cup [place : Places, conn : Connections]]
      /\ Chain(acceptor, conn, at, stray)
  BY DEF ChainInv, IInv, Good, GoodPlaces
<1>3. /\ acceptor'.status = acceptor.status /\ acceptor'.open = acceptor.open
      /\ acceptor'.failed = acceptor.failed
  BY <1>1, <1>2 DEF IInv, Good, GoodPlaces
<1>4. On(at, t, "ok", c) /\ conn[c].stage = "accepted"
  BY <1>1, <1>2, AtPlace DEF GoodConn, Places, Entering
<1>5. at'[t] = [place |-> "get_id", conn |-> c]
      /\ \A u \in IoThreads : u # t => at'[u] = at[u]
  BY <1>1, <1>2, <1>4 DEF On
<1>6. conn'[c].stage \in {"live", "stillborn"}
      /\ \A d \in Connections : d # c => conn'[d] = conn[d]
  <2>1. conn[c] \in ConnState
    BY <1>2
  <2>2. CASE conn' = [conn EXCEPT ![c].stage = "live", ![c].handlers = 2]
    <3>1. conn' = [conn EXCEPT ![c] = [conn[c] EXCEPT !.stage = "live", !.handlers = 2]]
      BY <1>2, <2>2
    <3>2. [conn[c] EXCEPT !.stage = "live", !.handlers = 2].stage = "live"
      BY <2>1 DEF ConnState
    <3>3. QED
      BY <1>2, <3>1, <3>2
  <2>3. CASE conn' = [conn EXCEPT ![c].stage = "stillborn"]
    BY <1>2, <2>1, <2>3 DEF ConnState
  <2>4. QED
    BY <1>1, <2>2, <2>3
<1>7. ASSUME ~stray'
      PROVE  Front(conn', at') = Front(conn, at)
  <2>1. c \in Front(conn, at)
    BY <1>1, <1>4, <1>7 DEF Front, Early
  <2>2. c \in Front(conn', at')
    BY <1>5 DEF Front, On
  <2>3. \A u \in IoThreads, d \in Connections :
          d # c => (On(at', u, "get_id", d) <=> On(at, u, "get_id", d))
    BY <1>4, <1>5 DEF On
  <2>4. \A d \in Connections : d # c => (d \in Front(conn', at') <=> d \in Front(conn, at))
    BY <1>6, <2>3 DEF Front
  <2>5. QED
    BY <2>1, <2>2, <2>4 DEF Front
<1>8. QED
  BY <1>1, <1>2, <1>3, <1>6, <1>7 DEF Chain

(* The connection is attached, and More goes on with the chain. *)
LEMMA ConfirmAttachChain ==
  ASSUME ChainInv, NEW t \in IoThreads, NEW c \in Connections, ConfirmAttach(t, c)
  PROVE  Chain(acceptor', conn', at', stray')
<1>1. /\ Waits(t, "get_id", c) /\ acceptor' = [acceptor EXCEPT !.lock = None]
      /\ at' = [at EXCEPT ![t] = Idle] /\ stray' = stray
      /\ More(acceptor, conn, held', at')
  BY DEF ConfirmAttach
<1>2. IInv /\ conn \in [Connections -> ConnState] /\ acceptor.status \in BOOLEAN
      /\ at \in [IoThreads -> {Idle} \cup [place : Places, conn : Connections]]
      /\ Chain(acceptor, conn, at, stray)
  BY DEF ChainInv, IInv, Good, GoodPlaces
<1>3. /\ acceptor'.status = acceptor.status /\ acceptor'.open = acceptor.open
      /\ acceptor'.failed = acceptor.failed
  BY <1>1, <1>2 DEF IInv, Good, GoodPlaces
<1>4. On(at, t, "get_id", c) /\ conn[c].stage \notin Early
  BY <1>1, <1>2, AtPlace DEF GoodConn, Places, Early
<1>5. at'[t] = Idle /\ \A u \in IoThreads : u # t => at'[u] = at[u]
  BY <1>1, <1>2
<1>6. \A u \in IoThreads : ~On(at', u, "get_id", c)
  <2>1. \A u \in IoThreads : u # t => ~On(at, u, "get_id", c)
    BY <1>2, <1>4, OneInside
  <2>2. QED
    BY <1>5, <2>1 DEF On, Idle
<1>7. ~stray => Front(conn, at') = {}
  <2> SUFFICES ASSUME ~stray, NEW d \in Front(conn, at')
               PROVE  FALSE
    OBVIOUS
  <2>1. c \in Front(conn, at)
    BY <1>4 DEF Front
  <2>2. d \in Front(conn, at)
    BY <1>5 DEF Front, On, Idle
  <2>3. d = c
    BY <1>2, <2>1, <2>2 DEF Chain
  <2>4. QED
    BY <1>4, <1>6, <2>3 DEF Front, Early
<1>8. Chain(acceptor, conn', at', stray)
  BY <1>1, <1>2, <1>7, MoreChain DEF Chain
<1>9. QED
  BY <1>1, <1>3, <1>8 DEF Chain

(* A handler that ends a connection. *)
LEMMA EndsChain ==
  ASSUME ChainInv, NEW t \in IoThreads, NEW c \in Connections, EndLocked(t, c) \/ Erase(t, c)
  PROVE  Chain(acceptor', conn', at', stray')
<1>1. PICK p \in {"end", "erase"} : Waits(t, p, c)
  BY DEF EndLocked, Erase
<1>2. IInv /\ conn \in [Connections -> ConnState]
      /\ at \in [IoThreads -> {Idle} \cup [place : Places, conn : Connections]]
  BY DEF ChainInv, IInv, Good, GoodPlaces
<1>3. conn[c].stage \notin Early /\ conn[c] \in ConnState /\ On(at, t, p, c)
  BY <1>1, <1>2, Ending DEF Early, Waits, On
<1>4. /\ acceptor' = acceptor /\ stray' = stray
      /\ \A u \in IoThreads : u # t => at'[u] = at[u]
      /\ at'[t] = Idle \/ at'[t] = [place |-> "erase", conn |-> c]
  BY <1>2, <1>3 DEF EndLocked, Erase, On
<1>5. \A u \in IoThreads, d \in Connections :
        On(at', u, "get_id", d) <=> On(at, u, "get_id", d)
  BY <1>3, <1>4 DEF On, Idle
<1>6. conn'[c].stage \notin Early /\ \A d \in Connections : d # c => conn'[d] = conn[d]
  <2>1. CASE conn' = [conn EXCEPT ![c].lock = t]
    BY <1>2, <1>3, <2>1 DEF ConnState
  <2>2. CASE conn' = Closed(c)
    BY <1>2, <2>2 DEF Closed, Dead, Early
  <2>3. QED
    BY <2>1, <2>2 DEF EndLocked, Erase
<1>7. Front(conn', at') = Front(conn, at)
  BY <1>3, <1>5, <1>6 DEF Front
<1>8. QED
  BY <1>4, <1>6, <1>7, KeepsChain DEF Early

LEMMA ChainInitially == Init => ChainInv
<1> SUFFICES ASSUME Init PROVE ChainInv
  OBVIOUS
<1>1. Front(conn, at) = {} /\ \A c \in Connections : conn[c].stage = "closed"
  BY DEF Init, Front, Early, Dead, On, Idle
<1>2. QED
  BY <1>1, Initially DEF Init, ChainInv, Chain

LEMMA ChainStepwise ==
  ASSUME ChainInv, [Next]_vars
  PROVE  ChainInv'
<1>1. IInv'
  BY Stepwise DEF ChainInv
<1>2. CASE Start \/ Close \/ Stop \/ \E c \in Connections : Canceled(c)
  BY <1>1, <1>2, CallsChain DEF ChainInv
<1>3. ASSUME NEW t \in IoThreads, NEW c \in Connections, Accepted(t, c) \/ Ends(t, c)
      PROVE  ChainInv'
  BY <1>1, <1>3, TakenChain DEF ChainInv
<1>4. ASSUME NEW t \in IoThreads, HandlerNext(t)
      PROVE  ChainInv'
  <2>1. PICK c \in Connections :
          \/ ConfirmStart(t, c) \/ ConfirmAttach(t, c) \/ ConfirmRefuse(t, c)
          \/ WouldBlock(t, c) \/ Fatal(t, c) \/ EndLocked(t, c) \/ Erase(t, c)
    BY <1>4 DEF HandlerNext, With
  <2>2. Chain(acceptor', conn', at', stray')
    BY <2>1, ConfirmStartChain, ConfirmAttachChain, RefusalsChain, EndsChain
  <2>3. QED
    BY <1>1, <2>2 DEF ChainInv
<1>5. CASE UNCHANGED vars
  BY <1>1, <1>5 DEF vars, ChainInv, Chain, Front, On
<1>6. QED
  BY <1>2, <1>3, <1>4, <1>5 DEF Next

(* An open acceptor whose fatal handler was not called has one accept      *)
(* under way or in its handler, and a stopped one none, as long as no      *)
(* handler of an earlier start has run.                                    *)
THEOREM OneAcceptHolds == Spec => []OneAccept
<1>1. ASSUME ChainInv
      PROVE  OneAccept
  <2> DEFINE S == {c \in Accepting : conn[c].current} \cup
                    {c \in Connections : InHands(c, {"get_id"})}
  <2>1. S = Front(conn, at)
    BY DEF Accepting, Front, Early, InHands, Waits, On
  <2>2. ASSUME acceptor.status, acceptor.open, ~acceptor.failed, ~stray
        PROVE  Cardinality(S) = 1
    <3>1. PICK c \in S : \A d \in S : d = c
      BY <1>1, <2>1, <2>2 DEF ChainInv, Chain
    <3>2. S = {c}
      BY <3>1
    <3>3. QED
      BY <3>2, FS_Singleton
  <2>3. ~acceptor.status => \A c \in Accepting : conn[c].stage = "accepted"
    BY <1>1 DEF ChainInv, Chain, Accepting
  <2>4. QED
    BY <2>2, <2>3 DEF OneAccept
<1>2. ChainInv /\ [Next]_vars => ChainInv'
  BY ChainStepwise
<1>3. QED
  BY <1>1, <1>2, ChainInitially, PTL DEF Spec
=============================================================================
