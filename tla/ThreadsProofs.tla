--------------------------- MODULE ThreadsProofs ----------------------------
(***************************************************************************)
(* Proofs about the two classes that own worker threads.                   *)
(*                                                                         *)
(* MultiThread, for any threads of the application, clients and numbers of *)
(* them.  A client that was started is in one sequence: the list, or what  *)
(* a thread in stop() still has to stop; a client that is being stopped is *)
(* the first of that, or in reconfigure() the last of the list.  Sequences *)
(* only lose ends, and get clients that are nowhere.                       *)
(*                                                                         *)
(* Server, for any threads of the application, workers and values of the   *)
(* option.  The invariant says what each phase of stop(), which has the    *)
(* mutex of mtdup, leaves for the next one to rely on, while listen() of   *)
(* another thread's start() may open the origin in any of them.            *)
(***************************************************************************)
EXTENDS MultiThread, Server, FiniteSetTheorems, TLAPS

In(s, c) == \E i \in DOMAIN s : s[i] = c

Injective(s) == \A i, j \in DOMAIN s : s[i] = s[j] => i = j

(* What a thread in stop() still has to stop, or is stopping. *)
Rest(p) == IF p.pc = "stops" THEN p.rest
           ELSE IF p.pc \in {"halts", "joins"} /\ p.next.pc = "stops"
           THEN <<p.who>> \o p.next.rest
           ELSE <<>>

(* A thread in reconfigure(), or with a block to send: it has the mutex of *)
(* multi_base.                                                             *)
HasMutex(p) == \/ p.pc \in {"shrinks", "gives"}
               \/ p.pc \in {"halts", "joins"} /\ p.next.pc = "shrinks"

Ops == UserOps \cup HandlerOps

Place(p) ==
  \/ p = Idle
  \/ p \in [pc : {"wants"}, op : Ops]
  \/ p \in [pc : {"gives"}, op : Ops, to : Clients]
  \/ p \in [pc : {"shrinks"}, to : Counts]
  \/ p \in [pc : {"stops"}, rest : Seq(Clients)]
  \/ p \in [pc : {"halts", "joins"}, who : Clients, next : [pc : {"shrinks"}, to : Counts]]
  \/ p \in [pc : {"halts", "joins"}, who : Clients, next : [pc : {"stops"}, rest : Seq(Clients)]]

Types ==
  /\ list \in Seq(Clients) /\ max \in Nat /\ current \in Nat
  /\ worker \in [Clients -> {"none", "running", "stopping", "ended"}]
  /\ at = [t \in Threads |-> at[t]] /\ \A t \in Threads : Place(at[t])
  /\ given \in [Clients -> Nat]

(* The sequences: each client is in one of them at most, and once. *)
Apart ==
  /\ Injective(list) /\ \A t \in Threads : Injective(Rest(at[t]))
  /\ \A c \in Clients, t \in Threads : ~(In(list, c) /\ In(Rest(at[t]), c))
  /\ \A c \in Clients, t, u \in Threads :
       In(Rest(at[t]), c) /\ In(Rest(at[u]), c) => t = u

(* The clients that were started are those that are in one. *)
Started == \A c \in Clients :
  worker[c] # "none" <=> In(list, c) \/ \E t \in Threads : In(Rest(at[t]), c)

(* One thread has the mutex.  reconfigure() stops the last of the list,    *)
(* and as many as there are too many.                                      *)
Shrink ==
  /\ \A t \in Threads :
       /\ mm = t <=> HasMutex(at[t])
       /\ at[t].pc = "shrinks" => at[t].to = max
       /\ at[t].pc \in {"halts", "joins"} /\ at[t].next.pc = "shrinks" =>
            /\ at[t].next.to = max /\ Len(list) > max
            /\ at[t].who = list[Len(list)]
       /\ at[t].pc = "gives" => Len(list) <= max
  /\ mm = Nobody => Len(list) <= max

(* How many turns from now a position of the list is served. *)
Ahead(i) == IF i > Turn THEN i - Turn - 1 ELSE i - Turn - 1 + Len(list)

(* The next few clients were not served yet, the others were. *)
Round == list # <<>> =>
  \E z \in 1 .. Len(list) : \A i \in 1 .. Len(list) :
    given[list[i]] = IF Ahead(i) < z THEN 0 ELSE 1

IInv == Types /\ Apart /\ Started /\ Shrink /\ Round
-----------------------------------------------------------------------------
(* Sequences of clients. *)
LEMMA AppendSeq ==
  ASSUME NEW s \in Seq(Clients), NEW u \in Seq(Clients)
  PROVE  /\ s \o u \in Seq(Clients) /\ Len(s \o u) = Len(s) + Len(u)
         /\ \A c \in Clients : In(s \o u, c) <=> In(s, c) \/ In(u, c)
         /\ Injective(s) /\ Injective(u) /\ (\A c \in Clients : ~(In(s, c) /\ In(u, c))) =>
              Injective(s \o u)
<1> DEFINE w == s \o u
<1>1. /\ w \in Seq(Clients) /\ Len(w) = Len(s) + Len(u) /\ Len(s) \in Nat /\ Len(u) \in Nat
      /\ \A i \in 1 .. Len(s) : w[i] = s[i]
      /\ \A i \in 1 .. Len(u) : w[Len(s) + i] = u[i]
  OBVIOUS
<1>2. DOMAIN s = 1 .. Len(s) /\ DOMAIN u = 1 .. Len(u) /\ DOMAIN w = 1 .. Len(w)
  BY <1>1
<1>3. /\ \A i \in 1 .. Len(s) : s[i] \in Clients
      /\ \A i \in 1 .. Len(u) : u[i] \in Clients
  OBVIOUS
<1> HIDE DEF w
<1>4. \A i \in 1 .. Len(w) : i <= Len(s) => i \in 1 .. Len(s) /\ w[i] = s[i]
  BY <1>1
<1>5. \A i \in 1 .. Len(w) : i > Len(s) => i - Len(s) \in 1 .. Len(u) /\ w[i] = u[i - Len(s)]
  <2> SUFFICES ASSUME NEW i \in 1 .. Len(w), i > Len(s)
               PROVE  i - Len(s) \in 1 .. Len(u) /\ w[i] = u[i - Len(s)]
    OBVIOUS
  <2>1. i - Len(s) \in 1 .. Len(u) /\ Len(s) + (i - Len(s)) = i
    BY <1>1
  <2>2. QED
    BY <1>1, <2>1
<1>6. ASSUME NEW c \in Clients
      PROVE  In(w, c) <=> In(s, c) \/ In(u, c)
  <2>1. ASSUME In(w, c)
        PROVE  In(s, c) \/ In(u, c)
    <3>1. PICK i \in 1 .. Len(w) : w[i] = c
      BY <1>2, <2>1 DEF In
    <3>2. CASE i <= Len(s)
      BY <1>2, <1>4, <3>1, <3>2 DEF In
    <3>3. CASE i > Len(s)
      BY <1>2, <1>5, <3>1, <3>3 DEF In
    <3>4. QED
      BY <1>1, <3>2, <3>3
  <2>2. In(s, c) => In(w, c)
    BY <1>1, <1>2 DEF In
  <2>3. ASSUME In(u, c)
        PROVE  In(w, c)
    <3>1. PICK i \in 1 .. Len(u) : u[i] = c
      BY <1>2, <2>3 DEF In
    <3>2. Len(s) + i \in 1 .. Len(w) /\ w[Len(s) + i] = c
      BY <1>1, <3>1
    <3>3. QED
      BY <1>2, <3>2 DEF In
  <2>4. QED
    BY <2>1, <2>2, <2>3
<1>7. ASSUME Injective(s), Injective(u), \A c \in Clients : ~(In(s, c) /\ In(u, c))
      PROVE  Injective(w)
  <2> SUFFICES ASSUME NEW i \in 1 .. Len(w), NEW j \in 1 .. Len(w), w[i] = w[j]
               PROVE  i = j
    BY <1>2 DEF Injective
  <2>1. CASE i <= Len(s) /\ j <= Len(s)
    BY <1>2, <1>4, <1>7, <2>1 DEF Injective
  <2>2. CASE i > Len(s) /\ j > Len(s)
    <3>1. i - Len(s) \in 1 .. Len(u) /\ j - Len(s) \in 1 .. Len(u)
          /\ u[i - Len(s)] = u[j - Len(s)]
      BY <1>5, <1>1, <2>2
    <3>2. i - Len(s) = j - Len(s)
      BY <1>2, <1>7, <3>1 DEF Injective
    <3>3. QED
      BY <1>1, <3>2
  <2>3. CASE i <= Len(s) /\ j > Len(s)
    <3>1. i \in 1 .. Len(s) /\ w[i] = s[i] /\ j - Len(s) \in 1 .. Len(u)
          /\ w[j] = u[j - Len(s)]
      BY <1>5, <1>4, <2>3
    <3>2. In(s, w[i]) /\ In(u, w[j]) /\ w[i] \in Clients
      BY <1>2, <1>3, <3>1 DEF In
    <3>3. QED
      BY <1>7, <3>2
  <2>4. CASE i > Len(s) /\ j <= Len(s)
    <3>1. j \in 1 .. Len(s) /\ w[j] = s[j] /\ i - Len(s) \in 1 .. Len(u)
          /\ w[i] = u[i - Len(s)]
      BY <1>5, <1>4, <2>4
    <3>2. In(u, w[i]) /\ In(s, w[j]) /\ w[i] \in Clients
      BY <1>2, <1>3, <3>1 DEF In
    <3>3. QED
      BY <1>7, <3>2
  <2>5. QED
    BY <1>1, <2>1, <2>2, <2>3, <2>4
<1>8. QED
  BY <1>1, <1>6, <1>7 DEF w

LEMMA FrontSeq ==
  ASSUME NEW s \in Seq(Clients), s # <<>>, Injective(s)
  PROVE  LET f == SubSeq(s, 1, Len(s) - 1) IN
         /\ f \in Seq(Clients) /\ Len(f) = Len(s) - 1 /\ Injective(f)
         /\ Len(s) \in Nat /\ Len(s) > 0 /\ s[Len(s)] \in Clients
         /\ \A c \in Clients : In(f, c) <=> In(s, c) /\ c # s[Len(s)]
         /\ In(s, s[Len(s)])
<1> DEFINE f == SubSeq(s, 1, Len(s) - 1)
<1>1. Len(s) \in Nat /\ Len(s) > 0 /\ s[Len(s)] \in Clients /\ DOMAIN s = 1 .. Len(s)
  OBVIOUS
<1>2. /\ f \in Seq(Clients) /\ Len(f) = Len(s) - 1 /\ DOMAIN f = 1 .. Len(s) - 1
      /\ \A i \in 1 .. Len(s) - 1 : f[i] = s[i]
  BY <1>1
<1> HIDE DEF f
<1>3. Injective(f)
  BY <1>1, <1>2 DEF Injective
<1>4. ASSUME NEW c \in Clients
      PROVE  In(f, c) <=> In(s, c) /\ c # s[Len(s)]
  <2>1. In(f, c) => In(s, c) /\ c # s[Len(s)]
    BY <1>1, <1>2 DEF In, Injective
  <2>2. ASSUME In(s, c), c # s[Len(s)]
        PROVE  In(f, c)
    <3>1. PICK i \in 1 .. Len(s) : s[i] = c
      BY <1>1, <2>2 DEF In
    <3>2. i \in 1 .. Len(s) - 1
      BY <1>1, <2>2, <3>1
    <3>3. QED
      BY <1>2, <3>1, <3>2 DEF In
  <2>3. QED
    BY <2>1, <2>2
<1>5. In(s, s[Len(s)])
  BY <1>1 DEF In
<1>6. QED
  BY <1>1, <1>2, <1>3, <1>4, <1>5 DEF f

LEMMA HeadSeq ==
  ASSUME NEW s \in Seq(Clients), s # <<>>
  PROVE  /\ Head(s) \in Clients /\ Tail(s) \in Seq(Clients) /\ <<Head(s)>> \o Tail(s) = s
         /\ In(s, Head(s))
<1>1. Len(s) \in Nat /\ Len(s) > 0 /\ DOMAIN s = 1 .. Len(s) /\ Head(s) = s[1]
  OBVIOUS
<1>2. Head(s) \in Clients /\ Tail(s) \in Seq(Clients)
  OBVIOUS
<1>3. <<Head(s)>> \o Tail(s) = s
  OBVIOUS
<1>4. QED
  BY <1>1, <1>2, <1>3 DEF In

(* Without its first, a sequence has the others. *)
LEMMA TailSeq ==
  ASSUME NEW c \in Clients, NEW s \in Seq(Clients), Injective(<<c>> \o s)
  PROVE  /\ Injective(s) /\ In(<<c>> \o s, c)
         /\ \A d \in Clients : In(s, d) <=> In(<<c>> \o s, d) /\ d # c
<1> DEFINE w == <<c>> \o s
<1>1. /\ Len(s) \in Nat /\ DOMAIN s = 1 .. Len(s) /\ DOMAIN w = 1 .. Len(s) + 1 /\ w[1] = c
      /\ \A i \in 1 .. Len(s) : w[i + 1] = s[i]
  OBVIOUS
<1> HIDE DEF w
<1>2. \A i, j \in 1 .. Len(s) + 1 : w[i] = w[j] => i = j
  BY <1>1 DEF Injective, w
<1>3. \A i, j \in 1 .. Len(s) : s[i] = s[j] => i = j
  <2> SUFFICES ASSUME NEW i \in 1 .. Len(s), NEW j \in 1 .. Len(s), s[i] = s[j]
               PROVE  i = j
    OBVIOUS
  <2>1. w[i + 1] = w[j + 1] /\ i + 1 \in 1 .. Len(s) + 1 /\ j + 1 \in 1 .. Len(s) + 1
    BY <1>1
  <2>2. i + 1 = j + 1
    BY <1>2, <2>1
  <2>3. QED
    BY <2>2
<1>4. In(w, c)
  BY <1>1 DEF In
<1>5. ASSUME NEW d \in Clients
      PROVE  In(s, d) <=> In(w, d) /\ d # c
  <2>1. ASSUME In(s, d)
        PROVE  In(w, d) /\ d # c
    <3>1. PICK i \in 1 .. Len(s) : s[i] = d
      BY <1>1, <2>1 DEF In
    <3>2. i + 1 \in 1 .. Len(s) + 1 /\ w[i + 1] = d /\ 1 \in 1 .. Len(s) + 1 /\ i + 1 # 1
      BY <1>1, <3>1
    <3>3. d # c
      BY <1>1, <1>2, <3>2
    <3>4. QED
      BY <1>1, <3>2, <3>3 DEF In
  <2>2. ASSUME In(w, d), d # c
        PROVE  In(s, d)
    <3>1. PICK i \in 1 .. Len(s) + 1 : w[i] = d
      BY <1>1, <2>2 DEF In
    <3>2. i # 1
      BY <1>1, <2>2, <3>1
    <3>3. i - 1 \in 1 .. Len(s) /\ (i - 1) + 1 = i
      BY <1>1, <3>2
    <3>4. s[i - 1] = d
      BY <1>1, <3>1, <3>3
    <3>5. QED
      BY <1>1, <3>3, <3>4 DEF In
  <2>3. QED
    BY <2>1, <2>2
<1>6. QED
  BY <1>1, <1>3, <1>4, <1>5 DEF Injective, w

-----------------------------------------------------------------------------
(* Where a thread can be, and what is known of it there. *)
LEMMA Fields ==
  ASSUME NEW p, Place(p)
  PROVE  /\ p.pc \in {"idle", "wants", "gives", "shrinks", "stops", "halts", "joins"}
         /\ p.pc = "idle" => p = Idle
         /\ p.pc = "wants" => p.op \in Ops
         /\ p.pc = "shrinks" => p = Shrinks(p.to) /\ p.to \in Counts
         /\ p.pc = "stops" => p = Stops(p.rest) /\ p.rest \in Seq(Clients)
         /\ p.pc \in {"halts", "joins"} =>
              /\ p.who \in Clients /\ p.next.pc \in {"shrinks", "stops"}
              /\ p.next.pc = "shrinks" => p.next = Shrinks(p.next.to) /\ p.next.to \in Counts
              /\ p.next.pc = "stops" =>
                   p.next = Stops(p.next.rest) /\ p.next.rest \in Seq(Clients)
<1>1. CASE p = Idle
  BY <1>1 DEF Idle
<1>2. CASE p \in [pc : {"wants"}, op : Ops]
  BY <1>2
<1>3. CASE p \in [pc : {"shrinks"}, to : Counts]
  BY <1>3 DEF Shrinks
<1>4. CASE p \in [pc : {"stops"}, rest : Seq(Clients)]
  BY <1>4 DEF Stops
<1>5. CASE p \in [pc : {"halts", "joins"}, who : Clients, next : [pc : {"shrinks"}, to : Counts]]
  BY <1>5 DEF Shrinks
<1>6. CASE p \in [pc : {"halts", "joins"}, who : Clients,
                  next : [pc : {"stops"}, rest : Seq(Clients)]]
  BY <1>6 DEF Stops
<1>7. CASE p \in [pc : {"gives"}, op : Ops, to : Clients]
  BY <1>7
<1>8. QED
  BY <1>1, <1>2, <1>3, <1>4, <1>5, <1>6, <1>7 DEF Place

(* The places. *)
LEMMA Places ==
  /\ Place(Idle) /\ Rest(Idle) = <<>> /\ ~HasMutex(Idle)
  /\ \A op \in Ops : Place(Wants(op)) /\ Rest(Wants(op)) = <<>> /\ ~HasMutex(Wants(op))
  /\ \A op \in Ops, c \in Clients :
       Place(Gives(op, c)) /\ Rest(Gives(op, c)) = <<>> /\ Gives(op, c).pc = "gives"
  /\ \A n \in Counts : /\ Place(Shrinks(n)) /\ Rest(Shrinks(n)) = <<>>
                       /\ HasMutex(Shrinks(n)) /\ Shrinks(n).pc = "shrinks"
                       /\ Shrinks(n).to = n
  /\ \A s \in Seq(Clients) : Place(Stops(s)) /\ Rest(Stops(s)) = s /\ ~HasMutex(Stops(s))
<1>1. Place(Idle) /\ Rest(Idle) = <<>> /\ ~HasMutex(Idle)
  BY DEF Place, Rest, HasMutex, Idle
<1>2. ASSUME NEW op \in Ops
      PROVE  Place(Wants(op)) /\ Rest(Wants(op)) = <<>> /\ ~HasMutex(Wants(op))
  BY DEF Place, Rest, HasMutex, Wants
<1>3. ASSUME NEW n \in Counts
      PROVE  /\ Place(Shrinks(n)) /\ Rest(Shrinks(n)) = <<>>
             /\ HasMutex(Shrinks(n)) /\ Shrinks(n).pc = "shrinks" /\ Shrinks(n).to = n
  BY DEF Place, Rest, HasMutex, Shrinks
<1>4. ASSUME NEW s \in Seq(Clients)
      PROVE  Place(Stops(s)) /\ Rest(Stops(s)) = s /\ ~HasMutex(Stops(s))
  BY DEF Place, Rest, HasMutex, Stops
<1>5. ASSUME NEW op \in Ops, NEW c \in Clients
      PROVE  Place(Gives(op, c)) /\ Rest(Gives(op, c)) = <<>> /\ Gives(op, c).pc = "gives"
  BY DEF Place, Rest, Gives
<1>6. QED
  BY <1>1, <1>2, <1>3, <1>4, <1>5

(* The places in the stop() of a client's thread. *)
LEMMA HaltPlaces ==
  ASSUME NEW c \in Clients, NEW p
  PROVE  /\ \A n \in Counts : p \in {Halts(c, Shrinks(n)), Joins(c, Shrinks(n))} =>
              /\ Place(p) /\ Rest(p) = <<>> /\ HasMutex(p) /\ p.pc \in {"halts", "joins"}
              /\ p.next.pc = "shrinks" /\ p.who = c /\ p.next.to = n
         /\ \A s \in Seq(Clients) : p \in {Halts(c, Stops(s)), Joins(c, Stops(s))} =>
              Place(p) /\ Rest(p) = <<c>> \o s /\ ~HasMutex(p)
<1>1. ASSUME NEW n \in Counts, p \in {Halts(c, Shrinks(n)), Joins(c, Shrinks(n))}
      PROVE  /\ Place(p) /\ Rest(p) = <<>> /\ HasMutex(p) /\ p.pc \in {"halts", "joins"}
             /\ p.next.pc = "shrinks" /\ p.who = c /\ p.next.to = n
  BY <1>1 DEF Place, Rest, HasMutex, Halts, Joins, Shrinks
<1>2. ASSUME NEW s \in Seq(Clients), p \in {Halts(c, Stops(s)), Joins(c, Stops(s))}
      PROVE  Place(p) /\ Rest(p) = <<c>> \o s /\ ~HasMutex(p)
  BY <1>2 DEF Place, Rest, HasMutex, Halts, Joins, Stops
<1>3. QED
  BY <1>1, <1>2

LEMMA Goes ==
  ASSUME Types, NEW t \in Threads, NEW p, Place(p), Go(t, p)
  PROVE  /\ at' = [u \in Threads |-> at'[u]] /\ \A u \in Threads : Place(at'[u])
         /\ at'[t] = p /\ \A u \in Threads : u # t => at'[u] = at[u]
<1>1. at'[t] = p /\ \A u \in Threads : u # t => at'[u] = at[u]
  BY DEF Go, Types
<1>2. at' = [u \in Threads |-> at'[u]]
  BY DEF Go, Types
<1>3. QED
  BY <1>1, <1>2 DEF Types

(* A step that moves no client from a sequence to another. *)
LEMMA SameSequences ==
  ASSUME Apart, Started, list' = list, \A t \in Threads : Rest(at'[t]) = Rest(at[t]),
         \A c \in Clients : worker'[c] = "none" <=> worker[c] = "none"
  PROVE  Apart' /\ Started'
<1>1. Apart'
  BY DEF Apart
<1>2. Started'
  BY DEF Started
<1>3. QED
  BY <1>1, <1>2

(* A step without the mutex of multi_base. *)
LEMMA SameShrink ==
  ASSUME Shrink, UNCHANGED <<list, max, mm>>, NEW t \in Threads,
         ~HasMutex(at[t]), ~HasMutex(at'[t]),
         \A u \in Threads : u # t => at'[u] = at[u]
  PROVE  Shrink'
BY DEF Shrink, HasMutex

(* With the mutex of multi_base free nobody has it. *)
LEMMA FreeMutex ==
  ASSUME Shrink, mm = Nobody
  PROVE  \A t \in Threads : ~HasMutex(at[t])
BY MultiThreadBounds DEF Shrink, Threads

(* The list and its bound change while the mutex is free; the one who does *)
(* it may keep it, to send.                                                *)
LEMMA FreeShrink ==
  ASSUME Shrink, mm = Nobody, NEW t \in Threads,
         \/ mm' = Nobody /\ ~HasMutex(at'[t])
         \/ mm' = t /\ at'[t].pc = "gives",
         \A u \in Threads : u # t => at'[u] = at[u],
         Len(list') <= max'
  PROVE  Shrink'
<1>1. \A u \in Threads : u # t => ~HasMutex(at'[u])
  BY FreeMutex
<1>2. \A u \in Threads : Nobody # u
  BY MultiThreadBounds DEF Threads
<1>3. \A u \in Threads : mm' = u <=> HasMutex(at'[u])
  BY <1>1, <1>2 DEF HasMutex
<1>4. ASSUME NEW u \in Threads
      PROVE  at'[u].pc # "shrinks" /\ ~(at'[u].pc \in {"halts", "joins"} /\ at'[u].next.pc = "shrinks")
  BY <1>1 DEF HasMutex
<1>5. QED
  BY <1>3, <1>4 DEF Shrink

(* The one with the mutex lets go of it. *)
LEMMA Released ==
  ASSUME Shrink, NEW t \in Threads, HasMutex(at[t]), ~HasMutex(at'[t]), mm' = Nobody,
         \A u \in Threads : u # t => at'[u] = at[u],
         Len(list') <= max'
  PROVE  Shrink'
<1>1. \A u \in Threads : ~HasMutex(at'[u])
  BY DEF Shrink
<1>2. \A u \in Threads : mm' # u
  BY MultiThreadBounds DEF Threads
<1>3. QED
  BY <1>1, <1>2 DEF Shrink, HasMutex

LEMMA SameRound ==
  ASSUME Round, UNCHANGED <<list, current, given>>
  PROVE  Round'
BY DEF Round, Ahead, Turn

(* Where the turn is, and how far ahead a position can be. *)
LEMMA Turns ==
  ASSUME list \in Seq(Clients), current \in Nat, list # <<>>
  PROVE  /\ Len(list) \in Nat /\ Len(list) > 0 /\ Turn \in 0 .. Len(list) - 1
         /\ \A i \in 1 .. Len(list) : Ahead(i) \in 0 .. Len(list) - 1
<1>1. Len(list) \in Nat /\ Len(list) > 0
  OBVIOUS
<1>2. Turn \in 0 .. Len(list) - 1
  BY <1>1 DEF Turn
<1>3. QED
  BY <1>1, <1>2 DEF Ahead

(* The count starts anew with the list: nobody was served. *)
LEMMA FreshRound ==
  ASSUME list' \in Seq(Clients), current' \in Nat, Counted
  PROVE  Round' /\ given' \in [Clients -> Nat]
<1>1. given' \in [Clients -> Nat]
  BY DEF Counted
<1>2. ASSUME list' # <<>>
      PROVE  \E z \in 1 .. Len(list') : \A i \in 1 .. Len(list') :
               given'[list'[i]] = IF Ahead(i)' < z THEN 0 ELSE 1
  <2>1. /\ Len(list') \in Nat /\ Len(list') > 0 /\ Turn' \in 0 .. Len(list') - 1
    <3>1. Len(list') \in Nat /\ Len(list') > 0
      BY <1>2
    <3>2. QED
      BY <3>1 DEF Turn
  <2>2. \A i \in 1 .. Len(list') : Ahead(i)' \in 0 .. Len(list') - 1
    <3>1. \A i \in 1 .. Len(list') :
            Ahead(i)' = IF i > Turn' THEN i - Turn' - 1 ELSE i - Turn' - 1 + Len(list')
      BY DEF Ahead
    <3>2. QED
      BY <2>1, <3>1
  <2>3. \A i \in 1 .. Len(list') : given'[list'[i]] = 0
    BY DEF Counted
  <2>4. \A i \in 1 .. Len(list') :
          given'[list'[i]] = IF Ahead(i)' < Len(list') THEN 0 ELSE 1
    BY <2>1, <2>2, <2>3
  <2>5. QED
    BY <2>1, <2>4
<1>3. QED
  BY <1>1, <1>2 DEF Round

(* A block for the next client in turn. *)
LEMMA NextRound ==
  ASSUME Types, Injective(list), Round, list # <<>>, list' = list, current' = Turn + 1,
         given' = Levelled([given EXCEPT ![list[Turn + 1]] = @ + 1])
  PROVE  Round' /\ given' \in [Clients -> Nat] /\ current' \in Nat
<1> DEFINE L == Len(list)
           p == Turn + 1
           g == [given EXCEPT ![list[p]] = @ + 1]
<1>1. /\ L \in Nat /\ L > 0 /\ Turn \in 0 .. L - 1 /\ p \in 1 .. L
      /\ \A i \in 1 .. L : Ahead(i) \in 0 .. L - 1
  BY Turns DEF Types
<1>2. \A i \in 1 .. L : list[i] \in Clients
  BY DEF Types
<1>3. DOMAIN list = 1 .. L
  BY DEF Types
<1>4. \A i, j \in 1 .. L : list[i] = list[j] => i = j
  BY <1>3 DEF Injective
<1>5. PICK z \in 1 .. L : \A i \in 1 .. L :
        given[list[i]] = IF Ahead(i) < z THEN 0 ELSE 1
  BY DEF Round
<1>6. Ahead(p) = 0 /\ \A i \in 1 .. L : Ahead(i) = 0 => i = p
  BY <1>1 DEF Ahead
<1>7. \A i \in 1 .. L : Ahead(i)' = IF i = p THEN L - 1 ELSE Ahead(i) - 1
  <2> SUFFICES ASSUME NEW i \in 1 .. L
               PROVE  Ahead(i)' = IF i = p THEN L - 1 ELSE Ahead(i) - 1
    OBVIOUS
  <2> DEFINE later == current'
  <2>0. Turn' = IF later >= L THEN 0 ELSE later
    BY DEF Turn
  <2>9. later = p
    OBVIOUS
  <2> HIDE DEF later
  <2>1. CASE p < L
    <3>1. Turn' = p
      BY <1>1, <2>0, <2>1, <2>9
    <3>2. Ahead(i)' = IF i > p THEN i - p - 1 ELSE i - p - 1 + L
      BY <3>1 DEF Ahead
    <3>3. QED
      BY <1>1, <3>2 DEF Ahead
  <2>2. CASE p = L
    <3>1. Turn' = 0
      BY <1>1, <2>0, <2>2, <2>9
    <3>2. Ahead(i)' = IF i > 0 THEN i - 0 - 1 ELSE i - 0 - 1 + L
      BY <3>1 DEF Ahead
    <3>3. QED
      BY <1>1, <2>2, <3>2 DEF Ahead
  <2>3. QED
    BY <1>1, <2>1, <2>2
<1>8. /\ g \in [Clients -> Nat] /\ g[list[p]] = given[list[p]] + 1
      /\ \A i \in 1 .. L : i # p => g[list[i]] = given[list[i]]
  <2>1. given \in [Clients -> Nat] /\ list[p] \in Clients
    BY <1>1, <1>2 DEF Types
  <2>2. \A i \in 1 .. L : i # p => list[i] # list[p]
    BY <1>1, <1>4
  <2>3. QED
    BY <1>1, <1>2, <2>1, <2>2
<1>9. \A i \in 1 .. L :
        g[list[i]] = IF i # p /\ Ahead(i) < z THEN 0 ELSE 1
  BY <1>1, <1>5, <1>6, <1>8
<1>10. Members = {list[i] : i \in 1 .. L}
  BY <1>3 DEF Members
<1> DEFINE later == given'
<1>11. later = Levelled(g) /\ current' \in Nat
  BY <1>1
<1> HIDE DEF g, later
<1>12. CASE z = 1
  <2>1. \A i \in 1 .. L : g[list[i]] = 1
    BY <1>1, <1>6, <1>9, <1>12
  <2>2. later = [c \in Clients |-> IF c \in Members THEN g[c] - 1 ELSE 0]
    <3>1. \A c \in Members : g[c] > 0
      BY <1>10, <2>1
    <3>2. QED
      BY <1>11, <3>1 DEF Levelled
  <2>3. \A i \in 1 .. L : later[list[i]] = 0
    BY <1>2, <1>10, <2>1, <2>2
  <2>4. \A c \in Clients : later[c] = 0
    BY <1>10, <2>1, <2>2
  <2>5. later \in [Clients -> Nat]
    BY <2>2, <2>4
  <2>6. \A i \in 1 .. L : later[list'[i]] = IF Ahead(i)' < L THEN 0 ELSE 1
    BY <1>1, <1>7, <2>3
  <2>7. Round'
    <3>1. L \in 1 .. L
      BY <1>1
    <3>2. QED
      BY <2>6, <3>1 DEF Round, later
  <2>8. QED
    BY <1>11, <2>5, <2>7 DEF later
<1>13. CASE z > 1
  <2>1. PICK i \in 1 .. L : Ahead(i) = 1
    <3>1. CASE p < L
      <4>1. p + 1 \in 1 .. L /\ Ahead(p + 1) = 1
        BY <1>1, <3>1 DEF Ahead
      <4>2. QED
        BY <4>1
    <3>2. CASE p = L
      <4>1. 1 \in 1 .. L /\ Ahead(1) = 1
        BY <1>1, <1>5, <1>13, <3>2 DEF Ahead
      <4>2. QED
        BY <4>1
    <3>3. QED
      BY <1>1, <3>1, <3>2
  <2>2. g[list[i]] = 0 /\ list[i] \in Members
    BY <1>6, <1>9, <1>10, <1>13, <2>1
  <2>3. later = g
    BY <1>11, <2>2 DEF Levelled
  <2>4. z - 1 \in 1 .. L
    BY <1>1, <1>13
  <2>5. \A j \in 1 .. L : later[list'[j]] = IF Ahead(j)' < z - 1 THEN 0 ELSE 1
    <3> SUFFICES ASSUME NEW j \in 1 .. L
                 PROVE  g[list[j]] = IF Ahead(j)' < z - 1 THEN 0 ELSE 1
      BY <2>3
    <3>1. CASE j = p
      <4>1. Ahead(j)' = L - 1
        BY <1>7, <3>1
      <4>2. g[list[j]] = 1
        BY <1>9, <3>1
      <4>3. QED
        BY <1>1, <2>4, <4>1, <4>2
    <3>2. CASE j # p
      <4>1. Ahead(j)' = Ahead(j) - 1
        BY <1>7, <3>2
      <4>2. g[list[j]] = IF Ahead(j) < z THEN 0 ELSE 1
        BY <1>9, <3>2
      <4>3. QED
        BY <1>1, <2>4, <4>1, <4>2
    <3>3. QED
      BY <3>1, <3>2
  <2>6. Round'
    BY <1>1, <2>4, <2>5 DEF Round, later
  <2>7. QED
    BY <1>8, <1>11, <2>3, <2>6 DEF later
<1>14. z = 1 \/ z > 1
  BY <1>1
<1>15. QED
  BY <1>12, <1>13, <1>14

(* Clients that nobody has are created and started. *)
LEMMA Grows ==
  ASSUME Types, Apart, Started, NEW n \in Nat, NEW new \in News(n), Grown(new),
         \A t \in Threads : Place(at'[t]) /\ Rest(at'[t]) = Rest(at[t])
  PROVE  /\ list' \in Seq(Clients) /\ Len(list') = Len(list) + n
         /\ worker' \in [Clients -> {"none", "running", "stopping", "ended"}]
         /\ Apart' /\ Started'
<1>1. /\ new \in [1 .. n -> Clients] /\ \A i \in 1 .. n : worker[new[i]] = "none"
      /\ \A i, j \in 1 .. n : new[i] = new[j] => i = j
  BY DEF News, Fresh
<1>2. new \in Seq(Clients) /\ Len(new) = n /\ DOMAIN new = 1 .. n
  BY <1>1
<1>3. Injective(new)
  BY <1>1, <1>2 DEF Injective
<1>4. \A c \in Clients : In(new, c) => worker[c] = "none"
  BY <1>1, <1>2 DEF In
<1>5. \A c \in Clients : In(new, c) =>
        ~In(list, c) /\ \A t \in Threads : ~In(Rest(at[t]), c)
  BY <1>4 DEF Started
<1>6. list' = list \o new /\ list \in Seq(Clients) /\ Injective(list)
  BY DEF Grown, Types, Apart
<1>7. /\ list' \in Seq(Clients) /\ Len(list') = Len(list) + n
      /\ \A c \in Clients : In(list', c) <=> In(list, c) \/ In(new, c)
      /\ Injective(list')
  BY <1>2, <1>3, <1>5, <1>6, AppendSeq
<1>8. \A c \in Clients : worker'[c] = IF In(new, c) THEN "running" ELSE worker[c]
  BY DEF Grown, In
<1>9. worker' \in [Clients -> {"none", "running", "stopping", "ended"}]
  BY DEF Grown, Types
<1>10. Apart'
  BY <1>5, <1>7 DEF Apart
<1>11. Started'
  BY <1>7, <1>8 DEF Started
<1>12. QED
  BY <1>7, <1>9, <1>10, <1>11
-----------------------------------------------------------------------------
LEMMA Initially == Init => IInv
<1> SUFFICES ASSUME Init
             PROVE  IInv
  OBVIOUS
<1>1. \A t \in Threads : at[t] = Idle
  BY DEF Init
<1>2. Types
  <2>1. \A t \in Threads : Place(at[t])
    BY <1>1, Places
  <2>2. QED
    BY <2>1 DEF Init, Types
<1>3. \A t \in Threads : Rest(at[t]) = <<>> /\ ~HasMutex(at[t])
  BY <1>1, Places
<1>4. list = <<>> /\ \A c \in Clients : ~In(<<>>, c)
  BY DEF Init, In
<1>5. Apart
  BY <1>3, <1>4 DEF Apart, Injective
<1>6. Started
  BY <1>3, <1>4 DEF Init, Started
<1>7. Shrink
  <2>1. mm = Nobody /\ Len(list) <= max
    BY DEF Init
  <2>2. \A t \in Threads : mm # t
    BY <2>1, MultiThreadBounds DEF Threads
  <2>3. QED
    BY <1>3, <2>1, <2>2 DEF Shrink, HasMutex
<1>8. Round
  BY <1>4 DEF Round
<1>9. QED
  BY <1>2, <1>5, <1>6, <1>7, <1>8 DEF IInv

(* A thread goes on, and nothing that the invariant speaks of changes.     *)
LEMMA Moves ==
  ASSUME IInv, NEW t \in Threads, NEW p, Place(p), Go(t, p), Rest(p) = Rest(at[t]),
         ~HasMutex(at[t]), ~HasMutex(p),
         UNCHANGED <<list, max, current, mm, given>>,
         worker' \in [Clients -> {"none", "running", "stopping", "ended"}],
         \A c \in Clients : worker'[c] = "none" <=> worker[c] = "none"
  PROVE  IInv'
<1>1. /\ at' = [u \in Threads |-> at'[u]] /\ \A u \in Threads : Place(at'[u])
      /\ at'[t] = p /\ \A u \in Threads : u # t => at'[u] = at[u]
  BY Goes DEF IInv
<1>2. Types'
  BY <1>1 DEF IInv, Types
<1>3. \A u \in Threads : Rest(at'[u]) = Rest(at[u])
  BY <1>1
<1>4. Apart' /\ Started'
  BY <1>3, SameSequences DEF IInv
<1>5. Shrink'
  BY <1>1, SameShrink DEF IInv
<1>6. Round'
  BY SameRound DEF IInv
<1>7. QED
  BY <1>2, <1>4, <1>5, <1>6 DEF IInv

LEMMA CallKeeps ==
  ASSUME IInv, NEW t \in Threads, NEW op \in Ops, Call(t, op)
  PROVE  IInv'
<1>1. Rest(at[t]) = <<>> /\ ~HasMutex(at[t])
  BY Places DEF Call
<1>2. Place(Wants(op)) /\ Rest(Wants(op)) = <<>> /\ ~HasMutex(Wants(op))
  BY Places
<1>3. worker' = worker /\ Types
  BY DEF Call, IInv
<1>4. QED
  BY <1>1, <1>2, <1>3, Moves DEF Call, Types

(* A thread that waits for a mutex. *)
LEMMA Waiting ==
  ASSUME Types, NEW t \in Threads, at[t].pc = "wants"
  PROVE  /\ at[t].op \in Ops
         /\ Rest(at[t]) = <<>> /\ ~HasMutex(at[t])
<1>1. at[t].op \in Ops
  BY Fields DEF Types
<1>2. QED
  BY <1>1 DEF Rest, HasMutex

(* A call with the mutex of multi_base free grows the list or takes a      *)
(* turn, and returns or keeps the mutex to send.                           *)
LEMMA Served ==
  ASSUME IInv, NEW t \in Threads, at[t].pc = "wants", mm = Nobody,
         NEW p, Place(p), Rest(p) = <<>>, Go(t, p),
         \/ mm' = Nobody /\ ~HasMutex(p)
         \/ mm' = t /\ p.pc = "gives",
         max' \in Nat,
         \/ /\ \E n \in Nat : /\ \E new \in News(n) : Grown(new)
                              /\ Len(list) + n <= max'
            /\ Counted /\ current' = current
         \/ /\ list # <<>> /\ UNCHANGED <<list, worker, max>> /\ current' = Turn + 1
            /\ given' = Levelled([given EXCEPT ![list[Turn + 1]] = @ + 1])
  PROVE  IInv'
<1>1. Rest(at[t]) = <<>> /\ ~HasMutex(at[t])
  BY Waiting DEF IInv
<1>2. /\ at' = [u \in Threads |-> at'[u]] /\ \A u \in Threads : Place(at'[u])
      /\ at'[t] = p /\ \A u \in Threads : u # t => at'[u] = at[u]
  BY Goes DEF IInv
<1>3. \A u \in Threads : Rest(at'[u]) = Rest(at[u])
  BY <1>1, <1>2
<1>4. CASE /\ \E n \in Nat : /\ \E new \in News(n) : Grown(new)
                             /\ Len(list) + n <= max'
           /\ Counted /\ current' = current
  <2>1. PICK n \in Nat : (\E new \in News(n) : Grown(new)) /\ Len(list) + n <= max'
    BY <1>4
  <2>2. PICK new \in News(n) : Grown(new)
    BY <2>1
  <2>3. /\ list' \in Seq(Clients) /\ Len(list') = Len(list) + n
        /\ worker' \in [Clients -> {"none", "running", "stopping", "ended"}]
        /\ Apart' /\ Started'
    BY <1>2, <1>3, <2>2, Grows DEF IInv
  <2>4. Round' /\ given' \in [Clients -> Nat]
    BY <1>4, <2>3, FreshRound DEF IInv, Types
  <2>5. Shrink'
    BY <1>2, <2>1, <2>3, FreeShrink DEF IInv
  <2>6. Types'
    BY <1>2, <1>4, <2>3, <2>4 DEF IInv, Types
  <2>7. QED
    BY <2>3, <2>4, <2>5, <2>6 DEF IInv
<1>5. CASE /\ list # <<>> /\ UNCHANGED <<list, worker, max>> /\ current' = Turn + 1
           /\ given' = Levelled([given EXCEPT ![list[Turn + 1]] = @ + 1])
  <2>1. Apart' /\ Started'
    BY <1>3, <1>5, SameSequences DEF IInv
  <2>2. Round' /\ given' \in [Clients -> Nat] /\ current' \in Nat
    BY <1>5, NextRound DEF IInv, Apart
  <2>3. Len(list') <= max'
    BY <1>5 DEF IInv, Shrink
  <2>4. Shrink'
    BY <1>2, <2>3, FreeShrink DEF IInv
  <2>5. Types'
    BY <1>2, <1>5, <2>2 DEF IInv, Types
  <2>6. QED
    BY <2>1, <2>2, <2>4, <2>5 DEF IInv
<1>6. QED
  BY <1>4, <1>5

LEMMA StartKeeps ==
  ASSUME IInv, NEW t \in Threads, Start(t)
  PROVE  IInv'
<1>1. at[t].pc = "wants" /\ at[t].op.op = "start" /\ mm = Nobody /\ Go(t, Idle)
  BY DEF Start, Has
<1>2. CASE list # <<>>
  <2>1. Rest(at[t]) = <<>> /\ ~HasMutex(at[t])
    BY <1>1, Waiting DEF IInv
  <2>2. UNCHANGED <<list, max, current, mm, worker, given>>
    BY <1>2 DEF Start
  <2>3. QED
    BY <1>1, <2>1, <2>2, Moves, Places DEF IInv, Types
<1>3. CASE list = <<>>
  <2>1. at[t].op \in Ops
    BY <1>1, Waiting DEF IInv
  <2>2. at[t].op.n \in Nat
    BY <1>1, <2>1, MultiThreadBounds DEF Ops, UserOps, HandlerOps, Counts
  <2>3. PICK new \in News(at[t].op.n) : Grown(new) /\ max' = at[t].op.n /\ Counted
    BY <1>3 DEF Start
  <2>4. Len(list) + at[t].op.n <= max' /\ max' \in Nat
    BY <1>3, <2>2, <2>3
  <2>5. current' = current /\ mm' = Nobody
    BY <1>1 DEF Start
  <2>6. QED
    BY <1>1, <2>2, <2>3, <2>4, <2>5, Places, Served
<1>4. QED
  BY <1>2, <1>3

LEMMA GiveNextKeeps ==
  ASSUME IInv, NEW t \in Threads, at[t].pc = "wants", mm = Nobody, GiveNext(t),
         UNCHANGED <<list, max, tm, worker>>
  PROVE  IInv'
<1>1. CASE list = <<>>
  <2>1. Go(t, Idle) /\ UNCHANGED <<current, mm, given>>
    BY <1>1 DEF GiveNext
  <2>2. Rest(at[t]) = <<>> /\ ~HasMutex(at[t])
    BY Waiting DEF IInv
  <2>3. QED
    BY <2>1, <2>2, Moves, Places DEF IInv, Types
<1>2. CASE list # <<>>
  <2> DEFINE c == list[Turn + 1]
             p == Gives(at[t].op, c)
  <2>1. /\ Go(t, p) /\ mm' = t /\ current' = Turn + 1
        /\ given' = Levelled([given EXCEPT ![c] = @ + 1])
    BY <1>2 DEF GiveNext
  <2>2. c \in Clients
    <3>1. Turn + 1 \in 1 .. Len(list) /\ list \in Seq(Clients)
      BY <1>2, Turns DEF IInv, Types
    <3>2. QED
      BY <3>1
  <2>3. at[t].op \in Ops
    BY Waiting DEF IInv
  <2>4. max' \in Nat
    BY DEF IInv, Types
  <2> HIDE DEF c
  <2>5. Place(p) /\ Rest(p) = <<>> /\ p.pc = "gives"
    BY <2>2, <2>3, Places
  <2> HIDE DEF p
  <2>6. QED
    BY <1>2, <2>1, <2>4, <2>5, Served DEF c
<1>3. QED
  BY <1>1, <1>2

LEMMA SendKeeps ==
  ASSUME IInv, NEW t \in Threads, Send(t)
  PROVE  IInv'
BY GiveNextKeeps DEF Send, Has

LEMMA SendOptKeeps ==
  ASSUME IInv, NEW t \in Threads, SendOpt(t)
  PROVE  IInv'
<1>1. at[t].pc = "wants" /\ mm = Nobody /\ max' = max /\ tm' = tm
  BY DEF SendOpt, Has
<1>2. max \in Nat /\ list \in Seq(Clients)
  BY DEF IInv, Types
<1>3. CASE Len(list) < max
  <2>1. PICK new \in News(1) : /\ Grown(new) /\ Counted /\ mm' = t
                               /\ Go(t, Gives(at[t].op, new[1])) /\ current' = current
    BY <1>3 DEF SendOpt
  <2> DEFINE p == Gives(at[t].op, new[1])
  <2>2. new[1] \in Clients /\ at[t].op \in Ops
    BY <1>1, Waiting DEF News, Fresh, IInv
  <2>3. Place(p) /\ Rest(p) = <<>> /\ p.pc = "gives"
    BY <2>2, Places
  <2>4. Len(list) + 1 <= max' /\ 1 \in Nat /\ max' \in Nat
    <3>1. Len(list) \in Nat
      BY <1>2
    <3>2. QED
      BY <1>1, <1>2, <1>3, <3>1
  <2> HIDE DEF p
  <2>5. \E n \in Nat : /\ \E s \in News(n) : Grown(s)
                       /\ Len(list) + n <= max'
    BY <2>1, <2>4
  <2>6. Go(t, p)
    BY <2>1 DEF p
  <2>7. QED
    BY <1>1, <2>1, <2>3, <2>4, <2>5, <2>6, Served
<1>4. CASE ~(Len(list) < max)
  <2>1. GiveNext(t) /\ UNCHANGED <<list, worker>>
    BY <1>4 DEF SendOpt
  <2>2. QED
    BY <1>1, <2>1, GiveNextKeeps
<1>5. QED
  BY <1>3, <1>4

(* The block is with the client, and the mutex free. *)
LEMMA GiveKeeps ==
  ASSUME IInv, NEW t \in Threads, Give(t)
  PROVE  IInv'
<1>1. /\ at[t].pc = "gives" /\ mm' = Nobody /\ Go(t, Idle)
      /\ UNCHANGED <<list, max, current, worker, given>>
  BY DEF Give
<1>2. Rest(at[t]) = <<>> /\ HasMutex(at[t]) /\ Len(list) <= max
  BY <1>1 DEF Rest, HasMutex, IInv, Shrink
<1>3. Place(Idle) /\ Rest(Idle) = <<>> /\ ~HasMutex(Idle)
  BY Places
<1>4. /\ at' = [u \in Threads |-> at'[u]] /\ \A u \in Threads : Place(at'[u])
      /\ at'[t] = Idle /\ \A u \in Threads : u # t => at'[u] = at[u]
  BY <1>1, <1>3, Goes DEF IInv
<1>5. Types' /\ Round'
  BY <1>1, <1>4, SameRound DEF IInv, Types
<1>6. Apart' /\ Started'
  <2>1. \A u \in Threads : Rest(at'[u]) = Rest(at[u])
    BY <1>2, <1>3, <1>4
  <2>2. QED
    BY <1>1, <2>1, SameSequences DEF IInv
<1>7. Shrink'
  BY <1>1, <1>2, <1>3, <1>4, Released DEF IInv
<1>8. QED
  BY <1>5, <1>6, <1>7 DEF IInv

LEMMA ReconfigureKeeps ==
  ASSUME IInv, NEW t \in Threads, Reconfigure(t)
  PROVE  IInv'
<1> DEFINE n == at[t].op.n
<1>1. at[t].pc = "wants" /\ at[t].op.op = "reconfigure" /\ mm = Nobody /\ max' = n
  BY DEF Reconfigure, Has
<1>2. at[t].op \in Ops /\ Rest(at[t]) = <<>> /\ ~HasMutex(at[t])
  BY <1>1, Waiting DEF IInv
<1>3. n \in Counts
  BY <1>1, <1>2 DEF Ops, UserOps, HandlerOps
<1>4. n \in Nat /\ Len(list) \in Nat
  BY <1>3, MultiThreadBounds DEF Counts, IInv, Types
<1> HIDE DEF n
<1>5. CASE Len(list) > n
  <2>1. /\ mm' = t /\ Go(t, Shrinks(n))
        /\ UNCHANGED <<list, current, worker, given>>
    BY <1>5 DEF Reconfigure, n
  <2>2. /\ Place(Shrinks(n)) /\ Rest(Shrinks(n)) = <<>> /\ HasMutex(Shrinks(n))
        /\ Shrinks(n).pc = "shrinks" /\ Shrinks(n).to = n
    BY <1>3, Places
  <2>3. /\ at' = [u \in Threads |-> at'[u]] /\ \A u \in Threads : Place(at'[u])
        /\ at'[t] = Shrinks(n) /\ \A u \in Threads : u # t => at'[u] = at[u]
    BY <2>1, <2>2, Goes DEF IInv
  <2>4. \A u \in Threads : Rest(at'[u]) = Rest(at[u])
    BY <1>2, <2>2, <2>3
  <2>5. Apart' /\ Started'
    BY <2>1, <2>4, SameSequences DEF IInv
  <2>6. Shrink'
    <3>1. \A u \in Threads : u # t => ~HasMutex(at'[u])
      BY <1>1, <2>3, FreeMutex DEF IInv
    <3>2. mm' # Nobody
      BY <2>1, MultiThreadBounds DEF Threads
    <3>3. QED
      BY <1>1, <2>1, <2>2, <2>3, <3>1, <3>2 DEF Shrink, HasMutex
  <2>7. Types' /\ Round'
    BY <1>1, <1>4, <2>1, <2>3, SameRound DEF IInv, Types
  <2>8. QED
    BY <2>5, <2>6, <2>7 DEF IInv
<1>6. CASE Len(list) <= n
  <2>1. /\ \E new \in News(n - Len(list)) : Grown(new)
        /\ Go(t, Idle) /\ Counted /\ mm' = Nobody /\ current' = current
    BY <1>1, <1>4, <1>6 DEF Reconfigure, n
  <2>2. n - Len(list) \in Nat /\ Len(list) + (n - Len(list)) <= max' /\ max' \in Nat
    BY <1>1, <1>4, <1>6
  <2>3. \E m \in Nat : (\E new \in News(m) : Grown(new)) /\ Len(list) + m <= max'
    BY <2>1, <2>2
  <2>4. QED
    BY <1>1, <2>1, <2>2, <2>3, Places, Served
<1>7. QED
  BY <1>4, <1>5, <1>6

(* A client in a sequence is stopped: it stays a client that was started.  *)
LEMMA Stopped ==
  ASSUME Types, Started, NEW c \in Clients,
         In(list, c) \/ \E t \in Threads : In(Rest(at[t]), c),
         worker' = [worker EXCEPT ![c] = "stopping"]
  PROVE  /\ worker' \in [Clients -> {"none", "running", "stopping", "ended"}]
         /\ \A d \in Clients : worker'[d] = "none" <=> worker[d] = "none"
BY DEF Types, Started

LEMMA ShrinkOneKeeps ==
  ASSUME IInv, NEW t \in Threads, ShrinkOne(t)
  PROVE  IInv'
<1> DEFINE c == list[Len(list)]
           n == at[t].to
<1>1. /\ at[t].pc = "shrinks" /\ Len(list) > n /\ Go(t, Halts(c, at[t]))
      /\ UNCHANGED <<list, max, current, mm, worker, given>>
  BY DEF ShrinkOne, StopThread
<1>2. at[t] = Shrinks(n) /\ n \in Counts
  BY <1>1, Fields DEF IInv, Types
<1>3. list \in Seq(Clients) /\ Len(list) \in Nat /\ n \in Nat
  BY <1>2, MultiThreadBounds DEF IInv, Types, Counts
<1>4. c \in Clients
  BY <1>1, <1>3
<1>5. Rest(at[t]) = <<>> /\ HasMutex(at[t])
  BY <1>2, Places
<1> HIDE DEF c, n
<1> DEFINE p == Halts(c, Shrinks(n))
<1>6. /\ Place(p) /\ Rest(p) = <<>> /\ HasMutex(p)
      /\ p.pc = "halts" /\ p.next.pc = "shrinks" /\ p.who = c /\ p.next.to = n
  <2>1. p.pc = "halts" /\ p \in {Halts(c, Shrinks(n)), Joins(c, Shrinks(n))}
    BY DEF Halts
  <2> HIDE DEF p
  <2>2. QED
    BY <1>2, <1>4, <2>1, HaltPlaces
<1>7. Go(t, p)
  BY <1>1, <1>2
<1> HIDE DEF p
<1>8. /\ at' = [u \in Threads |-> at'[u]] /\ \A u \in Threads : Place(at'[u])
      /\ at'[t] = p /\ \A u \in Threads : u # t => at'[u] = at[u]
  BY <1>6, <1>7, Goes DEF IInv
<1>9. Types' /\ Round'
  BY <1>1, <1>8, SameRound DEF IInv, Types
<1>10. \A u \in Threads : Rest(at'[u]) = Rest(at[u])
  BY <1>5, <1>6, <1>8
<1>11. Apart' /\ Started'
  BY <1>1, <1>10, SameSequences DEF IInv
<1>12. Shrink'
  <2>1. mm = t /\ n = max
    BY <1>1, <1>5 DEF IInv, Shrink, n
  <2>2. \A u \in Threads : mm' = u <=> HasMutex(at'[u])
    BY <1>1, <1>5, <1>6, <1>8 DEF IInv, Shrink
  <2>3. mm' # Nobody
    BY <1>1, <2>1, MultiThreadBounds DEF Threads
  <2>4. p.who = list[Len(list)] /\ Len(list) > max
    BY <1>1, <1>6, <2>1 DEF c
  <2>5. QED
    BY <1>1, <1>6, <1>8, <2>1, <2>2, <2>3, <2>4 DEF IInv, Shrink
<1>13. QED
  BY <1>9, <1>11, <1>12 DEF IInv

(* The client whose thread is stopped is in a sequence, and stays there.   *)
LEMMA HaltKeeps ==
  ASSUME IInv, NEW t \in Threads, Halt(t)
  PROVE  IInv'
<1> DEFINE c == at[t].who
           q == at[t].next
           p == Joins(c, q)
<1>1. /\ at[t].pc = "halts" /\ worker' = [worker EXCEPT ![c] = "stopping"] /\ Go(t, p)
      /\ UNCHANGED <<list, max, current, mm, given>>
  BY DEF Halt
<1>2. /\ c \in Clients /\ q.pc \in {"shrinks", "stops"}
      /\ q.pc = "shrinks" => q = Shrinks(q.to) /\ q.to \in Counts
      /\ q.pc = "stops" => q = Stops(q.rest) /\ q.rest \in Seq(Clients)
  BY <1>1, Fields DEF IInv, Types
<1>3. p.pc = "joins" /\ p.who = c /\ p.next = q
  BY DEF Joins
<1> HIDE DEF c, q, p
<1>4. Place(p)
  BY <1>2, HaltPlaces DEF p
<1>5. Rest(p) = Rest(at[t]) /\ (HasMutex(p) <=> HasMutex(at[t]))
  BY <1>1, <1>3 DEF Rest, HasMutex, c, q
<1>6. /\ at' = [u \in Threads |-> at'[u]] /\ \A u \in Threads : Place(at'[u])
      /\ at'[t] = p /\ \A u \in Threads : u # t => at'[u] = at[u]
  BY <1>1, <1>4, Goes DEF IInv
<1>7. In(list, c) \/ \E u \in Threads : In(Rest(at[u]), c)
  <2>1. CASE q.pc = "shrinks"
    <3>1. Len(list) > max /\ c = list[Len(list)] /\ list \in Seq(Clients) /\ max \in Nat
      BY <1>1, <2>1 DEF IInv, Shrink, Types, c, q
    <3>2. Len(list) \in DOMAIN list
      BY <3>1
    <3>3. QED
      BY <3>1, <3>2 DEF In
  <2>2. CASE q.pc = "stops"
    <3>1. q.rest \in Seq(Clients) /\ Rest(at[t]) = <<c>> \o q.rest
      BY <1>1, <1>2, <2>2 DEF Rest, c, q
    <3>2. 1 \in DOMAIN (<<c>> \o q.rest) /\ (<<c>> \o q.rest)[1] = c
      BY <1>2, <3>1
    <3>3. QED
      BY <3>1, <3>2 DEF In
  <2>3. QED
    BY <1>2, <2>1, <2>2
<1>8. /\ worker' \in [Clients -> {"none", "running", "stopping", "ended"}]
      /\ \A d \in Clients : worker'[d] = "none" <=> worker[d] = "none"
  BY <1>1, <1>2, <1>7, Stopped DEF IInv
<1>9. Types' /\ Round'
  BY <1>1, <1>6, <1>8, SameRound DEF IInv, Types
<1>10. \A u \in Threads : Rest(at'[u]) = Rest(at[u])
  BY <1>5, <1>6
<1>11. Apart' /\ Started'
  BY <1>1, <1>8, <1>10, SameSequences DEF IInv
<1>12. Shrink'
  <2>1. \A u \in Threads : mm' = u <=> HasMutex(at'[u])
    BY <1>1, <1>5, <1>6 DEF IInv, Shrink
  <2>2. q.pc = "shrinks" => q.to = max /\ Len(list) > max /\ c = list[Len(list)]
    BY <1>1 DEF IInv, Shrink, c, q
  <2>3. QED
    BY <1>1, <1>3, <1>6, <2>1, <2>2 DEF IInv, Shrink
<1>13. QED
  BY <1>9, <1>11, <1>12 DEF IInv

LEMMA ShrinkDoneKeeps ==
  ASSUME IInv, NEW t \in Threads, ShrinkDone(t)
  PROVE  IInv'
<1>1. /\ at[t].pc = "shrinks" /\ Len(list) <= at[t].to /\ mm' = Nobody /\ Go(t, Idle)
      /\ UNCHANGED <<list, max, current, worker, given>>
  BY DEF ShrinkDone
<1>2. Rest(at[t]) = <<>> /\ HasMutex(at[t]) /\ at[t].to = max
  BY <1>1 DEF Rest, HasMutex, IInv, Shrink
<1>3. Place(Idle) /\ Rest(Idle) = <<>> /\ ~HasMutex(Idle)
  BY Places
<1>4. /\ at' = [u \in Threads |-> at'[u]] /\ \A u \in Threads : Place(at'[u])
      /\ at'[t] = Idle /\ \A u \in Threads : u # t => at'[u] = at[u]
  BY <1>1, <1>3, Goes DEF IInv
<1>5. Types' /\ Round'
  BY <1>1, <1>4, SameRound DEF IInv, Types
<1>6. Apart' /\ Started'
  <2>1. \A u \in Threads : Rest(at'[u]) = Rest(at[u])
    BY <1>2, <1>3, <1>4
  <2>2. QED
    BY <1>1, <2>1, SameSequences DEF IInv
<1>7. Shrink'
  BY <1>1, <1>2, <1>3, <1>4, Released DEF IInv
<1>8. QED
  BY <1>5, <1>6, <1>7 DEF IInv

LEMMA StopKeeps ==
  ASSUME IInv, NEW t \in Threads, Stop(t)
  PROVE  IInv'
<1>1. /\ at[t].pc = "wants" /\ mm = Nobody /\ Go(t, Stops(list)) /\ list' = <<>>
      /\ Counted /\ UNCHANGED <<max, current, mm, worker>>
  BY DEF Stop, Has
<1>2. Rest(at[t]) = <<>> /\ ~HasMutex(at[t])
  BY <1>1, Waiting DEF IInv
<1>3. list \in Seq(Clients)
  BY DEF IInv, Types
<1>4. Place(Stops(list)) /\ Rest(Stops(list)) = list /\ ~HasMutex(Stops(list))
  BY <1>3, Places
<1>5. /\ at' = [u \in Threads |-> at'[u]] /\ \A u \in Threads : Place(at'[u])
      /\ at'[t] = Stops(list) /\ \A u \in Threads : u # t => at'[u] = at[u]
  BY <1>1, <1>4, Goes DEF IInv
<1>6. list' \in Seq(Clients)
  BY <1>1
<1>7. Round' /\ given' \in [Clients -> Nat]
  BY <1>1, <1>6, FreshRound DEF IInv, Types
<1>8. Types'
  BY <1>1, <1>5, <1>6, <1>7 DEF IInv, Types
<1>9. /\ Rest(at'[t]) = list /\ \A u \in Threads : u # t => Rest(at'[u]) = Rest(at[u])
      /\ \A c \in Clients : ~In(list', c) /\ ~In(Rest(at[t]), c)
  BY <1>1, <1>2, <1>4, <1>5 DEF In
<1>10. Apart'
  <2>1. Injective(list')
    BY <1>1 DEF Injective
  <2>2. \A u \in Threads : Injective(Rest(at'[u]))
    BY <1>9 DEF IInv, Apart
  <2>3. \A c \in Clients, u, v \in Threads :
          In(Rest(at'[u]), c) /\ In(Rest(at'[v]), c) => u = v
    BY <1>9 DEF IInv, Apart
  <2>4. QED
    BY <1>9, <2>1, <2>2, <2>3 DEF Apart
<1>11. Started'
  <2>1. \A c \in Clients :
          (In(list, c) \/ \E u \in Threads : In(Rest(at[u]), c)) <=>
          \E u \in Threads : In(Rest(at'[u]), c)
    BY <1>9
  <2>2. QED
    BY <1>1, <1>9, <2>1 DEF IInv, Started
<1>12. Shrink'
  <2>1. Len(list') <= max'
    BY <1>1 DEF IInv, Types
  <2>2. QED
    BY <1>1, <1>4, <1>5, <2>1, FreeShrink DEF IInv
<1>13. QED
  BY <1>7, <1>8, <1>10, <1>11, <1>12 DEF IInv

LEMMA StopOneKeeps ==
  ASSUME IInv, NEW t \in Threads, StopOne(t)
  PROVE  IInv'
<1> DEFINE s == at[t].rest
           c == Head(s)
           r == Tail(s)
           p == Halts(c, Stops(r))
<1>1. /\ at[t].pc = "stops" /\ s # <<>> /\ Go(t, p)
      /\ UNCHANGED <<list, max, current, mm, worker, given>>
  BY DEF StopOne, StopThread
<1>2. at[t] = Stops(s) /\ s \in Seq(Clients)
  BY <1>1, Fields DEF IInv, Types
<1>3. Rest(at[t]) = s /\ ~HasMutex(at[t])
  BY <1>2, Places
<1>4. c \in Clients /\ r \in Seq(Clients) /\ <<c>> \o r = s
  BY <1>1, <1>2, HeadSeq
<1> HIDE DEF s, c, r
<1>5. Place(p) /\ Rest(p) = <<c>> \o r /\ ~HasMutex(p)
  BY <1>4, HaltPlaces
<1> HIDE DEF p
<1>6. Rest(p) = Rest(at[t]) /\ worker' = worker /\ Types
  BY <1>1, <1>3, <1>4, <1>5 DEF IInv
<1>7. QED
  BY <1>1, <1>3, <1>5, <1>6, Moves DEF Types

LEMMA StopDoneKeeps ==
  ASSUME IInv, NEW t \in Threads, StopDone(t)
  PROVE  IInv'
<1>1. Rest(at[t]) = <<>> /\ ~HasMutex(at[t])
  <2>1. at[t] = Stops(<<>>) /\ <<>> \in Seq(Clients)
    BY DEF StopDone
  <2>2. Rest(Stops(<<>>)) = <<>> /\ ~HasMutex(Stops(<<>>))
    BY <2>1, Places
  <2>3. QED
    BY <2>1, <2>2
<1>2. worker' = worker /\ Types
  BY DEF StopDone, IInv
<1>3. QED
  BY <1>1, <1>2, Moves, Places DEF StopDone, Types

LEMMA OwnSendKeeps ==
  ASSUME IInv, NEW c \in Clients, OwnSend(c)
  PROVE  IInv'
<1>1. c \in Threads
  BY DEF Threads
<1>2. Rest(at[c]) = <<>> /\ ~HasMutex(at[c])
  BY <1>1, Waiting DEF OwnSend, IInv
<1>3. worker' = worker /\ Types
  BY DEF OwnSend, IInv
<1>4. QED
  BY <1>1, <1>2, <1>3, Moves, Places DEF OwnSend, Types

LEMMA EndsKeeps ==
  ASSUME IInv, NEW c \in Clients, Ends(c)
  PROVE  IInv'
<1>1. /\ worker' \in [Clients -> {"none", "running", "stopping", "ended"}]
      /\ \A d \in Clients : worker'[d] = "none" <=> worker[d] = "none"
  BY DEF Ends, IInv, Types
<1>2. UNCHANGED <<list, max, current, mm, at, given>>
  BY DEF Ends
<1>3. Types' /\ Round' /\ Shrink'
  BY <1>1, <1>2, SameRound DEF IInv, Types, Shrink
<1>4. Apart' /\ Started'
  BY <1>1, <1>2, SameSequences DEF IInv
<1>5. QED
  BY <1>3, <1>4 DEF IInv

(* The client at hand is in its sequence no more, and its worker is none.  *)
LEMMA JoinKeeps ==
  ASSUME IInv, NEW t \in Threads, Join(t)
  PROVE  IInv'
<1> DEFINE c == at[t].who
           p == at[t].next
<1>1. /\ at[t].pc = "joins" /\ worker' = [worker EXCEPT ![c] = "none"] /\ Go(t, p)
      /\ UNCHANGED <<max, current, mm>>
  BY DEF Join
<1>2. /\ c \in Clients /\ p.pc \in {"shrinks", "stops"}
      /\ p.pc = "shrinks" => p = Shrinks(p.to) /\ p.to \in Counts
      /\ p.pc = "stops" => p = Stops(p.rest) /\ p.rest \in Seq(Clients)
  BY <1>1, Fields DEF IInv, Types
<1>3. /\ worker' \in [Clients -> {"none", "running", "stopping", "ended"}]
      /\ worker'[c] = "none" /\ \A d \in Clients : d # c => worker'[d] = worker[d]
  BY <1>1, <1>2 DEF IInv, Types
<1>4. Place(p)
  BY <1>2, Places
<1>5. /\ at' = [u \in Threads |-> at'[u]] /\ \A u \in Threads : Place(at'[u])
      /\ at'[t] = p /\ \A u \in Threads : u # t => at'[u] = at[u]
  BY <1>1, <1>4, Goes DEF IInv
<1>6. CASE p.pc = "shrinks"
  <2> DEFINE f == SubSeq(list, 1, Len(list) - 1)
  <2>1. list' = f /\ Counted
    BY <1>6 DEF Join
  <2>2. /\ mm = t /\ p.to = max /\ Len(list) > max /\ c = list[Len(list)]
    BY <1>1, <1>6 DEF IInv, Shrink, HasMutex
  <2>3. list \in Seq(Clients) /\ list # <<>> /\ Injective(list) /\ max \in Nat
    <3>1. list \in Seq(Clients) /\ max \in Nat /\ Injective(list)
      BY DEF IInv, Types, Apart
    <3>2. QED
      BY <2>2, <3>1
  <2>4. /\ f \in Seq(Clients) /\ Len(f) = Len(list) - 1 /\ Injective(f)
        /\ \A d \in Clients : In(f, d) <=> In(list, d) /\ d # c
        /\ In(list, c)
    BY <2>2, <2>3, FrontSeq
  <2> HIDE DEF f
  <2>5. Rest(at[t]) = <<>>
    BY <1>1, <1>6 DEF Rest
  <2>6. Rest(p) = <<>> /\ HasMutex(p)
    BY <1>2, <1>6, Places
  <2>7. \A u \in Threads : Rest(at'[u]) = Rest(at[u])
    BY <1>5, <2>5, <2>6
  <2>8. Apart'
    BY <2>1, <2>4, <2>7 DEF IInv, Apart
  <2>9. Started'
    <3>1. \A u \in Threads : ~In(Rest(at[u]), c)
      BY <1>2, <2>4 DEF IInv, Apart
    <3>2. QED
      BY <1>2, <1>3, <2>1, <2>4, <2>7, <3>1 DEF IInv, Started
  <2>10. Round' /\ given' \in [Clients -> Nat]
    BY <1>1, <2>1, <2>4, FreshRound DEF IInv, Types
  <2>11. Types'
    BY <1>1, <1>3, <1>5, <2>1, <2>4, <2>10 DEF IInv, Types
  <2>12. Shrink'
    <3>1. \A u \in Threads : mm' = u <=> HasMutex(at'[u])
      BY <1>1, <1>5, <2>2, <2>6 DEF IInv, Shrink
    <3>2. \A u \in Threads : u # t => ~HasMutex(at'[u])
      BY <1>1, <2>2, <3>1
    <3>3. mm' # Nobody
      BY <1>1, <2>2, MultiThreadBounds DEF Threads
    <3>4. QED
      BY <1>1, <1>5, <1>6, <2>2, <3>1, <3>2, <3>3 DEF Shrink, HasMutex
  <2>13. QED
    BY <2>8, <2>9, <2>10, <2>11, <2>12 DEF IInv
<1>7. CASE p.pc = "stops"
  <2> DEFINE s == p.rest
             w == <<c>> \o s
  <2>1. UNCHANGED <<list, given>>
    BY <1>7 DEF Join
  <2>2. Rest(at[t]) = w /\ ~HasMutex(at[t])
    BY <1>1, <1>7 DEF Rest, HasMutex
  <2>3. s \in Seq(Clients) /\ Rest(p) = s /\ ~HasMutex(p)
    BY <1>2, <1>7, Places
  <2>4. Injective(w)
    BY <2>2 DEF IInv, Apart
  <2>5. /\ Injective(s) /\ In(w, c)
        /\ \A d \in Clients : In(s, d) <=> In(w, d) /\ d # c
    BY <1>2, <2>3, <2>4, TailSeq
  <2> HIDE DEF s, w
  <2>6. /\ Rest(at'[t]) = s /\ Rest(at[t]) = w
        /\ \A u \in Threads : u # t => Rest(at'[u]) = Rest(at[u])
    BY <1>5, <2>2, <2>3
  <2>7. Apart'
    <3>1. \A u \in Threads : Injective(Rest(at'[u]))
      BY <2>5, <2>6 DEF IInv, Apart
    <3>2. \A d \in Clients, u \in Threads : In(Rest(at'[u]), d) => In(Rest(at[u]), d)
      BY <2>5, <2>6
    <3>3. QED
      BY <2>1, <3>1, <3>2 DEF IInv, Apart
  <2>8. Started'
    <3>1. ~In(list, c) /\ \A u \in Threads : u # t => ~In(Rest(at[u]), c)
      BY <1>2, <2>5, <2>6 DEF IInv, Apart
    <3>2. \A u \in Threads : ~In(Rest(at'[u]), c)
      BY <1>2, <2>5, <2>6, <3>1
    <3>3. ASSUME NEW d \in Clients, d # c
          PROVE  (\E u \in Threads : In(Rest(at'[u]), d)) <=>
                 \E u \in Threads : In(Rest(at[u]), d)
      BY <2>5, <2>6, <3>3
    <3>4. QED
      BY <1>2, <1>3, <2>1, <3>1, <3>2, <3>3 DEF IInv, Started
  <2>9. Shrink'
    BY <1>1, <1>5, <2>1, <2>2, <2>3, SameShrink DEF IInv
  <2>10. Types' /\ Round'
    BY <1>1, <1>3, <1>5, <2>1, SameRound DEF IInv, Types
  <2>11. QED
    BY <2>7, <2>8, <2>9, <2>10 DEF IInv
<1>8. QED
  BY <1>2, <1>6, <1>7
-----------------------------------------------------------------------------
LEMMA Stepwise == IInv /\ [Next]_vars => IInv'
<1> SUFFICES ASSUME IInv, [Next]_vars
             PROVE  IInv'
  OBVIOUS
<1>1. ASSUME NEW t \in Users, NEW op \in UserOps, Call(t, op)
      PROVE  IInv'
  BY <1>1, CallKeeps DEF Threads, Ops
<1>2. ASSUME NEW c \in Clients, NEW op \in HandlerOps, Handler(c, op)
      PROVE  IInv'
  BY <1>2, CallKeeps DEF Handler, Threads, Ops
<1>3. ASSUME NEW t \in Threads, Returns(t)
      PROVE  IInv'
  BY <1>3, StartKeeps, ReconfigureKeeps, ShrinkOneKeeps, ShrinkDoneKeeps, StopKeeps,
     StopOneKeeps, StopDoneKeeps, HaltKeeps, JoinKeeps, SendKeeps, SendOptKeeps, GiveKeeps
     DEF Returns
<1>4. ASSUME NEW c \in Clients, OwnSend(c) \/ Ends(c)
      PROVE  IInv'
  BY <1>4, OwnSendKeeps, EndsKeeps
<1>5. CASE UNCHANGED vars
  <2>1. UNCHANGED <<list, max, current, mm, at, given, worker>>
    BY <1>5 DEF vars
  <2>2. Types' /\ Round' /\ Shrink' /\ Apart' /\ Started'
    BY <2>1, SameRound, SameSequences DEF IInv, Types, Shrink
  <2>3. QED
    BY <2>2 DEF IInv
<1>6. QED
  BY <1>1, <1>2, <1>3, <1>4, <1>5 DEF Next, Step

(* The lists of multi_base and of the calls to stop() share no client, and *)
(* hold all that were started.                                             *)
THEOREM Invariance == Spec => []IInv
BY Initially, Stepwise, PTL DEF Spec

(* Every client that was started is in one place only, where it is used or *)
(* will be stopped, and there are never more than were asked for last.     *)
THEOREM NoOrphansHolds == Spec => []NoOrphans
<1>1. IInv => NoOrphans
  <2> SUFFICES ASSUME IInv
               PROVE  NoOrphans
    OBVIOUS
  <2>1. ASSUME NEW c \in Clients
        PROVE  Cardinality(Owners(c)) = IF worker[c] = "none" THEN 0 ELSE 1
    <3> DEFINE here  == {i \in DOMAIN list : list[i] = c}
               there == {t \in Threads : In(Rest(at[t]), c)}
    <3>1. ASSUME NEW t \in Threads
          PROVE  In(Rest(at[t]), c) <=>
                   \/ at[t].pc = "stops" /\ In(at[t].rest, c)
                   \/ /\ at[t].pc \in {"halts", "joins"} /\ at[t].next.pc = "stops"
                      /\ at[t].who = c \/ In(at[t].next.rest, c)
      <4>1. CASE at[t].pc = "stops"
        BY <4>1 DEF Rest
      <4>2. CASE at[t].pc \in {"halts", "joins"} /\ at[t].next.pc = "stops"
        <5>1. at[t].who \in Clients /\ at[t].next.rest \in Seq(Clients)
          BY <4>2, Fields DEF IInv, Types
        <5>2. <<at[t].who>> \in Seq(Clients)
          BY <5>1
        <5>3. In(<<at[t].who>>, c) <=> at[t].who = c
          BY DEF In
        <5>4. In(<<at[t].who>> \o at[t].next.rest, c) <=>
                at[t].who = c \/ In(at[t].next.rest, c)
          BY <5>1, <5>2, <5>3, AppendSeq
        <5>5. QED
          BY <4>2, <5>4 DEF Rest
      <4>3. CASE ~(\/ at[t].pc = "stops"
                   \/ at[t].pc \in {"halts", "joins"} /\ at[t].next.pc = "stops")
        BY <4>3 DEF Rest, In
      <4>4. QED
        BY <4>1, <4>2, <4>3
    <3>2. Owners(c) = here \cup there
      BY <3>1 DEF Owners, InRest, In
    <3>3. CASE worker[c] = "none"
      <4>1. ~In(list, c) /\ \A t \in Threads : ~In(Rest(at[t]), c)
        BY <3>3 DEF IInv, Started
      <4>2. Owners(c) = {}
        BY <3>2, <4>1 DEF In
      <4>3. QED
        BY <3>3, <4>2, FS_EmptySet
    <3>4. CASE worker[c] # "none" /\ In(list, c)
      <4>1. \A t \in Threads : ~In(Rest(at[t]), c)
        BY <3>4 DEF IInv, Apart
      <4>2. PICK i \in DOMAIN list : list[i] = c
        BY <3>4 DEF In
      <4>3. here = {i}
        BY <4>2 DEF IInv, Apart, Injective
      <4>4. Owners(c) = {i}
        BY <3>2, <4>1, <4>3
      <4>5. QED
        BY <3>4, <4>4, FS_Singleton
    <3>5. CASE worker[c] # "none" /\ ~In(list, c)
      <4>1. PICK t \in Threads : In(Rest(at[t]), c)
        BY <3>5 DEF IInv, Started
      <4>2. there = {t}
        BY <4>1 DEF IInv, Apart
      <4>3. here = {}
        BY <3>5 DEF In
      <4>4. Owners(c) = {t}
        BY <3>2, <4>2, <4>3
      <4>5. QED
        BY <3>5, <4>4, FS_Singleton
    <3>6. QED
      BY <3>3, <3>4, <3>5
  <2>2. mm = Nobody => Len(list) <= max
    BY DEF IInv, Shrink
  <2>3. QED
    BY <2>1, <2>2 DEF NoOrphans
<1>2. QED
  BY <1>1, Invariance, PTL

(* While the list stays the same no client is two turns ahead of another.  *)
THEOREM InTurnHolds == Spec => []InTurn
<1>1. IInv => InTurn
  <2> SUFFICES ASSUME IInv, NEW i \in DOMAIN list
               PROVE  given[list[i]] <= 1
    BY DEF InTurn, Members
  <2>1. list # <<>> /\ DOMAIN list = 1 .. Len(list)
    BY DEF IInv, Types
  <2>2. given[list[i]] = 0 \/ given[list[i]] = 1
    BY <2>1 DEF IInv, Round
  <2>3. QED
    BY <2>2
<1>2. QED
  BY <1>1, Invariance, PTL
-----------------------------------------------------------------------------
(* The names are different things. *)
Distinct == NoThread \notin ServerThreads \cup Acceptors /\ Origin \notin Workers

Doing(d) ==
  /\ d \in [pc : {"idle"}, in : {NoThread}]
     \cup [pc : {"back"}, in : Acceptors]
     \cup [pc : {"listens", "adds"}, in : Acceptors \cup {NoThread}, n : ThreadCounts]
     \cup [pc : {"waits"}, in : Acceptors \cup {NoThread}, op : {"start"}, n : ThreadCounts]
     \cup [pc : {"waits"}, in : Acceptors \cup {NoThread}, op : {"stop"}]
     \cup [pc : {"closes", "stops"}, in : Acceptors \cup {NoThread}, rest : SUBSET Acceptors]
     \cup [pc : {"joins"}, in : Acceptors \cup {NoThread}]

ServerTypes ==
  /\ lock \in ServerThreads \cup {NoThread}
  /\ doing = [t \in ServerThreads |-> doing[t]] /\ \A t \in ServerThreads : Doing(doing[t])
  /\ dups \subseteq Workers
  /\ thread \in [Workers -> {"none", "running", "stopping", "ended"}]
  /\ port \in [Acceptors -> {"closed", "bare", "listening"}]
  /\ status \in [Acceptors -> BOOLEAN]
  /\ accepts \in [Acceptors -> {"none", "armed", "done"}]
  /\ fatal \in [Acceptors -> {"no", "coming", "told"}]

StartWaits == \E u \in ServerThreads : doing[u].pc = "waits" /\ doing[u].op = "start"

Mutex == \A t \in ServerThreads : lock = t <=> doing[t].pc \in {"adds", "closes", "stops", "joins"}

(* A worker that is not in the list is nothing. *)
Known == \A w \in Workers :
  /\ w \in dups <=> thread[w] # "none"
  /\ w \notin dups => port[w] = "closed" /\ ~status[w]

(* What has been closed stays closed, but for the origin. *)
Closing == \A t \in ServerThreads : doing[t].pc = "closes" =>
  /\ \A w \in Workers : port[w] # "closed" => w \in doing[t].rest
  /\ Origin \notin doing[t].rest /\ port[Origin] = "listening" => StartWaits

Stopping == \A t \in ServerThreads : doing[t].pc \in {"stops", "joins"} =>
  /\ \A w \in Workers : port[w] = "closed"
  /\ port[Origin] = "listening" => StartWaits
  /\ \A a \in Acceptors : status[a] => doing[t].pc = "stops" /\ a \in doing[t].rest

(* An acceptor without an accept is in its handler or is being stopped. *)
Heard == \A a \in Acceptors :
  status[a] /\ accepts[a] = "none" /\ fatal[a] = "no" =>
    \E t \in ServerThreads :
      \/ doing[t].in = a
      \/ doing[t].pc = "closes" /\ a \notin doing[t].rest
      \/ doing[t].pc = "stops" /\ a \in doing[t].rest

ServerIInv == ServerTypes /\ Mutex /\ Known /\ Closing /\ Stopping /\ Heard
-----------------------------------------------------------------------------
(* Where a thread can be, and what is known of it there. *)
LEMMA DoingFields ==
  ASSUME NEW d, Doing(d)
  PROVE  /\ d.pc \in {"idle", "back", "listens", "adds", "waits", "closes", "stops", "joins"}
         /\ d.in \in Acceptors \cup {NoThread}
         /\ d.pc = "idle" => d = Resting
         /\ d.pc = "back" => d.in \in Acceptors
         /\ d.pc = "waits" => d.op \in {"start", "stop"}
         /\ d.pc \in {"listens", "adds"} \/ (d.pc = "waits" /\ d.op = "start") =>
              d.n \in ThreadCounts
         /\ d.pc \in {"closes", "stops"} => d.rest \in SUBSET Acceptors
BY DEF Doing, Resting

LEMMA GoesTo ==
  ASSUME ServerTypes, NEW t \in ServerThreads, NEW d, Doing(d), GoTo(t, d)
  PROVE  /\ doing' = [u \in ServerThreads |-> doing'[u]] /\ \A u \in ServerThreads : Doing(doing'[u])
         /\ doing'[t] = d /\ \A u \in ServerThreads : u # t => doing'[u] = doing[u]
<1>1. doing'[t] = d /\ \A u \in ServerThreads : u # t => doing'[u] = doing[u]
  BY DEF GoTo, ServerTypes
<1>2. doing' = [u \in ServerThreads |-> doing'[u]]
  BY DEF GoTo, ServerTypes
<1>3. QED
  BY <1>1, <1>2 DEF ServerTypes

LEMMA ReturnGoes ==
  ASSUME ServerTypes, Distinct, NEW t \in ServerThreads, doing[t].pc \in {"listens", "adds", "joins"},
         Return(t)
  PROVE  /\ doing' = [u \in ServerThreads |-> doing'[u]] /\ \A u \in ServerThreads : Doing(doing'[u])
         /\ doing'[t].pc \in {"idle", "back"} /\ doing'[t].in = doing[t].in
         /\ \A u \in ServerThreads : u # t => doing'[u] = doing[u]
<1> DEFINE d == IF doing[t].in = NoThread THEN Resting ELSE At("back", doing[t].in)
<1>1. doing[t].in \in Acceptors \cup {NoThread}
  BY DoingFields DEF ServerTypes
<1>2. Doing(d) /\ d.pc \in {"idle", "back"} /\ d.in = doing[t].in
  BY <1>1 DEF Doing, Resting, At
<1> HIDE DEF d
<1>3. GoTo(t, d)
  BY DEF Return, d
<1>4. QED
  BY <1>2, <1>3, GoesTo

(* A step that is none of start() or stop() under the mutex, and does not  *)
(* touch what these do.                                                    *)
Held == {"adds", "closes", "stops", "joins"}

LEMMA Outside ==
  ASSUME ServerIInv, ServerTypes', UNCHANGED <<lock, dups, port, status>>,
         \A u \in ServerThreads : doing[u].pc \in Held \/ doing'[u].pc \in Held =>
                              doing'[u] = doing[u],
         StartWaits => StartWaits',
         \A w \in Workers : thread'[w] = "none" <=> thread[w] = "none",
         Heard'
  PROVE  ServerIInv'
<1>1. Mutex'
  BY DEF ServerIInv, Mutex, Held
<1>2. Known'
  BY DEF ServerIInv, Known
<1>3. Closing'
  BY DEF ServerIInv, Closing, Held
<1>4. Stopping'
  BY DEF ServerIInv, Stopping, Held
<1>6. QED
  BY <1>1, <1>2, <1>3, <1>4 DEF ServerIInv

(* A thread begins a call, from a handler of an acceptor or from outside.  *)
LEMMA Begins ==
  ASSUME ServerIInv, Distinct, NEW t \in ServerThreads, doing[t] = Resting,
         NEW a \in Acceptors \cup {NoThread}, NEW op \in Began(a), GoTo(t, op)
  PROVE  /\ doing' = [u \in ServerThreads |-> doing'[u]] /\ \A u \in ServerThreads : Doing(doing'[u])
         /\ \A u \in ServerThreads : doing[u].pc \in Held \/ doing'[u].pc \in Held =>
                                 doing'[u] = doing[u]
         /\ StartWaits => StartWaits'
         /\ doing'[t].in = a /\ \A u \in ServerThreads : u # t => doing'[u] = doing[u]
<1>1. Doing(op) /\ op.pc \in {"listens", "waits"} /\ op.in = a
  BY DEF Began, Doing
<1>2. /\ doing' = [u \in ServerThreads |-> doing'[u]] /\ \A u \in ServerThreads : Doing(doing'[u])
      /\ doing'[t] = op /\ \A u \in ServerThreads : u # t => doing'[u] = doing[u]
  BY <1>1, GoesTo DEF ServerIInv
<1>3. doing[t].pc = "idle"
  BY DEF Resting
<1>4. StartWaits => StartWaits'
  BY <1>2, <1>3 DEF StartWaits
<1>5. QED
  BY <1>1, <1>2, <1>3, <1>4 DEF Held

LEMMA CallServerKeeps ==
  ASSUME ServerIInv, Distinct, NEW t \in ServerThreads, NEW op \in Began(NoThread), CallServer(t, op)
  PROVE  ServerIInv'
<1>1. /\ doing[t] = Resting /\ GoTo(t, op)
      /\ UNCHANGED <<lock, dups, thread, port, status, accepts, fatal, conns>>
  BY DEF CallServer
<1>2. /\ doing' = [u \in ServerThreads |-> doing'[u]] /\ \A u \in ServerThreads : Doing(doing'[u])
      /\ \A u \in ServerThreads : doing[u].pc \in Held \/ doing'[u].pc \in Held =>
                              doing'[u] = doing[u]
      /\ StartWaits => StartWaits'
      /\ doing'[t].in = NoThread /\ \A u \in ServerThreads : u # t => doing'[u] = doing[u]
  BY <1>1, Begins
<1>3. ServerTypes'
  BY <1>1, <1>2 DEF ServerIInv, ServerTypes
<1>4. Heard'
  <2> SUFFICES ASSUME NEW a \in Acceptors, status[a], accepts[a] = "none", fatal[a] = "no"
               PROVE  \E u \in ServerThreads :
                        \/ doing'[u].in = a
                        \/ doing'[u].pc = "closes" /\ a \notin doing'[u].rest
                        \/ doing'[u].pc = "stops" /\ a \in doing'[u].rest
    BY <1>1 DEF Heard
  <2>1. PICK u \in ServerThreads : \/ doing[u].in = a
                                   \/ doing[u].pc = "closes" /\ a \notin doing[u].rest
                                   \/ doing[u].pc = "stops" /\ a \in doing[u].rest
    BY DEF ServerIInv, Heard
  <2>2. doing[t].in # a /\ doing[t].pc = "idle"
    BY <1>1 DEF Resting, Distinct
  <2>3. u # t
    BY <2>1, <2>2
  <2>4. QED
    BY <1>2, <2>1, <2>3
<1>5. QED
  BY <1>1, <1>2, <1>3, <1>4, Outside

(* What may happen to the accepts while the status stays. *)
LEMMA HeardKept ==
  ASSUME ServerIInv, status' = status,
         \A u \in ServerThreads : doing[u].pc \in {"closes", "stops"} => doing'[u] = doing[u],
         \A a \in Acceptors : status[a] /\ accepts'[a] = "none" /\ fatal'[a] = "no" =>
           \/ \E u \in ServerThreads : doing'[u].in = a
           \/ /\ accepts[a] = "none" /\ fatal[a] = "no"
              /\ \A u \in ServerThreads : doing[u].in = a => doing'[u].in = a
  PROVE  Heard'
<1> SUFFICES ASSUME NEW a \in Acceptors, status[a], accepts'[a] = "none", fatal'[a] = "no"
             PROVE  \E u \in ServerThreads :
                      \/ doing'[u].in = a
                      \/ doing'[u].pc = "closes" /\ a \notin doing'[u].rest
                      \/ doing'[u].pc = "stops" /\ a \in doing'[u].rest
  BY DEF Heard
<1>1. CASE \E u \in ServerThreads : doing'[u].in = a
  BY <1>1
<1>2. CASE /\ accepts[a] = "none" /\ fatal[a] = "no"
           /\ \A u \in ServerThreads : doing[u].in = a => doing'[u].in = a
  <2>1. PICK u \in ServerThreads : \/ doing[u].in = a
                                   \/ doing[u].pc = "closes" /\ a \notin doing[u].rest
                                   \/ doing[u].pc = "stops" /\ a \in doing[u].rest
    BY <1>2 DEF ServerIInv, Heard
  <2>2. QED
    BY <1>2, <2>1
<1>3. QED
  BY <1>1, <1>2

(* After More a started acceptor has an accept, or an error coming. *)
LEMMA MoreDoes ==
  ASSUME ServerTypes, NEW a \in Acceptors, More(a)
  PROVE  /\ accepts' \in [Acceptors -> {"none", "armed", "done"}]
         /\ fatal' \in [Acceptors -> {"no", "coming", "told"}]
         /\ status[a] => accepts'[a] # "none" \/ fatal'[a] # "no"
         /\ \A b \in Acceptors : b # a => accepts'[b] = accepts[b] /\ fatal'[b] = fatal[b]
<1>1. /\ accepts' = [accepts EXCEPT ![a] = IF status[a] /\ port[a] = "listening"
                                           THEN "armed" ELSE "none"]
      /\ fatal' = [fatal EXCEPT ![a] = IF status[a] /\ port[a] # "listening"
                                       THEN "coming" ELSE @]
  BY DEF More
<1>2. /\ accepts \in [Acceptors -> {"none", "armed", "done"}]
      /\ fatal \in [Acceptors -> {"no", "coming", "told"}]
  BY DEF ServerTypes
<1>3. accepts' \in [Acceptors -> {"none", "armed", "done"}]
  BY <1>1, <1>2
<1>4. fatal' \in [Acceptors -> {"no", "coming", "told"}]
  BY <1>1, <1>2
<1>5. QED
  BY <1>1, <1>2, <1>3, <1>4

(* The kernel, and what handlers do that call nothing. *)
LEMMA CompletesKeeps ==
  ASSUME ServerIInv, NEW a \in Acceptors, Completes(a)
  PROVE  ServerIInv'
<1>1. UNCHANGED <<lock, doing, dups, thread, port, status, conns>>
  BY DEF Completes
<1>2. /\ accepts' \in [Acceptors -> {"none", "armed", "done"}]
      /\ fatal' \in [Acceptors -> {"no", "coming", "told"}]
      /\ \A b \in Acceptors : accepts'[b] = "none" /\ fatal'[b] = "no" =>
                                accepts[b] = "none" /\ fatal[b] = "no"
  <2>1. /\ accepts \in [Acceptors -> {"none", "armed", "done"}]
        /\ fatal \in [Acceptors -> {"no", "coming", "told"}]
    BY DEF ServerIInv, ServerTypes
  <2>2. CASE accepts' = [accepts EXCEPT ![a] = "done"] /\ fatal' = fatal
    BY <2>1, <2>2
  <2>3. CASE /\ accepts' = [accepts EXCEPT ![a] = "none"]
             /\ fatal' = [fatal EXCEPT ![a] = "coming"]
    BY <2>1, <2>3
  <2>4. QED
    BY <2>2, <2>3 DEF Completes
<1>3. ServerTypes'
  BY <1>1, <1>2 DEF ServerIInv, ServerTypes
<1>4. Heard'
  BY <1>1, <1>2, HeardKept
<1>5. QED
  BY <1>1, <1>3, <1>4, Outside DEF StartWaits

LEMMA HandleKeeps ==
  ASSUME ServerIInv, Distinct, NEW t \in ServerThreads, NEW a \in Acceptors, Handle(t, a)
  PROVE  ServerIInv'
<1>1. doing[t] = Resting /\ UNCHANGED <<lock, dups, thread, port, status>>
  BY DEF Handle
<1>2. CASE doing' = doing /\ More(a)
  <2>1. /\ accepts' \in [Acceptors -> {"none", "armed", "done"}]
        /\ fatal' \in [Acceptors -> {"no", "coming", "told"}]
        /\ status[a] => accepts'[a] # "none" \/ fatal'[a] # "no"
        /\ \A b \in Acceptors : b # a => accepts'[b] = accepts[b] /\ fatal'[b] = fatal[b]
    BY <1>2, MoreDoes DEF ServerIInv
  <2>2. ServerTypes'
    BY <1>1, <1>2, <2>1 DEF ServerIInv, ServerTypes
  <2>3. Heard'
    BY <1>1, <1>2, <2>1, HeardKept
  <2>4. QED
    BY <1>1, <1>2, <2>2, <2>3, Outside DEF StartWaits
<1>3. CASE /\ \E op \in Began(a) : GoTo(t, op)
           /\ accepts' = [accepts EXCEPT ![a] = "none"] /\ fatal' = fatal
  <2>1. PICK op \in Began(a) : GoTo(t, op)
    BY <1>3
  <2>2. /\ doing' = [u \in ServerThreads |-> doing'[u]] /\ \A u \in ServerThreads : Doing(doing'[u])
        /\ \A u \in ServerThreads : doing[u].pc \in Held \/ doing'[u].pc \in Held =>
                                doing'[u] = doing[u]
        /\ StartWaits => StartWaits'
        /\ doing'[t].in = a /\ \A u \in ServerThreads : u # t => doing'[u] = doing[u]
    BY <1>1, <2>1, Begins
  <2>3. ServerTypes'
    BY <1>1, <1>3, <2>2 DEF ServerIInv, ServerTypes
  <2>4. \A b \in Acceptors : b # a => accepts'[b] = accepts[b]
    BY <1>3 DEF ServerIInv, ServerTypes
  <2>5. \A b \in Acceptors : doing[t].in # b
    BY <1>1 DEF Resting, Distinct
  <2>6. Heard'
    BY <1>1, <1>3, <2>2, <2>4, <2>5, HeardKept DEF Held
  <2>7. QED
    BY <1>1, <2>2, <2>3, <2>6, Outside
<1>4. QED
  BY <1>2, <1>3 DEF Handle

LEMMA BackKeeps ==
  ASSUME ServerIInv, Distinct, NEW t \in ServerThreads, Back(t)
  PROVE  ServerIInv'
<1> DEFINE a == doing[t].in
<1>1. /\ doing[t].pc = "back" /\ GoTo(t, Resting) /\ More(a)
      /\ UNCHANGED <<lock, dups, thread, port, status>>
  BY DEF Back
<1>2. a \in Acceptors
  BY <1>1, DoingFields DEF ServerIInv, ServerTypes
<1>3. Doing(Resting) /\ Resting.pc = "idle"
  BY DEF Doing, Resting
<1>4. /\ doing' = [u \in ServerThreads |-> doing'[u]] /\ \A u \in ServerThreads : Doing(doing'[u])
      /\ doing'[t] = Resting /\ \A u \in ServerThreads : u # t => doing'[u] = doing[u]
  BY <1>1, <1>3, GoesTo DEF ServerIInv
<1>5. /\ accepts' \in [Acceptors -> {"none", "armed", "done"}]
      /\ fatal' \in [Acceptors -> {"no", "coming", "told"}]
      /\ status[a] => accepts'[a] # "none" \/ fatal'[a] # "no"
      /\ \A b \in Acceptors : b # a => accepts'[b] = accepts[b] /\ fatal'[b] = fatal[b]
  BY <1>1, <1>2, MoreDoes DEF ServerIInv
<1>6. ServerTypes'
  BY <1>1, <1>4, <1>5 DEF ServerIInv, ServerTypes
<1>7. Heard'
  BY <1>1, <1>4, <1>5, HeardKept
<1>8. StartWaits => StartWaits'
  BY <1>1, <1>4 DEF StartWaits
<1>9. QED
  BY <1>1, <1>3, <1>4, <1>6, <1>7, <1>8, Outside DEF Held

LEMMA HandlersKeep ==
  ASSUME ServerIInv, NEW t \in ServerThreads, NEW a \in Acceptors, Fatal(t, a) \/ ConnEnds(t, a)
  PROVE  ServerIInv'
<1>1. UNCHANGED <<lock, doing, dups, thread, port, status, accepts>>
  BY DEF Fatal, ConnEnds
<1>2. /\ fatal' \in [Acceptors -> {"no", "coming", "told"}]
      /\ \A b \in Acceptors : fatal'[b] = "no" => fatal[b] = "no"
  BY DEF Fatal, ConnEnds, ServerIInv, ServerTypes
<1>3. ServerTypes'
  BY <1>1, <1>2 DEF ServerIInv, ServerTypes
<1>4. Heard'
  BY <1>1, <1>2, HeardKept
<1>5. QED
  BY <1>1, <1>3, <1>4, Outside DEF StartWaits

LEMMA LeaveKeeps ==
  ASSUME ServerIInv, NEW w \in Workers, Leave(w)
  PROVE  ServerIInv'
<1>1. /\ UNCHANGED <<lock, doing, dups, port, status, accepts, fatal>>
      /\ thread[w] # "none" /\ thread' = [thread EXCEPT ![w] = "ended"]
  BY DEF Leave
<1>2. thread \in [Workers -> {"none", "running", "stopping", "ended"}]
  BY DEF ServerIInv, ServerTypes
<1>3. /\ thread' \in [Workers -> {"none", "running", "stopping", "ended"}]
      /\ \A v \in Workers : thread'[v] = "none" <=> thread[v] = "none"
  BY <1>1, <1>2
<1>4. ServerTypes'
  BY <1>1, <1>3 DEF ServerIInv, ServerTypes
<1>5. Heard'
  BY <1>1, HeardKept
<1>6. QED
  BY <1>1, <1>3, <1>4, <1>5, Outside DEF StartWaits
-----------------------------------------------------------------------------
(* One thread has the mutex at most. *)
LEMMA Sole ==
  ASSUME ServerIInv, Distinct, NEW t \in ServerThreads, doing[t].pc \in Held \/ lock = NoThread
  PROVE  \A u \in ServerThreads : u # t => doing[u].pc \notin Held
BY DEF ServerIInv, Mutex, Held, Distinct

(* The call's place changes, and not the acceptor that it comes from. *)
LEMMA ServerMoves ==
  ASSUME ServerTypes, NEW t \in ServerThreads, NEW d, Doing(d), GoTo(t, d), d.in = doing[t].in
  PROVE  /\ doing' = [u \in ServerThreads |-> doing'[u]] /\ \A u \in ServerThreads : Doing(doing'[u])
         /\ doing'[t] = d /\ \A u \in ServerThreads : u # t => doing'[u] = doing[u]
         /\ \A u \in ServerThreads : doing'[u].in = doing[u].in
BY GoesTo

LEMMA ListenKeeps ==
  ASSUME ServerIInv, Distinct, NEW t \in ServerThreads, Listen(t)
  PROVE  ServerIInv'
<1> DEFINE d == [pc |-> "waits", in |-> doing[t].in, op |-> "start", n |-> doing[t].n]
<1>1. /\ doing[t].pc = "listens"
      /\ UNCHANGED <<lock, dups, thread, status, accepts, fatal, conns>>
  BY DEF Listen
<1>2. /\ ServerTypes /\ doing[t].in \in Acceptors \cup {NoThread} /\ doing[t].n \in ThreadCounts
      /\ port \in [Acceptors -> {"closed", "bare", "listening"}] /\ Origin \in Acceptors
  BY <1>1, DoingFields DEF ServerIInv, ServerTypes, Acceptors
<1>3. CASE Return(t) /\ port' = port
  <2>1. /\ doing' = [u \in ServerThreads |-> doing'[u]] /\ \A u \in ServerThreads : Doing(doing'[u])
        /\ doing'[t].pc \in {"idle", "back"} /\ doing'[t].in = doing[t].in
        /\ \A u \in ServerThreads : u # t => doing'[u] = doing[u]
    BY <1>1, <1>2, <1>3, ReturnGoes
  <2>2. ServerTypes'
    BY <1>1, <1>3, <2>1 DEF ServerIInv, ServerTypes
  <2>3. Heard'
    BY <1>1, <2>1, HeardKept
  <2>4. StartWaits => StartWaits'
    BY <1>1, <2>1 DEF StartWaits
  <2>5. QED
    BY <1>1, <1>3, <2>1, <2>2, <2>3, <2>4, Outside DEF Held
<1>4. CASE Return(t) /\ port' = [port EXCEPT ![Origin] = "bare"]
  <2>1. /\ doing' = [u \in ServerThreads |-> doing'[u]] /\ \A u \in ServerThreads : Doing(doing'[u])
        /\ doing'[t].pc \in {"idle", "back"} /\ doing'[t].in = doing[t].in
        /\ \A u \in ServerThreads : u # t => doing'[u] = doing[u]
    BY <1>1, <1>2, <1>4, ReturnGoes
  <2>3. StartWaits => StartWaits'
    BY <1>1, <2>1 DEF StartWaits
  <2>4. /\ port' \in [Acceptors -> {"closed", "bare", "listening"}] /\ port'[Origin] = "bare"
        /\ \A v \in Workers : port'[v] = port[v]
    BY <1>2, <1>4 DEF Distinct, Acceptors
  <2>5. ServerTypes'
    BY <1>1, <2>1, <2>4 DEF ServerIInv, ServerTypes
  <2>6. Mutex'
    BY <1>1, <2>1 DEF ServerIInv, Mutex
  <2>7. Known'
    BY <1>1, <2>4 DEF ServerIInv, Known
  <2>8. Closing'
    BY <2>1, <2>3, <2>4 DEF ServerIInv, Closing
  <2>9. Stopping'
    BY <1>1, <2>1, <2>3, <2>4 DEF ServerIInv, Stopping
  <2>11. Heard'
    BY <1>1, <2>1, HeardKept
  <2>12. QED
    BY <2>5, <2>6, <2>7, <2>8, <2>9, <2>11 DEF ServerIInv
<1>5. CASE GoTo(t, d) /\ port' = [port EXCEPT ![Origin] = "listening"]
  <2>1. Doing(d) /\ d.in = doing[t].in /\ d.pc = "waits" /\ d.op = "start"
    BY <1>2 DEF Doing
  <2> HIDE DEF d
  <2>2. /\ doing' = [u \in ServerThreads |-> doing'[u]] /\ \A u \in ServerThreads : Doing(doing'[u])
        /\ doing'[t] = d /\ \A u \in ServerThreads : u # t => doing'[u] = doing[u]
        /\ \A u \in ServerThreads : doing'[u].in = doing[u].in
    BY <1>2, <1>5, <2>1, ServerMoves
  <2>3. StartWaits'
    BY <2>1, <2>2 DEF StartWaits
  <2>4. /\ port' \in [Acceptors -> {"closed", "bare", "listening"}]
        /\ \A v \in Workers : port'[v] = port[v]
    BY <1>2, <1>5 DEF Distinct, Acceptors
  <2>5. ServerTypes'
    BY <1>1, <2>2, <2>4 DEF ServerIInv, ServerTypes
  <2>6. Mutex'
    BY <1>1, <2>1, <2>2 DEF ServerIInv, Mutex
  <2>7. Known'
    BY <1>1, <2>4 DEF ServerIInv, Known
  <2>8. Closing'
    BY <2>1, <2>2, <2>3, <2>4 DEF ServerIInv, Closing
  <2>9. Stopping'
    BY <1>1, <2>1, <2>2, <2>3, <2>4 DEF ServerIInv, Stopping
  <2>11. Heard'
    BY <1>1, <2>2, HeardKept
  <2>12. QED
    BY <2>5, <2>6, <2>7, <2>8, <2>9, <2>11 DEF ServerIInv
<1>6. QED
  BY <1>3, <1>4, <1>5 DEF Listen

LEMMA LockKeeps ==
  ASSUME ServerIInv, Distinct, NEW t \in ServerThreads, Lock(t)
  PROVE  ServerIInv'
<1> DEFINE d == IF doing[t].op = "start"
                THEN [pc |-> "adds", in |-> doing[t].in, n |-> doing[t].n]
                ELSE [pc |-> "closes", in |-> doing[t].in, rest |-> dups \cup {Origin}]
<1>1. /\ doing[t].pc = "waits" /\ lock = NoThread /\ lock' = t /\ GoTo(t, d)
      /\ UNCHANGED <<dups, thread, port, status, accepts, fatal, conns>>
  BY DEF Lock
<1>2. /\ ServerTypes /\ doing[t].in \in Acceptors \cup {NoThread} /\ doing[t].op \in {"start", "stop"}
      /\ doing[t].op = "start" => doing[t].n \in ThreadCounts
      /\ dups \cup {Origin} \in SUBSET Acceptors
  BY <1>1, DoingFields DEF ServerIInv, ServerTypes, Acceptors
<1>3. /\ Doing(d) /\ d.in = doing[t].in
      /\ doing[t].op = "start" => d.pc = "adds"
      /\ doing[t].op # "start" => d.pc = "closes" /\ d.rest = dups \cup {Origin}
  BY <1>2 DEF Doing
<1> HIDE DEF d
<1>4. /\ doing' = [u \in ServerThreads |-> doing'[u]] /\ \A u \in ServerThreads : Doing(doing'[u])
      /\ doing'[t] = d /\ \A u \in ServerThreads : u # t => doing'[u] = doing[u]
      /\ \A u \in ServerThreads : doing'[u].in = doing[u].in
  BY <1>1, <1>2, <1>3, ServerMoves
<1>5. \A u \in ServerThreads : u # t => doing'[u].pc \notin Held
  BY <1>1, <1>4, Sole
<1>6. d.pc \in {"adds", "closes"}
  BY <1>3
<1>7. ServerTypes'
  BY <1>1, <1>4 DEF ServerIInv, ServerTypes
<1>8. Mutex'
  BY <1>1, <1>4, <1>5, <1>6 DEF Mutex, Held
<1>9. Known'
  BY <1>1 DEF ServerIInv, Known
<1>10. Closing'
  <2>1. d.pc = "closes" => d.rest = dups \cup {Origin}
    BY <1>3
  <2>2. QED
    BY <1>1, <1>4, <1>5, <2>1 DEF ServerIInv, Known, Closing, Held
<1>11. Stopping'
  BY <1>4, <1>5, <1>6 DEF Stopping, Held
<1>13. Heard'
  BY <1>1, <1>4, HeardKept
<1>14. QED
  BY <1>7, <1>8, <1>9, <1>10, <1>11, <1>13 DEF ServerIInv

(* The acceptors A are started. *)
LEMMA StartedDoes ==
  ASSUME ServerTypes, NEW A \in SUBSET Acceptors, StartAcceptors(A)
  PROVE  /\ status' \in [Acceptors -> BOOLEAN]
         /\ port' \in [Acceptors -> {"closed", "bare", "listening"}]
         /\ accepts' \in [Acceptors -> {"none", "armed", "done"}]
         /\ fatal' \in [Acceptors -> {"no", "coming", "told"}]
         /\ \A a \in A : status'[a] /\ (accepts'[a] # "none" \/ fatal'[a] # "no")
         /\ \A a \in Acceptors \ A : /\ status'[a] = status[a] /\ port'[a] = port[a]
                                     /\ accepts'[a] = accepts[a] /\ fatal'[a] = fatal[a]
<1> DEFINE ok == port[Origin] = "listening"
<1>1. /\ status'  = [a \in Acceptors |-> a \in A \/ status[a]]
      /\ accepts' = [a \in Acceptors |-> IF a \in A /\ ok THEN "armed" ELSE accepts[a]]
      /\ fatal'   = [a \in Acceptors |-> IF a \in A /\ ~ok THEN "coming"
                                         ELSE IF a \in A /\ fatal[a] = "told" THEN "no"
                                         ELSE fatal[a]]
      /\ port'    = [a \in Acceptors |-> IF a \in A THEN port[Origin] ELSE port[a]]
  BY DEF StartAcceptors
<1>2. /\ port \in [Acceptors -> {"closed", "bare", "listening"}] /\ Origin \in Acceptors
      /\ status \in [Acceptors -> BOOLEAN]
      /\ accepts \in [Acceptors -> {"none", "armed", "done"}]
      /\ fatal \in [Acceptors -> {"no", "coming", "told"}]
  BY DEF ServerTypes, Acceptors
<1> HIDE DEF ok
<1>3. status' \in [Acceptors -> BOOLEAN]
  BY <1>1, <1>2
<1>4. port' \in [Acceptors -> {"closed", "bare", "listening"}]
  BY <1>1, <1>2
<1>5. accepts' \in [Acceptors -> {"none", "armed", "done"}]
  BY <1>1, <1>2
<1>6. fatal' \in [Acceptors -> {"no", "coming", "told"}]
  BY <1>1, <1>2
<1>7. \A a \in A : status'[a] /\ (accepts'[a] # "none" \/ fatal'[a] # "no")
  BY <1>1
<1>8. ASSUME NEW a \in Acceptors \ A
      PROVE  /\ status'[a] = status[a] /\ port'[a] = port[a]
             /\ accepts'[a] = accepts[a] /\ fatal'[a] = fatal[a]
  <2>1. port'[a] = port[a] /\ accepts'[a] = accepts[a] /\ fatal'[a] = fatal[a]
    BY <1>1
  <2>2. status'[a] = (a \in A \/ status[a]) /\ status[a] \in BOOLEAN
    BY <1>1, <1>2
  <2>3. QED
    BY <2>1, <2>2
<1>9. QED
  BY <1>3, <1>4, <1>5, <1>6, <1>7, <1>8

LEMMA AddKeeps ==
  ASSUME ServerIInv, Distinct, NEW t \in ServerThreads, Add(t)
  PROVE  ServerIInv'
<1>1. doing[t].pc = "adds" /\ lock' = NoThread /\ Return(t) /\ ServerTypes
  BY DEF Add, ServerIInv
<1>2. /\ doing' = [u \in ServerThreads |-> doing'[u]] /\ \A u \in ServerThreads : Doing(doing'[u])
      /\ doing'[t].pc \in {"idle", "back"} /\ doing'[t].in = doing[t].in
      /\ \A u \in ServerThreads : u # t => doing'[u] = doing[u]
  BY <1>1, ReturnGoes
<1>3. \A u \in ServerThreads : doing'[u].pc \notin Held /\ (doing[u].pc \in Held => u = t)
  <2>1. \A u \in ServerThreads : u # t => doing[u].pc \notin Held
    BY <1>1, Sole DEF Held
  <2>2. doing'[t].pc \notin Held
    BY <1>2 DEF Held
  <2>3. QED
    BY <1>2, <2>1, <2>2
<1>4. Mutex'
  BY <1>1, <1>3 DEF Mutex, Held, Distinct
<1>5. Closing' /\ Stopping'
  BY <1>3 DEF Closing, Stopping, Held
<1>6. StartWaits => StartWaits'
  BY <1>1, <1>2 DEF StartWaits
<1>7. ASSUME NEW A \in SUBSET Acceptors, NEW D \in SUBSET Workers, StartAcceptors(A),
             A \cap Workers = D, D \cap dups = {}, dups' = dups \cup D,
             thread' = [w \in Workers |-> IF w \in D THEN "running" ELSE thread[w]]
      PROVE  ServerIInv'
  <2>1. /\ status' \in [Acceptors -> BOOLEAN]
        /\ port' \in [Acceptors -> {"closed", "bare", "listening"}]
        /\ accepts' \in [Acceptors -> {"none", "armed", "done"}]
        /\ fatal' \in [Acceptors -> {"no", "coming", "told"}]
        /\ \A a \in A : status'[a] /\ (accepts'[a] # "none" \/ fatal'[a] # "no")
        /\ \A a \in Acceptors \ A : /\ status'[a] = status[a] /\ port'[a] = port[a]
                                    /\ accepts'[a] = accepts[a] /\ fatal'[a] = fatal[a]
    BY <1>1, <1>7, StartedDoes
  <2>2. thread' \in [Workers -> {"none", "running", "stopping", "ended"}]
    BY <1>1, <1>7 DEF ServerTypes
  <2>3. ServerTypes'
    BY <1>1, <1>2, <1>7, <2>1, <2>2 DEF ServerTypes
  <2>4. Known'
    <3> SUFFICES ASSUME NEW w \in Workers
                 PROVE  /\ w \in dups' <=> thread'[w] # "none"
                        /\ w \notin dups' => port'[w] = "closed" /\ ~status'[w]
      BY DEF Known
    <3>1. CASE w \in D
      BY <1>7, <3>1
    <3>2. CASE w \notin D
      <4>1. w \in Acceptors \ A /\ thread'[w] = thread[w]
        BY <1>7, <3>2 DEF Acceptors
      <4>2. QED
        BY <1>7, <2>1, <3>2, <4>1 DEF ServerIInv, Known
    <3>3. QED
      BY <3>1, <3>2
  <2>6. Heard'
    <3> SUFFICES ASSUME NEW a \in Acceptors, status'[a], accepts'[a] = "none", fatal'[a] = "no"
                 PROVE  \E u \in ServerThreads : doing'[u].in = a
      BY DEF Heard
    <3>1. a \notin A
      BY <2>1
    <3>2. PICK u \in ServerThreads : \/ doing[u].in = a
                                     \/ doing[u].pc \in {"closes", "stops"}
      BY <2>1, <3>1 DEF ServerIInv, Heard
    <3>3. doing[u].pc \notin {"closes", "stops"}
      BY <1>1, <1>3 DEF Held
    <3>4. QED
      BY <1>2, <3>2, <3>3
  <2>7. QED
    BY <1>4, <1>5, <2>3, <2>4, <2>6 DEF ServerIInv
<1>8. CASE StartAcceptors({Origin}) /\ UNCHANGED <<dups, thread>>
  <2> DEFINE D == {}
  <2>1. /\ {Origin} \in SUBSET Acceptors /\ {Origin} \cap Workers = D
        /\ dups' = dups \cup D /\ D \in SUBSET Workers /\ D \cap dups = {}
    BY <1>8 DEF Distinct, Acceptors
  <2>2. thread' = [w \in Workers |-> IF w \in D THEN "running" ELSE thread[w]]
    BY <1>1, <1>8 DEF ServerTypes
  <2>3. QED
    BY <1>7, <1>8, <2>1, <2>2
<1>9. ASSUME NEW new \in SUBSET (Workers \ dups), StartAcceptors(new), dups' = dups \cup new,
             thread' = [w \in Workers |-> IF w \in new THEN "running" ELSE thread[w]]
      PROVE  ServerIInv'
  <2>1. /\ new \in SUBSET Acceptors /\ new \in SUBSET Workers
        /\ new \cap Workers = new /\ new \cap dups = {}
    BY <1>9 DEF Acceptors
  <2>2. QED
    BY <1>7, <1>9, <2>1
<1>10. QED
  BY <1>8, <1>9 DEF Add
-----------------------------------------------------------------------------
(* One acceptor is done, of those that are left. *)
LEMMA TakesOne ==
  ASSUME ServerIInv, Distinct, NEW t \in ServerThreads, NEW a \in Acceptors,
         NEW pc \in {"closes", "stops"}, Takes(t, pc, a), lock' = lock
  PROVE  /\ doing' = [u \in ServerThreads |-> doing'[u]] /\ \A u \in ServerThreads : Doing(doing'[u])
         /\ doing[t].pc = pc /\ doing'[t].pc = pc /\ doing'[t].rest = doing[t].rest \ {a}
         /\ a \in doing[t].rest /\ (a = Origin \/ Origin \notin doing[t].rest)
         /\ \A u \in ServerThreads : u # t => doing'[u] = doing[u]
         /\ \A u \in ServerThreads : u # t => doing[u].pc \notin Held /\ doing'[u].pc \notin Held
         /\ Mutex' /\ (StartWaits => StartWaits')
<1> DEFINE d == [doing[t] EXCEPT !.rest = @ \ {a}]
<1>1. /\ doing[t].pc = pc /\ a \in doing[t].rest /\ GoTo(t, d)
      /\ (a = Origin \/ Origin \notin doing[t].rest)
  BY DEF Takes
<1>2. ServerTypes /\ Doing(doing[t])
  BY DEF ServerIInv, ServerTypes
<1>3. doing[t] \in [pc : {"closes", "stops"}, in : Acceptors \cup {NoThread},
                    rest : SUBSET Acceptors]
  BY <1>1, <1>2 DEF Doing
<1>4. /\ d \in [pc : {"closes", "stops"}, in : Acceptors \cup {NoThread},
                rest : SUBSET Acceptors]
      /\ d.pc = pc /\ d.rest = doing[t].rest \ {a}
  BY <1>1, <1>3
<1> HIDE DEF d
<1>5. Doing(d)
  BY <1>4 DEF Doing
<1>6. /\ doing' = [u \in ServerThreads |-> doing'[u]] /\ \A u \in ServerThreads : Doing(doing'[u])
      /\ doing'[t] = d /\ \A u \in ServerThreads : u # t => doing'[u] = doing[u]
  BY <1>1, <1>2, <1>5, GoesTo
<1>7. \A u \in ServerThreads : u # t => doing[u].pc \notin Held
  BY <1>1, Sole DEF Held
<1>8. Mutex'
  BY <1>1, <1>4, <1>6 DEF ServerIInv, Mutex
<1>9. StartWaits => StartWaits'
  BY <1>1, <1>6 DEF StartWaits
<1>10. QED
  BY <1>1, <1>4, <1>6, <1>7, <1>8, <1>9

LEMMA CloseKeeps ==
  ASSUME ServerIInv, Distinct, NEW t \in ServerThreads, NEW a \in Acceptors, Close(t, a)
  PROVE  ServerIInv'
<1>1. /\ Takes(t, "closes", a) /\ port' = [port EXCEPT ![a] = "closed"]
      /\ accepts' = [accepts EXCEPT ![a] = IF @ = "armed" THEN "none" ELSE @]
      /\ UNCHANGED <<lock, dups, thread, status, fatal, conns>>
  BY DEF Close
<1>2. /\ doing' = [u \in ServerThreads |-> doing'[u]] /\ \A u \in ServerThreads : Doing(doing'[u])
      /\ doing[t].pc = "closes" /\ doing'[t].pc = "closes"
      /\ doing'[t].rest = doing[t].rest \ {a} /\ a \in doing[t].rest
      /\ \A u \in ServerThreads : u # t => doing'[u] = doing[u]
      /\ \A u \in ServerThreads : u # t => doing[u].pc \notin Held /\ doing'[u].pc \notin Held
      /\ Mutex' /\ (StartWaits => StartWaits')
  BY <1>1, TakesOne
<1>3. /\ port' \in [Acceptors -> {"closed", "bare", "listening"}] /\ port'[a] = "closed"
      /\ \A b \in Acceptors : b # a => port'[b] = port[b]
      /\ accepts' \in [Acceptors -> {"none", "armed", "done"}]
      /\ \A b \in Acceptors : b # a => accepts'[b] = accepts[b]
  BY <1>1 DEF ServerIInv, ServerTypes
<1>4. ServerTypes'
  BY <1>1, <1>2, <1>3 DEF ServerIInv, ServerTypes
<1>5. Known'
  BY <1>1, <1>3 DEF ServerIInv, Known, Acceptors
<1>6. Closing'
  <2>1. \A w \in Workers : port'[w] # "closed" => w \in doing'[t].rest
    BY <1>2, <1>3 DEF ServerIInv, Closing, Acceptors
  <2>2. Origin \notin doing'[t].rest /\ port'[Origin] = "listening" => StartWaits'
    BY <1>2, <1>3 DEF ServerIInv, Closing, Acceptors
  <2>3. QED
    BY <1>2, <2>1, <2>2 DEF Closing, Held
<1>7. Stopping'
  BY <1>2 DEF Stopping, Held
<1>9. Heard'
  <2> SUFFICES ASSUME NEW b \in Acceptors, status[b], accepts'[b] = "none", fatal[b] = "no"
               PROVE  \E u \in ServerThreads :
                        \/ doing'[u].in = b
                        \/ doing'[u].pc = "closes" /\ b \notin doing'[u].rest
    BY <1>1 DEF Heard
  <2>1. CASE b = a
    BY <1>2, <2>1
  <2>2. CASE b # a
    <3>1. PICK u \in ServerThreads : \/ doing[u].in = b
                                     \/ doing[u].pc = "closes" /\ b \notin doing[u].rest
      BY <1>2, <1>3, <2>2 DEF ServerIInv, Heard, Held
    <3>2. CASE u = t
      <4>1. doing'[t].in = doing[t].in
        <5>1. doing[t] \in [pc : {"closes", "stops"}, in : Acceptors \cup {NoThread},
                            rest : SUBSET Acceptors]
          BY <1>2 DEF ServerIInv, ServerTypes, Doing
        <5>2. doing'[t] = [doing[t] EXCEPT !.rest = @ \ {a}]
          BY <1>1 DEF Takes, GoTo, ServerIInv, ServerTypes
        <5>3. QED
          BY <5>1, <5>2
      <4>2. QED
        BY <1>2, <3>1, <3>2, <4>1
    <3>3. CASE u # t
      BY <1>2, <3>1, <3>3
    <3>4. QED
      BY <3>2, <3>3
  <2>3. QED
    BY <2>1, <2>2
<1>10. QED
  BY <1>2, <1>4, <1>5, <1>6, <1>7, <1>9 DEF ServerIInv

LEMMA StopAcceptorKeeps ==
  ASSUME ServerIInv, Distinct, NEW t \in ServerThreads, NEW a \in Acceptors, StopAcceptor(t, a)
  PROVE  ServerIInv'
<1>1. /\ Takes(t, "stops", a) /\ port' = [port EXCEPT ![a] = "closed"]
      /\ status' = [status EXCEPT ![a] = FALSE]
      /\ accepts' = [accepts EXCEPT ![a] = "none"]
      /\ fatal' = [fatal EXCEPT ![a] = IF @ = "coming" THEN "no" ELSE @]
      /\ UNCHANGED <<lock, dups, thread, conns>>
  BY DEF StopAcceptor
<1>2. /\ doing' = [u \in ServerThreads |-> doing'[u]] /\ \A u \in ServerThreads : Doing(doing'[u])
      /\ doing[t].pc = "stops" /\ doing'[t].pc = "stops"
      /\ doing'[t].rest = doing[t].rest \ {a} /\ a \in doing[t].rest
      /\ (a = Origin \/ Origin \notin doing[t].rest)
      /\ \A u \in ServerThreads : u # t => doing'[u] = doing[u]
      /\ \A u \in ServerThreads : u # t => doing[u].pc \notin Held /\ doing'[u].pc \notin Held
      /\ Mutex' /\ (StartWaits => StartWaits')
  BY <1>1, TakesOne
<1>3. /\ port' \in [Acceptors -> {"closed", "bare", "listening"}] /\ port'[a] = "closed"
      /\ \A b \in Acceptors : b # a => port'[b] = port[b]
      /\ status' \in [Acceptors -> BOOLEAN] /\ ~status'[a]
      /\ \A b \in Acceptors : b # a => status'[b] = status[b]
  BY <1>1 DEF ServerIInv, ServerTypes
<1>4. /\ accepts' \in [Acceptors -> {"none", "armed", "done"}]
      /\ fatal' \in [Acceptors -> {"no", "coming", "told"}]
  BY <1>1 DEF ServerIInv, ServerTypes
<1>5. ServerTypes'
  BY <1>1, <1>2, <1>3, <1>4 DEF ServerIInv, ServerTypes
<1>6. Known'
  BY <1>1, <1>3 DEF ServerIInv, Known, Acceptors
<1>7. Closing'
  BY <1>2 DEF Closing, Held
<1>8. \A b \in Acceptors : status'[b] => b \in doing'[t].rest
  BY <1>2, <1>3 DEF ServerIInv, Stopping
<1>9. Stopping'
  <2>1. \A w \in Workers : port'[w] = "closed"
    BY <1>2, <1>3 DEF ServerIInv, Stopping, Acceptors
  <2>2. port'[Origin] = "listening" => StartWaits'
    BY <1>2, <1>3 DEF ServerIInv, Stopping, Acceptors
  <2>3. QED
    BY <1>2, <1>8, <2>1, <2>2 DEF Stopping, Held
<1>11. Heard'
  BY <1>2, <1>8 DEF Heard
<1>12. QED
  BY <1>2, <1>5, <1>6, <1>7, <1>9, <1>11 DEF ServerIInv

(* The phases of stop() follow one another. *)
LEMMA AllClosedKeeps ==
  ASSUME ServerIInv, Distinct, NEW t \in ServerThreads, AllClosed(t)
  PROVE  ServerIInv'
<1> DEFINE d == [pc |-> "stops", in |-> doing[t].in, rest |-> dups \cup {Origin}]
<1>1. /\ doing[t].pc = "closes" /\ doing[t].rest = {} /\ GoTo(t, d)
      /\ UNCHANGED <<lock, dups, thread, port, status, accepts, fatal, conns>>
  BY DEF AllClosed
<1>2. Doing(d) /\ d.in = doing[t].in /\ d.pc = "stops" /\ d.rest = dups \cup {Origin}
  <2>1. doing[t].in \in Acceptors \cup {NoThread} /\ dups \cup {Origin} \in SUBSET Acceptors
    BY DoingFields DEF ServerIInv, ServerTypes, Acceptors
  <2>2. QED
    BY <2>1 DEF Doing
<1> HIDE DEF d
<1>3. /\ doing' = [u \in ServerThreads |-> doing'[u]] /\ \A u \in ServerThreads : Doing(doing'[u])
      /\ doing'[t] = d /\ \A u \in ServerThreads : u # t => doing'[u] = doing[u]
  BY <1>1, <1>2, GoesTo DEF ServerIInv
<1>4. \A u \in ServerThreads : u # t => doing'[u].pc \notin Held
  BY <1>1, <1>3, Sole DEF Held
<1>5. ServerTypes'
  BY <1>1, <1>3 DEF ServerIInv, ServerTypes
<1>6. Mutex'
  BY <1>1, <1>2, <1>3 DEF ServerIInv, Mutex
<1>7. Known'
  BY <1>1 DEF ServerIInv, Known
<1>8. Closing'
  BY <1>2, <1>3, <1>4 DEF Closing, Held
<1>9. StartWaits => StartWaits'
  BY <1>1, <1>3 DEF StartWaits
<1>10. \A a \in Acceptors : status'[a] => a \in doing'[t].rest
  BY <1>1, <1>2, <1>3 DEF ServerIInv, Known, Acceptors
<1>11. Stopping'
  <2>1. \A w \in Workers : port'[w] = "closed"
    BY <1>1 DEF ServerIInv, Closing
  <2>2. port'[Origin] = "listening" => StartWaits'
    BY <1>1, <1>9 DEF ServerIInv, Closing
  <2>3. QED
    BY <1>2, <1>3, <1>4, <1>10, <2>1, <2>2 DEF Stopping, Held
<1>13. Heard'
  BY <1>2, <1>3, <1>10 DEF Heard
<1>14. QED
  BY <1>5, <1>6, <1>7, <1>8, <1>11, <1>13 DEF ServerIInv

LEMMA AllStoppedKeeps ==
  ASSUME ServerIInv, Distinct, NEW t \in ServerThreads, AllStopped(t)
  PROVE  ServerIInv'
<1> DEFINE d == At("joins", doing[t].in)
<1>1. /\ doing[t].pc = "stops" /\ doing[t].rest = {} /\ GoTo(t, d)
      /\ thread' = [w \in Workers |-> IF w \in dups /\ thread[w] = "running"
                                      THEN "stopping" ELSE thread[w]]
      /\ UNCHANGED <<lock, dups, port, status, accepts, fatal, conns>>
  BY DEF AllStopped
<1>2. Doing(d) /\ d.in = doing[t].in /\ d.pc = "joins"
  <2>1. doing[t].in \in Acceptors \cup {NoThread}
    BY DoingFields DEF ServerIInv, ServerTypes
  <2>2. QED
    BY <2>1 DEF Doing, At
<1> HIDE DEF d
<1>3. /\ doing' = [u \in ServerThreads |-> doing'[u]] /\ \A u \in ServerThreads : Doing(doing'[u])
      /\ doing'[t] = d /\ \A u \in ServerThreads : u # t => doing'[u] = doing[u]
  BY <1>1, <1>2, GoesTo DEF ServerIInv
<1>4. \A u \in ServerThreads : u # t => doing'[u].pc \notin Held
  BY <1>1, <1>3, Sole DEF Held
<1>5. /\ thread' \in [Workers -> {"none", "running", "stopping", "ended"}]
      /\ \A w \in Workers : thread'[w] = "none" <=> thread[w] = "none"
  BY <1>1 DEF ServerIInv, ServerTypes
<1>6. ServerTypes'
  BY <1>1, <1>3, <1>5 DEF ServerIInv, ServerTypes
<1>7. Mutex'
  BY <1>1, <1>2, <1>3 DEF ServerIInv, Mutex
<1>8. Known'
  BY <1>1, <1>5 DEF ServerIInv, Known
<1>9. Closing'
  BY <1>2, <1>3, <1>4 DEF Closing, Held
<1>10. StartWaits => StartWaits'
  BY <1>1, <1>3 DEF StartWaits
<1>11. \A a \in Acceptors : ~status'[a]
  BY <1>1 DEF ServerIInv, Stopping
<1>12. Stopping'
  BY <1>1, <1>2, <1>3, <1>4, <1>10, <1>11 DEF ServerIInv, Stopping, Held
<1>14. Heard'
  BY <1>11 DEF Heard
<1>15. QED
  BY <1>6, <1>7, <1>8, <1>9, <1>12, <1>14 DEF ServerIInv

LEMMA JoinAllKeeps ==
  ASSUME ServerIInv, Distinct, NEW t \in ServerThreads, JoinAll(t)
  PROVE  ServerIInv'
<1>1. /\ doing[t].pc = "joins" /\ dups' = {} /\ lock' = NoThread /\ Return(t)
      /\ thread' = [w \in Workers |-> IF w \in dups THEN "none" ELSE thread[w]]
      /\ fatal' = [a \in Acceptors |-> IF a \in dups THEN "no" ELSE fatal[a]]
      /\ UNCHANGED <<port, status, accepts>>
  BY DEF JoinAll
<1>2. /\ doing' = [u \in ServerThreads |-> doing'[u]] /\ \A u \in ServerThreads : Doing(doing'[u])
      /\ doing'[t].pc \in {"idle", "back"} /\ doing'[t].in = doing[t].in
      /\ \A u \in ServerThreads : u # t => doing'[u] = doing[u]
  BY <1>1, ReturnGoes DEF ServerIInv
<1>3. \A u \in ServerThreads : doing'[u].pc \notin Held
  <2>1. \A u \in ServerThreads : u # t => doing[u].pc \notin Held
    BY <1>1, Sole DEF Held
  <2>2. doing'[t].pc \notin Held
    BY <1>2 DEF Held
  <2>3. QED
    BY <1>2, <2>1, <2>2
<1>4. /\ thread' \in [Workers -> {"none", "running", "stopping", "ended"}]
      /\ fatal' \in [Acceptors -> {"no", "coming", "told"}]
  BY <1>1 DEF ServerIInv, ServerTypes
<1>5. ServerTypes'
  BY <1>1, <1>2, <1>4 DEF ServerIInv, ServerTypes
<1>6. Mutex'
  BY <1>1, <1>3 DEF Mutex, Held, Distinct
<1>7. Closing' /\ Stopping'
  BY <1>3 DEF Closing, Stopping, Held
<1>8. \A a \in Acceptors : ~status[a]
  BY <1>1 DEF ServerIInv, Stopping
<1>9. Known'
  BY <1>1, <1>8 DEF ServerIInv, Known, Stopping, Acceptors
<1>11. Heard'
  BY <1>1, <1>8 DEF Heard
<1>12. QED
  BY <1>5, <1>6, <1>7, <1>9, <1>11 DEF ServerIInv
-----------------------------------------------------------------------------
LEMMA ServerInitially == ASSUME Distinct, ServerInit PROVE ServerIInv
<1>1. Doing(Resting) /\ Resting.pc = "idle"
  BY DEF Doing, Resting
<1>2. ServerTypes
  BY <1>1 DEF ServerInit, ServerTypes
<1>3. \A t \in ServerThreads : doing[t].pc = "idle"
  BY <1>1 DEF ServerInit
<1>4. Mutex
  BY <1>3 DEF ServerInit, Mutex, Distinct
<1>5. Known /\ Closing /\ Stopping
  BY <1>3 DEF ServerInit, Known, Closing, Stopping, Acceptors
<1>6. Heard
  BY DEF ServerInit, Heard, Acceptors
<1>7. QED
  BY <1>2, <1>4, <1>5, <1>6 DEF ServerIInv

LEMMA ServerStepwise ==
  ASSUME ServerIInv, Distinct, [ServerNext]_server
  PROVE  ServerIInv'
<1>1. ASSUME NEW t \in ServerThreads, NEW op \in Began(NoThread), CallServer(t, op)
      PROVE  ServerIInv'
  BY <1>1, CallServerKeeps
<1>2. ASSUME NEW t \in ServerThreads, CallStep(t)
      PROVE  ServerIInv'
  BY <1>2, ListenKeeps, LockKeeps, AddKeeps, AllClosedKeeps, AllStoppedKeeps, JoinAllKeeps,
     CloseKeeps, StopAcceptorKeeps, BackKeeps, LeaveKeeps DEF CallStep
<1>3. ASSUME NEW a \in Acceptors, Completes(a)
      PROVE  ServerIInv'
  BY <1>3, CompletesKeeps
<1>4. ASSUME NEW t \in ServerThreads, NEW a \in Acceptors, Handle(t, a) \/ Fatal(t, a) \/ ConnEnds(t, a)
      PROVE  ServerIInv'
  BY <1>4, HandleKeeps, HandlersKeep
<1>5. CASE UNCHANGED server
  BY <1>5 DEF server, ServerIInv, ServerTypes, Mutex, Known, Closing, Stopping, Heard, StartWaits
<1>6. QED
  BY <1>1, <1>2, <1>3, <1>4, <1>5 DEF ServerNext

(* The invariant of the server, in every behaviour.                        *)
THEOREM ServerInvariance == ASSUME Distinct PROVE ServerSpec => []ServerIInv
<1>1. ServerIInv /\ [ServerNext]_server => ServerIInv'
  BY ServerStepwise
<1>2. QED
  BY <1>1, ServerInitially, PTL DEF ServerSpec

(* From the first acceptor that stop() stops to its end nobody can come in *)
(* but by an origin that another thread's start() has opened.              *)
THEOREM ClosedFirstHolds == ASSUME Distinct PROVE ServerSpec => []ClosedFirst
<1>1. ServerIInv => ClosedFirst
  BY DEF ServerIInv, Stopping, StartWaits, ClosedFirst, Acceptors
<1>2. QED
  BY <1>1, ServerInvariance, PTL

(* Between the calls a started acceptor accepts or its failure was told or *)
(* is about to be, and there is a thread for each acceptor in the list and *)
(* for no other.                                                           *)
THEOREM NeverDeafHolds == ASSUME Distinct PROVE ServerSpec => []NeverDeaf
<1>1. ASSUME Distinct, ServerIInv, Quiet
      PROVE  /\ \A a \in Acceptors : status[a] => accepts[a] # "none" \/ fatal[a] # "no"
             /\ \A w \in Workers : w \in dups <=> thread[w] # "none"
  <2>1. \A t \in ServerThreads : doing[t].pc = "idle" /\ doing[t].in = NoThread
    BY <1>1 DEF Quiet, Resting
  <2>2. \A a \in Acceptors : a # NoThread
    BY <1>1 DEF Distinct
  <2>3. QED
    BY <1>1, <2>1, <2>2 DEF ServerIInv, Known, Heard
<1>2. QED
  BY <1>1, ServerInvariance, PTL DEF NeverDeaf
=============================================================================
