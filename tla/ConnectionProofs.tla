-------------------------- MODULE ConnectionProofs --------------------------
(***************************************************************************)
(* Proofs about Connection, for any threads, addresses and bounds.  The    *)
(* steps are compositions of a few functions of the object: most lemmas    *)
(* say what one of these does to a good object, in any state.              *)
(***************************************************************************)
EXTENDS Connection, TLAPS

(* A session runs that nothing foreign had a part in. *)
Running(c) == c.status /\ c.id \notin c.spoiled

All(s, k) == \A i \in DOMAIN s : s[i] = k

Typed(c) == c \in Connections /\ (c.waits => c.out # <<>>)

(* What is in the object is of this session or one before it. *)
Past(c) ==
  /\ \A o \in c.ops : o.sess \in 1 .. c.id /\ o.life <= c.life
  /\ c.started \subseteq 1 .. c.id
  /\ \A k \in Sessions : k > c.id => c.shut[k] = 0

(* An object without a session holds nothing that was read; one whose last *)
(* session was clean has nothing to write, and nothing in flight.          *)
Silent(c) == ~c.status =>
  /\ c.blocks = <<>> /\ c.rd = Null
  /\ c.id \notin c.spoiled => c.out = <<>> /\ \A o \in c.ops : o.life # c.life

(* A session runs in the life it was started in, and was not told its end. *)
Alone(c) == c.status =>
  /\ c.id \in Sessions /\ c.shut[c.id] = 0
  /\ c.id \notin c.spoiled => c.id \in c.started /\ c.lives[c.id] = c.life

Ended(c) == \A k \in c.started : k \notin c.spoiled =>
  ((c.id # k \/ ~c.status) <=> c.shut[k] = 1)

Own(c) == c.id \notin c.spoiled => All(c.blocks, c.id) /\ All(c.out, c.id)

Good(c) == Typed(c) /\ Past(c) /\ Silent(c) /\ Alone(c) /\ Ended(c) /\ Own(c)

(* A session that runs after a step ran before it, and reads as before.    *)
Reading(c) == {o \in c.ops : o.kind = "read"}

Calm(c, d) == Running(d) =>
  /\ Running(c) /\ d.id = c.id /\ d.life = c.life /\ d.rd = c.rd
  /\ Reading(d) = Reading(c)

(* The read of the session that runs is in one place, with the system or   *)
(* with a thread, and was not canceled.                                    *)
Mine(c, o) == o.kind = "read" /\ o.sess = c.id /\ o.life = c.life

Here  == {o \in con.ops : Mine(con, o)}
There == {t \in Threads : at[t].pc = "entered" /\ Mine(con, at[t].op)}

Fits(o) == o.win = con.rd /\ o.res # "canceled"

Listening == Running(con) =>
  /\ con.rd # Null
  /\ \/ There = {} /\ \E o \in Here : Here = {o} /\ Fits(o)
     \/ Here = {} /\ \E t \in There : There = {t} /\ Fits(at[t].op)

(* Where a thread can be when the object is in session n. *)
Place(p, n) ==
  \/ p = Idle
  \/ p.pc = "entered" /\ p = Entered(p.op) /\ p.op \in Ops /\ p.op.sess \in 1 .. n
  \/ p.pc = "input" /\ p.sess \in 1 .. n
  \/ p.pc = "output" /\ p.sess \in 1 .. n /\ p.nil \in BOOLEAN

Placed == at = [t \in Threads |-> at[t]] /\ \A t \in Threads : Place(at[t], con.id)

IInv == Good(con) /\ Placed /\ Listening
-----------------------------------------------------------------------------
(* The fields of the object. *)
LEMMA Fields ==
  ASSUME NEW c \in Connections
  PROVE  /\ c.open \in BOOLEAN /\ c.id \in 0 .. MaxSessions /\ c.status \in BOOLEAN
         /\ c.life \in Nat /\ c.rd \in Addresses \cup {Null}
         /\ c.blocks \in Seq(0 .. MaxSessions) /\ c.waits \in BOOLEAN
         /\ c.out \in Seq(Sessions) /\ c.ops \in SUBSET Ops
         /\ c.started \in SUBSET Sessions /\ c.shut \in [Sessions -> 0 .. 2]
         /\ c.spoiled \in SUBSET Sessions /\ c.lives \in [Sessions -> Nat]
         /\ MaxSessions \in Nat
BY ConnectionBounds DEF Connections

(* One field of the object is set. *)
LEMMA SetSpoiled ==
  ASSUME NEW c \in Connections, NEW v \in SUBSET Sessions,
         NEW d, d = [c EXCEPT !.spoiled = v]
  PROVE  /\ d \in Connections /\ d.spoiled = v
         /\ d.open = c.open /\ d.id = c.id /\ d.status = c.status /\ d.life = c.life
         /\ d.rd = c.rd /\ d.blocks = c.blocks /\ d.waits = c.waits /\ d.out = c.out
         /\ d.ops = c.ops /\ d.started = c.started /\ d.shut = c.shut /\ d.lives = c.lives
BY DEF Connections

LEMMA SetShut ==
  ASSUME NEW c \in Connections, NEW v \in [Sessions -> 0 .. 2],
         NEW d, d = [c EXCEPT !.shut = v]
  PROVE  /\ d \in Connections /\ d.shut = v
         /\ d.open = c.open /\ d.id = c.id /\ d.status = c.status /\ d.life = c.life
         /\ d.rd = c.rd /\ d.blocks = c.blocks /\ d.waits = c.waits /\ d.out = c.out
         /\ d.ops = c.ops /\ d.started = c.started /\ d.spoiled = c.spoiled /\ d.lives = c.lives
BY DEF Connections

LEMMA SetStatus ==
  ASSUME NEW b \in Connections, NEW e, e = [b EXCEPT !.status = TRUE]
  PROVE  /\ e \in Connections /\ e.status = TRUE /\ e.started = b.started
         /\ e.id = b.id /\ e.life = b.life
         /\ e.rd = b.rd /\ e.blocks = b.blocks /\ e.waits = b.waits /\ e.out = b.out
         /\ e.ops = b.ops /\ e.shut = b.shut /\ e.spoiled = b.spoiled /\ e.lives = b.lives
BY DEF Connections

LEMMA SetStarted ==
  ASSUME NEW b \in Connections, NEW v \in SUBSET Sessions,
         NEW d, d = [b EXCEPT !.started = v]
  PROVE  /\ d \in Connections /\ d.status = b.status /\ d.started = v
         /\ d.id = b.id /\ d.life = b.life
         /\ d.rd = b.rd /\ d.blocks = b.blocks /\ d.waits = b.waits /\ d.out = b.out
         /\ d.ops = b.ops /\ d.shut = b.shut /\ d.spoiled = b.spoiled /\ d.lives = b.lives
BY DEF Connections

(* A handler of something foreign spoils the session it meets. *)
LEMMA SpoilDoes ==
  ASSUME NEW c \in Connections, NEW f \in BOOLEAN
  PROVE  LET d == Spoil(c, f) IN
         /\ d \in Connections
         /\ d.spoiled = IF f /\ c.id # 0 THEN c.spoiled \cup {c.id} ELSE c.spoiled
         /\ d.open = c.open /\ d.id = c.id /\ d.status = c.status /\ d.life = c.life
         /\ d.rd = c.rd /\ d.blocks = c.blocks /\ d.waits = c.waits /\ d.out = c.out
         /\ d.ops = c.ops /\ d.started = c.started /\ d.shut = c.shut /\ d.lives = c.lives
<1>1. c.id # 0 => c.spoiled \cup {c.id} \in SUBSET Sessions
  BY Fields DEF Sessions
<1>2. QED
  BY <1>1, SetSpoiled DEF Spoil

LEMMA ToldDoes ==
  ASSUME NEW c \in Connections
  PROVE  LET d == Told(c) IN
         /\ d \in Connections
         /\ \A k \in Sessions : d.shut[k] =
              IF k = c.id THEN IF c.shut[k] = 2 THEN 2 ELSE c.shut[k] + 1 ELSE c.shut[k]
         /\ d.open = c.open /\ d.id = c.id /\ d.status = c.status /\ d.life = c.life
         /\ d.rd = c.rd /\ d.blocks = c.blocks /\ d.waits = c.waits /\ d.out = c.out
         /\ d.ops = c.ops /\ d.started = c.started /\ d.spoiled = c.spoiled /\ d.lives = c.lives
<1> DEFINE v == [c.shut EXCEPT ![c.id] = IF @ = 2 THEN 2 ELSE @ + 1]
<1>1. c.shut \in [Sessions -> 0 .. 2] /\ (c.id # 0 => c.id \in Sessions) /\ 0 \notin Sessions
  BY Fields DEF Sessions
<1>2. CASE c.id = 0
  BY <1>1, <1>2 DEF Told
<1>3. CASE c.id # 0
  <2>1. v \in [Sessions -> 0 .. 2]
    BY <1>1, <1>3
  <2>2. \A k \in Sessions : v[k] =
          IF k = c.id THEN IF c.shut[k] = 2 THEN 2 ELSE c.shut[k] + 1 ELSE c.shut[k]
    BY <1>1, <1>3
  <2>3. Told(c) = [c EXCEPT !.shut = v]
    BY <1>3 DEF Told, Connections
  <2> HIDE DEF v
  <2>4. QED
    BY <2>1, <2>2, <2>3, SetShut
<1>4. QED
  BY <1>2, <1>3

(* The operations of d are those of c, with other results. *)
Same(c, d) == \A o \in d.ops : \E p \in c.ops :
  o.kind = p.kind /\ o.life = p.life /\ o.win = p.win /\ o.sess = p.sess

LEMMA ClosedDoes ==
  ASSUME NEW c \in Connections
  PROVE  LET d == Closed(c) IN
         /\ d \in Connections /\ Same(c, d) /\ d.open = FALSE
         /\ d.id = c.id /\ d.status = c.status /\ d.life = c.life
         /\ d.rd = c.rd /\ d.blocks = c.blocks /\ d.waits = c.waits /\ d.out = c.out
         /\ d.started = c.started /\ d.shut = c.shut /\ d.spoiled = c.spoiled
         /\ d.lives = c.lives
<1> DEFINE v == {IF o.res = "pending" THEN [o EXCEPT !.res = "canceled"] ELSE o : o \in c.ops}
<1>1. \A o \in Ops : [o EXCEPT !.res = "canceled"] \in Ops
  BY DEF Ops
<1>2. v \in SUBSET Ops
  BY <1>1, Fields
<1>3. \A o \in v : \E p \in c.ops :
        o.kind = p.kind /\ o.life = p.life /\ o.win = p.win /\ o.sess = p.sess
  <2> SUFFICES ASSUME NEW p \in c.ops,
                      NEW o, o = IF p.res = "pending" THEN [p EXCEPT !.res = "canceled"] ELSE p
               PROVE  o.kind = p.kind /\ o.life = p.life /\ o.win = p.win /\ o.sess = p.sess
    OBVIOUS
  <2>1. p \in Ops
    BY Fields
  <2>2. QED
    BY <2>1 DEF Ops
<1>4. Closed(c) = [c EXCEPT !.open = FALSE, !.ops = v]
  BY DEF Closed, Connections
<1> HIDE DEF v
<1>5. QED
  BY <1>2, <1>3, <1>4 DEF Connections, Same

LEMMA RenewedDoes ==
  ASSUME NEW c \in Connections
  PROVE  LET d == Renewed(c) IN
         /\ d \in Connections /\ d.life = c.life + 1 /\ d.rd = Null /\ d.blocks = <<>>
         /\ d.waits = FALSE /\ d.out = <<>>
         /\ d.open = c.open /\ d.id = c.id /\ d.status = c.status
         /\ d.ops = c.ops /\ d.started = c.started /\ d.shut = c.shut
         /\ d.spoiled = c.spoiled /\ d.lives = c.lives
<1> DEFINE l  == c.life + 1
           e1 == [c EXCEPT !.life = l]
           e2 == [e1 EXCEPT !.rd = Null, !.blocks = <<>>]
           e3 == [e2 EXCEPT !.waits = FALSE, !.out = <<>>]
<1>1. l \in Nat
  BY Fields
<1>2. /\ Null \in Addresses \cup {Null} /\ <<>> \in Seq(0 .. MaxSessions)
      /\ FALSE \in BOOLEAN /\ <<>> \in Seq(Sessions)
  OBVIOUS
<1>3. Renewed(c) = e3
  BY DEF Renewed, Cleared, Connections
<1>4. /\ e1 \in Connections /\ e1.life = c.life + 1
      /\ e1.open = c.open /\ e1.id = c.id /\ e1.status = c.status
      /\ e1.ops = c.ops /\ e1.started = c.started /\ e1.shut = c.shut
      /\ e1.spoiled = c.spoiled /\ e1.lives = c.lives
  <2> HIDE DEF l
  <2>1. QED
    BY <1>1 DEF Connections, l
<1> HIDE DEF e1
<1>5. /\ e2 \in Connections /\ e2.life = c.life + 1 /\ e2.rd = Null /\ e2.blocks = <<>>
      /\ e2.open = c.open /\ e2.id = c.id /\ e2.status = c.status
      /\ e2.ops = c.ops /\ e2.started = c.started /\ e2.shut = c.shut
      /\ e2.spoiled = c.spoiled /\ e2.lives = c.lives
  BY <1>2, <1>4 DEF Connections
<1> HIDE DEF e2
<1>6. QED
  BY <1>2, <1>3, <1>5 DEF Connections

LEMMA StoppedDoes ==
  ASSUME NEW c \in Connections
  PROVE  LET d == Stopped(c) IN
         /\ d \in Connections /\ d.open = FALSE /\ d.status = FALSE /\ d.life = c.life + 1
         /\ d.rd = Null /\ d.blocks = <<>> /\ d.waits = FALSE /\ d.out = <<>>
         /\ \A k \in Sessions : d.shut[k] =
              IF k = c.id THEN IF c.shut[k] = 2 THEN 2 ELSE c.shut[k] + 1 ELSE c.shut[k]
         /\ d.id = c.id /\ Same(c, d) /\ d.started = c.started
         /\ d.spoiled = c.spoiled /\ d.lives = c.lives
<1> DEFINE e1 == Told(c)
           e2 == Closed(e1)
           e3 == Renewed(e2)
<1>1. /\ e1 \in Connections /\ e1.life = c.life /\ e1.id = c.id
      /\ \A k \in Sessions : e1.shut[k] =
           IF k = c.id THEN IF c.shut[k] = 2 THEN 2 ELSE c.shut[k] + 1 ELSE c.shut[k]
      /\ e1.ops = c.ops /\ e1.started = c.started /\ e1.spoiled = c.spoiled
      /\ e1.lives = c.lives
  BY ToldDoes
<1>2. Stopped(c) = [e3 EXCEPT !.status = FALSE]
  BY DEF Stopped
<1> HIDE DEF e1
<1>3. /\ e2 \in Connections /\ Same(e1, e2) /\ e2.open = FALSE
      /\ e2.id = c.id /\ e2.life = c.life /\ e2.started = c.started /\ e2.shut = e1.shut
      /\ e2.spoiled = c.spoiled /\ e2.lives = c.lives
  BY <1>1, ClosedDoes
<1> HIDE DEF e2
<1>4. /\ e3 \in Connections /\ e3.life = c.life + 1 /\ e3.rd = Null /\ e3.blocks = <<>>
      /\ e3.waits = FALSE /\ e3.out = <<>> /\ e3.open = FALSE /\ e3.id = c.id
      /\ e3.ops = e2.ops /\ e3.started = c.started /\ e3.shut = e1.shut
      /\ e3.spoiled = c.spoiled /\ e3.lives = c.lives
  <2>1. /\ e3 \in Connections /\ e3.life = e2.life + 1 /\ e3.rd = Null /\ e3.blocks = <<>>
        /\ e3.waits = FALSE /\ e3.out = <<>> /\ e3.open = e2.open /\ e3.id = e2.id
        /\ e3.ops = e2.ops /\ e3.started = e2.started /\ e3.shut = e2.shut
        /\ e3.spoiled = e2.spoiled /\ e3.lives = e2.lives
    BY <1>3, RenewedDoes
  <2> HIDE DEF e3
  <2>2. QED
    BY <1>3, <2>1
<1> DEFINE d == [e3 EXCEPT !.status = FALSE]
<1> HIDE DEF e3
<1>5. /\ d \in Connections /\ d.life = c.life + 1 /\ d.rd = Null /\ d.blocks = <<>>
      /\ d.waits = FALSE /\ d.out = <<>> /\ d.open = FALSE /\ d.id = c.id /\ d.status = FALSE
      /\ d.ops = e2.ops /\ d.started = c.started /\ d.shut = e1.shut
      /\ d.spoiled = c.spoiled /\ d.lives = c.lives
  BY <1>4 DEF Connections
<1> HIDE DEF d
<1>6. Same(c, d)
  BY <1>1, <1>3, <1>5 DEF Same
<1>7. QED
  BY <1>1, <1>2, <1>5, <1>6 DEF d
-----------------------------------------------------------------------------
(* What is called in a session, or meets one that it spoils. *)
Allowed(c) == c.status \/ c.id = 0 \/ c.id \in c.spoiled

LEMMA SpoilGood ==
  ASSUME NEW c, Good(c), NEW f \in BOOLEAN
  PROVE  LET d == Spoil(c, f) IN
         /\ Good(d) /\ Calm(c, d) /\ d.status = c.status /\ d.id = c.id /\ d.life = c.life
         /\ d.rd = c.rd /\ d.ops = c.ops /\ c.spoiled \subseteq d.spoiled
         /\ f => Allowed(d) /\ (c.id # 0 => c.id \in d.spoiled)
<1> DEFINE d == Spoil(c, f)
<1>1. /\ c \in Connections /\ d \in Connections
      /\ d.spoiled = IF f /\ c.id # 0 THEN c.spoiled \cup {c.id} ELSE c.spoiled
      /\ d.open = c.open /\ d.id = c.id /\ d.status = c.status /\ d.life = c.life
      /\ d.rd = c.rd /\ d.blocks = c.blocks /\ d.waits = c.waits /\ d.out = c.out
      /\ d.ops = c.ops /\ d.started = c.started /\ d.shut = c.shut /\ d.lives = c.lives
  BY SpoilDoes DEF Good, Typed
<1> HIDE DEF d
<1>2. c.spoiled \subseteq d.spoiled
  BY <1>1
<1>3. Typed(d) /\ Past(d) /\ Silent(d)
  BY <1>1, <1>2 DEF Good, Typed, Past, Silent
<1>4. Alone(d) /\ Ended(d) /\ Own(d)
  BY <1>1, <1>2 DEF Good, Alone, Ended, Own
<1>5. Calm(c, d)
  BY <1>1, <1>2 DEF Calm, Running, Reading
<1>6. f => Allowed(d) /\ (c.id # 0 => c.id \in d.spoiled)
  BY <1>1 DEF Allowed
<1>7. QED
  BY <1>1, <1>2, <1>3, <1>4, <1>5, <1>6 DEF Good, d

LEMMA StoppedGood ==
  ASSUME NEW c, Good(c), Allowed(c)
  PROVE  LET d == Stopped(c) IN
         /\ Good(d) /\ Calm(c, d) /\ ~d.status /\ d.id = c.id /\ d.spoiled = c.spoiled
<1> DEFINE d == Stopped(c)
<1>1. /\ c \in Connections /\ d \in Connections
      /\ d.status = FALSE /\ d.life = c.life + 1
      /\ d.rd = Null /\ d.blocks = <<>> /\ d.waits = FALSE /\ d.out = <<>>
      /\ \A k \in Sessions : d.shut[k] =
           IF k = c.id THEN IF c.shut[k] = 2 THEN 2 ELSE c.shut[k] + 1 ELSE c.shut[k]
      /\ d.id = c.id /\ Same(c, d) /\ d.started = c.started
      /\ d.spoiled = c.spoiled /\ d.lives = c.lives
  BY StoppedDoes DEF Good, Typed
<1> HIDE DEF d
<1>2. /\ c.life \in Nat /\ c.started \in SUBSET Sessions /\ c.id \in 0 .. MaxSessions
      /\ c.ops \in SUBSET Ops
  BY <1>1, Fields
<1>3. \A o \in d.ops : o.sess \in 1 .. c.id /\ o.life <= c.life /\ o.life \in Nat
  <2> SUFFICES ASSUME NEW o \in d.ops
               PROVE  o.sess \in 1 .. c.id /\ o.life <= c.life /\ o.life \in Nat
    OBVIOUS
  <2>1. PICK p \in c.ops : o.sess = p.sess /\ o.life = p.life
    BY <1>1 DEF Same
  <2>2. p.life \in Nat
    BY <1>2 DEF Ops
  <2>3. QED
    BY <2>1, <2>2 DEF Good, Past
<1>4. Past(d)
  <2>1. \A k \in Sessions : k > d.id => d.shut[k] = 0
    BY <1>1, <1>2 DEF Good, Past, Sessions
  <2>2. QED
    BY <1>1, <1>2, <1>3, <2>1 DEF Good, Past
<1>5. Silent(d)
  BY <1>1, <1>2, <1>3 DEF Silent
<1>6. Ended(d)
  <2> SUFFICES ASSUME NEW k \in d.started, k \notin d.spoiled
               PROVE  d.shut[k] = 1
    BY <1>1 DEF Ended
  <2>1. k \in c.started /\ k \notin c.spoiled /\ k \in Sessions
    BY <1>1, <1>2
  <2>2. CASE k = c.id
    <3>1. c.id # 0
      BY <2>1, <2>2 DEF Sessions
    <3>2. c.status
      BY <2>1, <2>2, <3>1 DEF Allowed
    <3>3. c.shut[k] = 0
      BY <2>2, <3>2 DEF Good, Alone
    <3>4. QED
      BY <1>1, <2>1, <2>2, <3>3
  <2>3. CASE k # c.id
    BY <1>1, <2>1, <2>3 DEF Good, Ended
  <2>4. QED
    BY <2>2, <2>3
<1>7. Typed(d) /\ Alone(d) /\ Own(d)
  BY <1>1 DEF Typed, Alone, Own, All
<1>8. Calm(c, d)
  BY <1>1 DEF Calm, Running
<1>9. QED
  BY <1>1, <1>4, <1>5, <1>6, <1>7, <1>8 DEF Good, d

(* An operation is begun. *)
LEMMA SomeGood ==
  ASSUME NEW c, Good(c), Allowed(c), c.id \in Sessions,
         NEW kind \in {"read", "write"}, NEW win \in Addresses \cup {Null}
  PROVE  LET d == Some(c, kind, win) IN
         /\ Good(d) /\ d.id = c.id /\ d.status = c.status /\ d.life = c.life
         /\ d.rd = c.rd /\ d.spoiled = c.spoiled
         /\ \E o \in Ops : /\ d.ops = c.ops \cup {o} /\ o.kind = kind /\ o.win = win
                           /\ o.sess = c.id /\ o.life = c.life /\ o.res # "canceled"
<1> DEFINE o == [kind |-> kind, life |-> c.life, win |-> win, sess |-> c.id,
                 res |-> IF c.open THEN "pending" ELSE "error"]
           v == c.ops \cup {o}
           d == [c EXCEPT !.ops = v]
<1>1. /\ c \in Connections /\ c.life \in Nat /\ c.id \in 0 .. MaxSessions
      /\ c.ops \in SUBSET Ops /\ c.open \in BOOLEAN /\ c.status \in BOOLEAN
  BY Fields DEF Good, Typed
<1>2. /\ o \in Ops /\ o.kind = kind /\ o.win = win /\ o.sess = c.id /\ o.life = c.life
      /\ o.res # "canceled"
  BY <1>1 DEF Ops
<1>3. Some(c, kind, win) = d
  BY <1>1 DEF Some, Connections
<1> HIDE DEF o
<1>4. v \in SUBSET Ops
  BY <1>1, <1>2
<1>5. /\ d \in Connections /\ d.ops = c.ops \cup {o}
      /\ d.id = c.id /\ d.status = c.status /\ d.life = c.life
      /\ d.rd = c.rd /\ d.blocks = c.blocks /\ d.waits = c.waits /\ d.out = c.out
      /\ d.started = c.started /\ d.shut = c.shut /\ d.spoiled = c.spoiled
      /\ d.lives = c.lives
  <2> HIDE DEF v
  <2>1. QED
    BY <1>1, <1>4 DEF Connections, v
<1> HIDE DEF d
<1>6. Past(d)
  <2>1. o.sess \in 1 .. d.id /\ o.life <= d.life
    BY <1>1, <1>2, <1>5 DEF Sessions
  <2>2. QED
    BY <1>5, <2>1 DEF Good, Past
<1>7. Silent(d)
  <2>1. c.id # 0
    BY DEF Sessions
  <2>2. QED
    BY <1>5, <2>1 DEF Good, Silent, Allowed
<1>8. Typed(d) /\ Alone(d) /\ Ended(d) /\ Own(d)
  BY <1>5 DEF Good, Typed, Alone, Ended, Own
<1>9. QED
  BY <1>2, <1>3, <1>5, <1>6, <1>7, <1>8 DEF Good

(* The next read is begun, or the session is spoiled. *)
LEMMA MoreGood ==
  ASSUME NEW c, Good(c), NEW a \in Addresses, NEW overflow \in BOOLEAN
  PROVE  LET d == More(c, a, overflow) IN
         /\ Good(d) /\ d.id = c.id /\ (d.status => c.status)
         /\ Running(d) =>
              /\ Running(c) /\ d.life = c.life /\ c.rd = Null /\ d.rd = a
              /\ \E o \in Ops : d.ops = c.ops \cup {o} /\ Mine(d, o) /\ o.win = a
                                /\ o.res # "canceled"
<1> DEFINE d == More(c, a, overflow)
<1>1. c \in Connections /\ c.status \in BOOLEAN
  BY Fields DEF Good, Typed
<1>2. CASE ~c.status
  BY <1>2 DEF More, Running
<1> DEFINE e == Stopped(Spoil(c, TRUE))
<1>3. ASSUME c.status, NEW win \in Addresses \cup {Null}, d = Some(e, "read", win)
      PROVE  Good(d) /\ d.id = c.id /\ ~d.status
  <2>1. Good(Spoil(c, TRUE)) /\ Allowed(Spoil(c, TRUE)) /\ Spoil(c, TRUE).id = c.id
        /\ Spoil(c, TRUE).status /\ (c.id # 0 => c.id \in Spoil(c, TRUE).spoiled)
    BY <1>3, SpoilGood
  <2>2. Good(e) /\ ~e.status /\ e.id = c.id /\ e.spoiled = Spoil(c, TRUE).spoiled
    BY <2>1, StoppedGood
  <2>3. c.id \in Sessions
    BY <1>3 DEF Good, Alone
  <2>4. c.id \in Spoil(c, TRUE).spoiled
    <3>1. MaxSessions \in Nat
      BY ConnectionBounds
    <3>2. c.id # 0
      BY <2>3, <3>1 DEF Sessions
    <3>3. QED
      BY <2>1, <3>2
  <2> HIDE DEF d, e
  <2>5. Allowed(e)
    BY <2>2, <2>4 DEF Allowed
  <2>6. QED
    BY <1>3, <2>2, <2>3, <2>5, SomeGood
<1>4. CASE c.status /\ c.rd # Null
  <2>1. d = Some(e, "read", Null)
    BY <1>4 DEF More
  <2>2. QED
    BY <1>3, <1>4, <2>1 DEF Running
<1>5. CASE c.status /\ c.rd = Null /\ overflow
  <2>1. d = Some(e, "read", a)
    BY <1>5 DEF More
  <2>2. QED
    BY <1>3, <1>5, <2>1 DEF Running
<1>6. CASE c.status /\ c.rd = Null /\ ~overflow
  <2> DEFINE b == [c EXCEPT !.rd = a]
  <2>1. d = Some(b, "read", a)
    BY <1>6 DEF More
  <2>2. /\ b \in Connections /\ b.rd = a
        /\ b.id = c.id /\ b.status = c.status /\ b.life = c.life
        /\ b.blocks = c.blocks /\ b.waits = c.waits /\ b.out = c.out /\ b.ops = c.ops
        /\ b.started = c.started /\ b.shut = c.shut /\ b.spoiled = c.spoiled
        /\ b.lives = c.lives
    BY <1>1 DEF Connections
  <2> HIDE DEF b, d
  <2>3. Good(b)
    <3>1. Typed(b) /\ Past(b) /\ Silent(b)
      BY <1>6, <2>2 DEF Good, Typed, Past, Silent
    <3>2. Alone(b) /\ Ended(b) /\ Own(b)
      BY <2>2 DEF Good, Alone, Ended, Own
    <3>3. QED
      BY <3>1, <3>2 DEF Good
  <2>4. Allowed(b) /\ b.id \in Sessions
    BY <1>6, <2>2 DEF Allowed, Good, Alone
  <2>5. /\ Good(d) /\ d.id = b.id /\ d.status = b.status /\ d.life = b.life
        /\ d.rd = b.rd /\ d.spoiled = b.spoiled
        /\ \E o \in Ops : /\ d.ops = b.ops \cup {o} /\ o.kind = "read" /\ o.win = a
                          /\ o.sess = b.id /\ o.life = b.life /\ o.res # "canceled"
    BY <2>1, <2>3, <2>4, SomeGood
  <2>6. QED
    BY <1>6, <2>2, <2>5 DEF Running, Mine, d
<1>7. QED
  BY <1>1, <1>2, <1>4, <1>5, <1>6

(* Sequences of one session's blocks. *)
LEMMA AllAppend ==
  ASSUME NEW S, NEW s \in Seq(S), NEW n \in Nat, NEW k, All(s, k)
  PROVE  All(s \o [i \in 1 .. n |-> k], k)
<1> DEFINE u == [i \in 1 .. n |-> k]
           w == s \o u
<1>1. u \in Seq({k}) /\ Len(u) = n /\ \A i \in 1 .. n : u[i] = k
  OBVIOUS
<1>2. s \in Seq(S \cup {k}) /\ u \in Seq(S \cup {k})
  OBVIOUS
<1> HIDE DEF u
<1>3. /\ DOMAIN w = 1 .. Len(s) + n /\ Len(s) \in Nat /\ DOMAIN s = 1 .. Len(s)
      /\ \A i \in 1 .. Len(s) + n : w[i] = IF i <= Len(s) THEN s[i] ELSE u[i - Len(s)]
  BY <1>1, <1>2
<1> HIDE DEF w
<1>4. ASSUME NEW i \in 1 .. Len(s) + n
      PROVE  w[i] = k
  <2>1. CASE i <= Len(s)
    BY <1>3, <2>1 DEF All
  <2>2. CASE i > Len(s)
    <3>1. i - Len(s) \in 1 .. n
      BY <1>3, <2>2
    <3>2. QED
      BY <1>1, <1>3, <2>2, <3>1
  <2>3. QED
    BY <1>3, <2>1, <2>2
<1>5. QED
  BY <1>3, <1>4 DEF All, w, u

LEMMA AllTail ==
  ASSUME NEW S, NEW s \in Seq(S), s # <<>>, NEW k, All(s, k)
  PROVE  Tail(s) \in Seq(S) /\ All(Tail(s), k)
<1>1. /\ Tail(s) \in Seq(S) /\ Len(s) \in Nat /\ DOMAIN s = 1 .. Len(s)
      /\ DOMAIN Tail(s) = 1 .. Len(s) - 1
      /\ \A i \in 1 .. Len(s) - 1 : Tail(s)[i] = s[i + 1]
  OBVIOUS
<1>2. \A i \in 1 .. Len(s) - 1 : i + 1 \in 1 .. Len(s)
  BY <1>1
<1>3. QED
  BY <1>1, <1>2 DEF All

LEMMA AllNext ==
  ASSUME NEW S, NEW s \in Seq(S), NEW k \in S, All(s, k)
  PROVE  All(Append(s, k), k)
<1>1. /\ Len(s) \in Nat /\ DOMAIN s = 1 .. Len(s) /\ DOMAIN Append(s, k) = 1 .. Len(s) + 1
      /\ \A i \in 1 .. Len(s) + 1 : Append(s, k)[i] = IF i <= Len(s) THEN s[i] ELSE k
  OBVIOUS
<1>2. QED
  BY <1>1 DEF All
-----------------------------------------------------------------------------
(* The handler or call of session k meets the object. *)
LEMMA MetGood ==
  ASSUME NEW c, Good(c), NEW l, NEW k \in 1 .. c.id
  PROVE  LET d == Met(c, l, k) IN
         /\ Good(d) /\ Calm(c, d) /\ d.status = c.status /\ d.id = c.id /\ d.life = c.life
         /\ d.rd = c.rd /\ d.ops = c.ops
         /\ (d.status /\ d.life = l /\ d.id = k) \/ d.id \in d.spoiled
<1> DEFINE f == ~(c.status /\ c.life = l /\ c.id = k)
           d == Spoil(c, f)
<1>1. f \in BOOLEAN /\ Met(c, l, k) = d
  BY DEF Met
<1>2. c.id # 0
  BY Fields DEF Good, Typed
<1> HIDE DEF f
<1>3. /\ Good(d) /\ Calm(c, d) /\ d.status = c.status /\ d.id = c.id /\ d.life = c.life
      /\ d.rd = c.rd /\ d.ops = c.ops
      /\ f => c.id \in d.spoiled
  BY <1>1, <1>2, SpoilGood
<1> HIDE DEF d
<1>4. QED
  BY <1>1, <1>3 DEF f

(* What was read is in the buffer, if the buffer waits for this read. *)
LEMMA ConfirmedGood ==
  ASSUME NEW c, Good(c), NEW o, NEW n \in Nat,
         (c.status /\ o.sess = c.id) \/ c.id \in c.spoiled
  PROVE  LET d == Confirmed(c, o, n) IN
         /\ Good(d) /\ d.id = c.id /\ d.status = c.status /\ d.life = c.life
         /\ d.ops = c.ops /\ d.spoiled = c.spoiled
         /\ d.rd = IF c.rd = o.win THEN Null ELSE c.rd
<1>1. /\ c \in Connections /\ c.blocks \in Seq(0 .. MaxSessions) /\ c.id \in 0 .. MaxSessions
      /\ 0 \in 0 .. MaxSessions
  BY Fields DEF Good, Typed
<1>2. CASE c.rd = Null \/ c.rd # o.win
  BY <1>2 DEF Confirmed
<1>3. CASE ~(c.rd = Null \/ c.rd # o.win)
  <2> DEFINE k == IF o.sess = c.id THEN c.id ELSE 0
             s == c.blocks \o [i \in 1 .. n |-> k]
             d == [c EXCEPT !.rd = Null, !.blocks = s]
  <2>1. Confirmed(c, o, n) = d
    BY <1>1, <1>3 DEF Confirmed, Connections
  <2>2. s \in Seq(0 .. MaxSessions)
    <3>1. k \in 0 .. MaxSessions
      BY <1>1
    <3> HIDE DEF k
    <3>2. [i \in 1 .. n |-> k] \in Seq(0 .. MaxSessions)
      BY <3>1
    <3>3. QED
      BY <1>1, <3>2
  <2>3. c.status
    BY <1>3 DEF Good, Silent
  <2>4. c.id \notin c.spoiled => All(s, c.id)
    <3> SUFFICES ASSUME c.id \notin c.spoiled
                 PROVE  All(s, c.id)
      OBVIOUS
    <3>1. k = c.id /\ All(c.blocks, c.id)
      BY DEF Good, Own
    <3> HIDE DEF k
    <3>2. QED
      BY <1>1, <3>1, AllAppend
  <2> HIDE DEF s
  <2>5. /\ d \in Connections /\ d.rd = Null /\ d.blocks = s
        /\ d.id = c.id /\ d.status = c.status /\ d.life = c.life
        /\ d.waits = c.waits /\ d.out = c.out /\ d.ops = c.ops
        /\ d.started = c.started /\ d.shut = c.shut /\ d.spoiled = c.spoiled
        /\ d.lives = c.lives
    BY <1>1, <2>2 DEF Connections
  <2> HIDE DEF d
  <2>6. Typed(d) /\ Past(d) /\ Silent(d)
    BY <2>3, <2>5 DEF Good, Typed, Past, Silent
  <2>7. Alone(d) /\ Ended(d) /\ Own(d)
    BY <2>4, <2>5 DEF Good, Alone, Ended, Own
  <2>8. QED
    BY <1>3, <2>1, <2>5, <2>6, <2>7 DEF Good
<1>4. QED
  BY <1>2, <1>3

LEMMA RolledBackGood ==
  ASSUME NEW c, Good(c)
  PROVE  LET d == RolledBack(c) IN
         /\ Good(d) /\ d.id = c.id /\ d.status = c.status /\ d.life = c.life
         /\ d.ops = c.ops /\ d.spoiled = c.spoiled /\ d.rd = Null
<1> DEFINE d == [c EXCEPT !.rd = Null]
<1>1. c \in Connections
  BY DEF Good, Typed
<1>2. /\ d \in Connections /\ d.rd = Null /\ d.blocks = c.blocks
      /\ d.id = c.id /\ d.status = c.status /\ d.life = c.life
      /\ d.waits = c.waits /\ d.out = c.out /\ d.ops = c.ops
      /\ d.started = c.started /\ d.shut = c.shut /\ d.spoiled = c.spoiled
      /\ d.lives = c.lives
  BY <1>1 DEF Connections
<1>3. RolledBack(c) = d
  BY DEF RolledBack
<1> HIDE DEF d
<1>4. Typed(d) /\ Past(d) /\ Silent(d)
  BY <1>2 DEF Good, Typed, Past, Silent
<1>5. Alone(d) /\ Ended(d) /\ Own(d)
  BY <1>2 DEF Good, Alone, Ended, Own
<1>6. QED
  BY <1>2, <1>3, <1>4, <1>5 DEF Good

(* A block is detached. *)
LEMMA DetachedGood ==
  ASSUME NEW c, Good(c), c.blocks # <<>>
  PROVE  LET d == [c EXCEPT !.blocks = Tail(@)] IN
         /\ Good(d) /\ d.id = c.id /\ d.status = c.status /\ d.life = c.life
         /\ d.ops = c.ops /\ d.spoiled = c.spoiled /\ d.rd = c.rd
<1> DEFINE s == Tail(c.blocks)
           d == [c EXCEPT !.blocks = s]
<1>1. c \in Connections /\ c.blocks \in Seq(0 .. MaxSessions) /\ c.status
  BY Fields DEF Good, Typed, Silent
<1>2. s \in Seq(0 .. MaxSessions) /\ (c.id \notin c.spoiled => All(s, c.id))
  <2>1. c.id \notin c.spoiled => All(c.blocks, c.id)
    BY DEF Good, Own
  <2>2. s \in Seq(0 .. MaxSessions)
    <3>1. \A S : \A q \in Seq(S) : q # <<>> => Tail(q) \in Seq(S)
      OBVIOUS
    <3>2. QED
      BY <1>1, <3>1
  <2>3. c.id \notin c.spoiled => All(s, c.id)
    BY <1>1, <2>1, AllTail
  <2>4. QED
    BY <2>2, <2>3
<1>3. [c EXCEPT !.blocks = Tail(@)] = d
  BY <1>1 DEF Connections
<1> HIDE DEF s
<1>4. /\ d \in Connections /\ d.rd = c.rd /\ d.blocks = s
      /\ d.id = c.id /\ d.status = c.status /\ d.life = c.life
      /\ d.waits = c.waits /\ d.out = c.out /\ d.ops = c.ops
      /\ d.started = c.started /\ d.shut = c.shut /\ d.spoiled = c.spoiled
      /\ d.lives = c.lives
  BY <1>1, <1>2 DEF Connections
<1> HIDE DEF d
<1>5. Typed(d) /\ Past(d) /\ Silent(d)
  BY <1>1, <1>4 DEF Good, Typed, Past, Silent
<1>6. Alone(d) /\ Ended(d) /\ Own(d)
  BY <1>2, <1>4 DEF Good, Alone, Ended, Own
<1>7. QED
  BY <1>3, <1>4, <1>5, <1>6 DEF Good

(* The write buffer changes while the session runs, or a spoiled one.      *)
LEMMA SetWriteGood ==
  ASSUME NEW c, Good(c), c.status \/ c.id \in c.spoiled,
         NEW d \in Connections,
         d.rd = c.rd, d.blocks = c.blocks, d.id = c.id, d.status = c.status,
         d.life = c.life, d.ops = c.ops, d.started = c.started, d.shut = c.shut,
         d.spoiled = c.spoiled, d.lives = c.lives,
         d.waits => d.out # <<>>, c.id \notin c.spoiled => All(d.out, c.id)
  PROVE  Good(d) /\ Calm(c, d)
<1>1. Typed(d) /\ Past(d) /\ Silent(d)
  BY DEF Good, Typed, Past, Silent
<1>2. Alone(d) /\ Ended(d) /\ Own(d) /\ Calm(c, d)
  BY DEF Good, Alone, Ended, Own, Calm, Running, Reading
<1>3. QED
  BY <1>1, <1>2 DEF Good

LEMMA WriteMoreGood ==
  ASSUME NEW c, Good(c)
  PROVE  LET d == WriteMore(c) IN
         Good(d) /\ Calm(c, d) /\ d.id = c.id /\ d.status = c.status /\ d.spoiled = c.spoiled
<1>1. /\ c \in Connections /\ c.out \in Seq(Sessions) /\ c.spoiled \in SUBSET Sessions
      /\ c.waits \in BOOLEAN
  BY Fields DEF Good, Typed
<1>2. CASE c.waits \/ c.out = <<>>
  BY <1>2 DEF WriteMore, Calm
<1>3. CASE ~(c.waits \/ c.out = <<>>)
  <2> DEFINE e == [c EXCEPT !.waits = TRUE]
             d == Some(e, "write", Null)
  <2>1. WriteMore(c) = d
    BY <1>3 DEF WriteMore
  <2>2. (c.status \/ c.id \in c.spoiled) /\ c.id \in Sessions
    BY <1>1, <1>3 DEF Good, Silent, Alone
  <2>3. /\ Good(e) /\ Calm(c, e) /\ e.id = c.id /\ e.status = c.status
        /\ e.spoiled = c.spoiled
    <3>1. c.id \notin c.spoiled => All(c.out, c.id)
      BY DEF Good, Own
    <3>2. /\ e \in Connections /\ e.out = c.out
          /\ e.rd = c.rd /\ e.blocks = c.blocks /\ e.id = c.id /\ e.status = c.status
          /\ e.life = c.life /\ e.ops = c.ops /\ e.started = c.started /\ e.shut = c.shut
          /\ e.spoiled = c.spoiled /\ e.lives = c.lives
      BY <1>1 DEF Connections
    <3> HIDE DEF e
    <3>3. QED
      BY <1>3, <2>2, <3>1, <3>2, SetWriteGood
  <2> HIDE DEF e
  <2>4. Allowed(e) /\ e.id \in Sessions
    BY <2>2, <2>3 DEF Allowed
  <2>5. /\ Good(d) /\ d.id = e.id /\ d.status = e.status /\ d.life = e.life
        /\ d.rd = e.rd /\ d.spoiled = e.spoiled
        /\ \E o \in Ops : d.ops = e.ops \cup {o} /\ o.kind = "write"
    BY <2>3, <2>4, SomeGood
  <2> HIDE DEF d
  <2>6. Reading(d) = Reading(e)
    BY <2>5 DEF Reading
  <2>7. Calm(c, d)
    BY <2>3, <2>5, <2>6 DEF Calm, Running
  <2>8. QED
    BY <2>1, <2>3, <2>5, <2>7
<1>4. QED
  BY <1>2, <1>3

LEMMA CalmTwice ==
  ASSUME NEW c, NEW d, NEW e, Calm(c, d), Calm(d, e)
  PROVE  Calm(c, e)
BY DEF Calm

(* The output handler of session k. *)
LEMMA OutputGood ==
  ASSUME NEW c, Good(c), NEW k \in Sessions, (c.status /\ c.id = k) \/ c.id \in c.spoiled,
         NEW nil \in BOOLEAN, NEW overflow \in BOOLEAN
  PROVE  LET d == Output(c, k, nil, overflow) IN
         Good(d) /\ Calm(c, d) /\ d.id = c.id /\ (d.status => c.status)
<1>1. CASE nil
  <2> DEFINE e == WriteMore(c)
  <2>1. /\ Good(e) /\ Calm(c, e) /\ e.id = c.id /\ e.status = c.status
        /\ e.spoiled = c.spoiled
    BY WriteMoreGood
  <2>2. Output(c, k, nil, overflow) = Stopped(e)
    BY <1>1 DEF Output
  <2> HIDE DEF e
  <2>3. Allowed(e)
    BY <2>1 DEF Allowed
  <2>4. Good(Stopped(e)) /\ Calm(e, Stopped(e)) /\ ~Stopped(e).status /\ Stopped(e).id = e.id
    BY <2>1, <2>3, StoppedGood
  <2>5. Calm(c, Stopped(e))
    BY <2>1, <2>4, CalmTwice
  <2>6. QED
    BY <2>1, <2>2, <2>4, <2>5
<1>2. CASE ~nil /\ overflow
  <2>1. Output(c, k, nil, overflow) = Stopped(c) /\ Allowed(c)
    BY <1>2 DEF Output, Allowed
  <2>2. QED
    BY <2>1, StoppedGood
<1>3. CASE ~nil /\ ~overflow
  <2> DEFINE s == Append(c.out, k)
             e == [c EXCEPT !.out = s]
             d == WriteMore(e)
  <2>1. c \in Connections /\ c.out \in Seq(Sessions) /\ c.waits \in BOOLEAN
    BY Fields DEF Good, Typed
  <2>2. s \in Seq(Sessions) /\ s # <<>>
    BY <2>1
  <2>3. c.id \notin c.spoiled => All(s, c.id)
    <3>1. c.id \notin c.spoiled => All(c.out, c.id) /\ c.id = k
      BY DEF Good, Own
    <3>2. QED
      BY <2>1, <3>1, AllNext
  <2>4. Output(c, k, nil, overflow) = d
    BY <1>3, <2>1 DEF Output, Connections
  <2> HIDE DEF s
  <2>5. Good(e) /\ Calm(c, e) /\ e.id = c.id /\ e.status = c.status
    <3>1. c.status \/ c.id \in c.spoiled
      OBVIOUS
    <3>2. /\ e \in Connections /\ e.out = s
          /\ e.rd = c.rd /\ e.blocks = c.blocks /\ e.id = c.id /\ e.status = c.status
          /\ e.life = c.life /\ e.ops = c.ops /\ e.started = c.started /\ e.shut = c.shut
          /\ e.spoiled = c.spoiled /\ e.lives = c.lives
      BY <2>1, <2>2 DEF Connections
    <3> HIDE DEF e
    <3>3. QED
      BY <2>2, <2>3, <3>1, <3>2, SetWriteGood
  <2> HIDE DEF e
  <2>6. Good(d) /\ Calm(e, d) /\ d.id = e.id /\ d.status = e.status
    BY <2>5, WriteMoreGood
  <2> HIDE DEF d
  <2>7. Calm(c, d)
    BY <2>5, <2>6, CalmTwice
  <2>8. QED
    BY <2>4, <2>5, <2>6, <2>7
<1>4. QED
  BY <1>1, <1>2, <1>3

LEMMA WrittenGood ==
  ASSUME NEW c, Good(c)
  PROVE  LET d == Written(c) IN
         Good(d) /\ Calm(c, d) /\ d.id = c.id /\ d.status = c.status
<1>1. /\ c \in Connections /\ c.out \in Seq(Sessions) /\ c.spoiled \in SUBSET Sessions
      /\ c.waits \in BOOLEAN
  BY Fields DEF Good, Typed
<1>2. CASE ~c.waits
  BY <1>2, WriteMoreGood DEF Written
<1>3. CASE c.waits
  <2> DEFINE s == Tail(c.out)
             e == [c EXCEPT !.waits = FALSE, !.out = s]
             d == WriteMore(e)
  <2>1. c.out # <<>>
    BY <1>3 DEF Good, Typed
  <2>2. (c.status \/ c.id \in c.spoiled) /\ s \in Seq(Sessions)
    BY <1>1, <2>1 DEF Good, Silent
  <2>3. c.id \notin c.spoiled => All(s, c.id)
    BY <1>1, <2>1, AllTail DEF Good, Own
  <2>4. Written(c) = d
    <3>1. [c EXCEPT !.waits = FALSE, !.out = Tail(@)] = e
      BY <1>1 DEF Connections
    <3>2. QED
      BY <1>3, <3>1 DEF Written
  <2> HIDE DEF s
  <2>5. Good(e) /\ Calm(c, e) /\ e.id = c.id /\ e.status = c.status
    <3>1. /\ e \in Connections /\ e.out = s /\ ~e.waits
          /\ e.rd = c.rd /\ e.blocks = c.blocks /\ e.id = c.id /\ e.status = c.status
          /\ e.life = c.life /\ e.ops = c.ops /\ e.started = c.started /\ e.shut = c.shut
          /\ e.spoiled = c.spoiled /\ e.lives = c.lives
      BY <1>1, <2>2 DEF Connections
    <3> HIDE DEF e
    <3>2. QED
      BY <2>2, <2>3, <3>1, SetWriteGood
  <2> HIDE DEF e
  <2>6. Good(d) /\ Calm(e, d) /\ d.id = e.id /\ d.status = e.status
    BY <2>5, WriteMoreGood
  <2> HIDE DEF d
  <2>7. Calm(c, d)
    BY <2>5, <2>6, CalmTwice
  <2>8. QED
    BY <2>4, <2>5, <2>6, <2>7
<1>4. QED
  BY <1>2, <1>3

(* The descriptor closes under a session that is spoiled, or under none.   *)
LEMMA ClosedGood ==
  ASSUME NEW c, Good(c), NEW b \in BOOLEAN,
         NEW d, d = Closed(c) \/ d = [Closed(c) EXCEPT !.open = TRUE]
  PROVE  Good(d) /\ d.id = c.id /\ d.status = c.status /\ d.spoiled = c.spoiled
<1> DEFINE e == Closed(c)
<1>1. /\ c \in Connections /\ e \in Connections /\ Same(c, e)
      /\ e.id = c.id /\ e.status = c.status /\ e.life = c.life
      /\ e.rd = c.rd /\ e.blocks = c.blocks /\ e.waits = c.waits /\ e.out = c.out
      /\ e.started = c.started /\ e.shut = c.shut /\ e.spoiled = c.spoiled
      /\ e.lives = c.lives
  BY ClosedDoes DEF Good, Typed
<1>2. d = e \/ d = [e EXCEPT !.open = TRUE]
  OBVIOUS
<1> HIDE DEF e
<1>3. /\ d \in Connections /\ d.ops = e.ops
      /\ d.id = c.id /\ d.status = c.status /\ d.life = c.life
      /\ d.rd = c.rd /\ d.blocks = c.blocks /\ d.waits = c.waits /\ d.out = c.out
      /\ d.started = c.started /\ d.shut = c.shut /\ d.spoiled = c.spoiled
      /\ d.lives = c.lives
  BY <1>1, <1>2 DEF Connections
<1>4. \A o \in d.ops : \E p \in c.ops : o.life = p.life /\ o.sess = p.sess
  BY <1>1, <1>3 DEF Same
<1>5. Typed(d) /\ Past(d) /\ Silent(d)
  BY <1>3, <1>4 DEF Good, Typed, Past, Silent
<1>6. Alone(d) /\ Ended(d) /\ Own(d)
  BY <1>3 DEF Good, Alone, Ended, Own
<1>7. QED
  BY <1>3, <1>5, <1>6 DEF Good

LEMMA RenewedGood ==
  ASSUME NEW c, Good(c), c.id # 0 => c.id \in c.spoiled
  PROVE  LET d == Renewed(c) IN
         Good(d) /\ d.id = c.id /\ d.status = c.status /\ d.spoiled = c.spoiled
<1> DEFINE d == Renewed(c)
<1>1. /\ c \in Connections /\ d \in Connections /\ d.life = c.life + 1 /\ d.rd = Null
      /\ d.blocks = <<>> /\ d.waits = FALSE /\ d.out = <<>>
      /\ d.id = c.id /\ d.status = c.status
      /\ d.ops = c.ops /\ d.started = c.started /\ d.shut = c.shut
      /\ d.spoiled = c.spoiled /\ d.lives = c.lives
  BY RenewedDoes DEF Good, Typed
<1> HIDE DEF d
<1>2. \A o \in c.ops : o.life \in Nat /\ o.life <= c.life /\ c.life \in Nat
  BY <1>1, Fields DEF Good, Past, Ops
<1>3. c.status => c.id # 0
  BY ConnectionBounds DEF Good, Alone, Sessions
<1>4. Past(d) /\ Silent(d)
  BY <1>1, <1>2 DEF Good, Past, Silent
<1>5. Typed(d) /\ Alone(d) /\ Ended(d) /\ Own(d)
  BY <1>1, <1>3 DEF Good, Typed, Alone, Ended, Own, All
<1>6. QED
  BY <1>1, <1>4, <1>5 DEF Good, d

(* A new id; the session is clean if nothing was left and none was running. *)
LEMMA InitializedGood ==
  ASSUME NEW c, Good(c), c.id < MaxSessions
  PROVE  LET d == Initialized(c) IN
         /\ Good(d) /\ d.id = c.id + 1 /\ d.id \in Sessions /\ d.life = c.life
         /\ d.ops = c.ops /\ d.shut = c.shut /\ d.status = c.status
         /\ d.lives[d.id] = c.life /\ ~Running(d)
<1> DEFINE e == Spoil(c, c.status)
           k == c.id + 1
           left == c.out # <<>> \/ \E o \in c.ops : o.life = c.life
           w == [e.lives EXCEPT ![k] = c.life]
           p == IF c.status \/ left THEN e.spoiled \cup {k} ELSE e.spoiled
           d == [e EXCEPT !.id = k, !.lives = w, !.spoiled = p]
<1>1. /\ c \in Connections /\ c.status \in BOOLEAN /\ c.life \in Nat
      /\ c.id \in 0 .. MaxSessions /\ MaxSessions \in Nat /\ c.started \in SUBSET Sessions
  BY Fields DEF Good, Typed
<1>2. /\ e \in Connections
      /\ e.spoiled = IF c.status /\ c.id # 0 THEN c.spoiled \cup {c.id} ELSE c.spoiled
      /\ e.id = c.id /\ e.status = c.status /\ e.life = c.life
      /\ e.rd = c.rd /\ e.blocks = c.blocks /\ e.waits = c.waits /\ e.out = c.out
      /\ e.ops = c.ops /\ e.started = c.started /\ e.shut = c.shut /\ e.lives = c.lives
  BY <1>1, SpoilDoes
<1>3. k \in Sessions /\ k \in 0 .. MaxSessions /\ k > c.id
  BY <1>1 DEF Sessions
<1>4. Initialized(c) = d
  BY <1>2 DEF Initialized, Connections
<1> HIDE DEF e, left
<1>5. w \in [Sessions -> Nat] /\ w[k] = c.life
  BY <1>1, <1>2, <1>3, Fields
<1>6. p \in SUBSET Sessions
  BY <1>2, <1>3, Fields
<1>7. /\ e.spoiled \subseteq p /\ c.spoiled \subseteq p
      /\ k \notin p => ~c.status /\ ~left
      /\ c.status => c.id \in p /\ k \in p
  <2>1. c.status => c.id # 0
    BY ConnectionBounds DEF Good, Alone, Sessions
  <2>2. QED
    BY <1>2, <2>1
<1> HIDE DEF k, w, p
<1>8. /\ d \in Connections /\ d.id = k /\ d.lives = w /\ d.spoiled = p
      /\ d.status = c.status /\ d.life = c.life
      /\ d.rd = c.rd /\ d.blocks = c.blocks /\ d.waits = c.waits /\ d.out = c.out
      /\ d.ops = c.ops /\ d.started = c.started /\ d.shut = c.shut
  BY <1>2, <1>3, <1>5, <1>6 DEF Connections
<1> HIDE DEF d
<1>9. Typed(d) /\ Alone(d)
  BY <1>3, <1>7, <1>8 DEF Good, Typed, Past, Alone
<1>10. Past(d)
  <2>1. 1 .. c.id \subseteq 1 .. k
    BY <1>1, <1>3 DEF k
  <2>2. \A j \in Sessions : j > k => j > c.id
    BY <1>1 DEF k, Sessions
  <2>3. QED
    BY <1>8, <2>1, <2>2 DEF Good, Past
<1>11. Silent(d)
  BY <1>7, <1>8 DEF Good, Silent, left
<1>12. Ended(d)
  <2> SUFFICES ASSUME NEW j \in c.started, j \notin p
               PROVE  k # j /\ c.shut[j] = 1
    BY <1>8 DEF Ended
  <2>1. k # j
    BY <1>1, <1>3 DEF Good, Past
  <2>2. c.id # j \/ ~c.status
    BY <1>7
  <2>3. QED
    BY <1>7, <2>1, <2>2 DEF Good, Ended
<1>13. Own(d)
  BY <1>7, <1>8 DEF Good, Silent, Own, All, left
<1>14. ~Running(d)
  BY <1>7, <1>8 DEF Running
<1>15. QED
  BY <1>3, <1>4, <1>5, <1>8, <1>9, <1>10, <1>11, <1>12, <1>13, <1>14 DEF Good, k

(* The session begins. *)
LEMMA StartedGood ==
  ASSUME NEW c, Good(c), c.id < MaxSessions, NEW d \in Connections,
         \E b : /\ b = Initialized(c) /\ d.started = b.started \cup {b.id}
               /\ d.status = TRUE /\ d.id = b.id /\ d.life = b.life
               /\ d.rd = b.rd /\ d.blocks = b.blocks /\ d.waits = b.waits /\ d.out = b.out
               /\ d.ops = b.ops /\ d.shut = b.shut /\ d.spoiled = b.spoiled
               /\ d.lives = b.lives
  PROVE  Good(d) /\ d.id = c.id + 1 /\ d.life = c.life /\ d.ops = c.ops /\ d.status
<1> DEFINE b == Initialized(c)
           s == b.started \cup {b.id}
<1>1. /\ Good(b) /\ b.id = c.id + 1 /\ b.id \in Sessions /\ b.life = c.life
      /\ b.ops = c.ops /\ b.shut = c.shut /\ b.lives[b.id] = c.life
  BY InitializedGood
<1>2. s = b.started \cup {b.id}
  OBVIOUS
<1>3. /\ d \in Connections /\ d.status = TRUE /\ d.started = s
      /\ d.id = b.id /\ d.life = b.life
      /\ d.rd = b.rd /\ d.blocks = b.blocks /\ d.waits = b.waits /\ d.out = b.out
      /\ d.ops = b.ops /\ d.shut = b.shut /\ d.spoiled = b.spoiled /\ d.lives = b.lives
  OBVIOUS
<1> HIDE DEF b, s
<1>4. b.shut[b.id] = 0
  <2>1. c \in Connections /\ c.id \in 0 .. MaxSessions
    BY Fields DEF Good, Typed
  <2>2. b.id > c.id
    BY <1>1, <2>1
  <2>3. QED
    BY <1>1, <2>2 DEF Good, Past
<1>5. b.id \in 1 .. b.id
  BY <1>1 DEF Sessions
<1>6. Typed(d) /\ Past(d) /\ Silent(d)
  BY <1>1, <1>2, <1>3, <1>5 DEF Good, Typed, Past, Silent
<1>7. Alone(d) /\ Own(d)
  BY <1>1, <1>2, <1>3, <1>4 DEF Good, Alone, Own
<1>8. Ended(d)
  <2> SUFFICES ASSUME NEW k \in d.started, k \notin d.spoiled
               PROVE  (d.id # k) <=> d.shut[k] = 1
    BY <1>3 DEF Ended
  <2>1. CASE k = b.id
    BY <1>3, <1>4, <2>1
  <2>2. CASE k # b.id
    BY <1>1, <1>2, <1>3, <2>2 DEF Good, Ended
  <2>3. QED
    BY <2>1, <2>2
<1>9. QED
  BY <1>1, <1>3, <1>6, <1>7, <1>8 DEF Good
-----------------------------------------------------------------------------
LEMMA Initially == Init => IInv
<1> SUFFICES ASSUME Init
             PROVE  IInv
  OBVIOUS
<1>1. /\ con.id = 0 /\ con.status = FALSE /\ con.life = 1 /\ con.rd = Null
      /\ con.blocks = <<>> /\ con.waits = FALSE /\ con.out = <<>> /\ con.ops = {}
      /\ con.started = {} /\ con.shut = [k \in Sessions |-> 0] /\ con.spoiled = {}
  BY DEF Init
<1>2. con \in Connections
  <2>1. MaxSessions \in Nat /\ 0 \in 0 .. MaxSessions /\ 0 \in 0 .. 2
    BY ConnectionBounds
  <2>2. /\ [k \in Sessions |-> 0] \in [Sessions -> 0 .. 2]
        /\ [k \in Sessions |-> 0] \in [Sessions -> Nat]
    OBVIOUS
  <2>3. <<>> \in Seq(0 .. MaxSessions) /\ <<>> \in Seq(Sessions)
    OBVIOUS
  <2>4. QED
    BY <2>1, <2>2, <2>3 DEF Init, Connections
<1>3. Good(con)
  BY <1>1, <1>2 DEF Good, Typed, Past, Silent, Alone, Ended, Own, All
<1>4. Placed
  BY DEF Init, Placed, Place
<1>5. QED
  BY <1>1, <1>3, <1>4 DEF IInv, Listening, Running

LEMMA PlaceUp ==
  ASSUME NEW p, NEW n \in Nat, NEW m \in Nat, n <= m, Place(p, n)
  PROVE  Place(p, m)
<1>1. 1 .. n \subseteq 1 .. m
  OBVIOUS
<1>2. QED
  BY <1>1 DEF Place

(* A thread moves. *)
LEMMA Moved ==
  ASSUME Good(con), Good(con'), Placed, NEW t \in Threads, NEW p,
         at' = [at EXCEPT ![t] = p], con'.id = con.id, Place(p, con.id)
  PROVE  Placed' /\ at'[t] = p /\ \A u \in Threads \ {t} : at'[u] = at[u]
BY DEF Placed

(* The threads with the read of the session that goes on. *)
LEMMA ThereNow ==
  ASSUME Placed, NEW t \in Threads, NEW p, at' = [at EXCEPT ![t] = p],
         con'.id = con.id, con'.life = con.life
  PROVE  /\ p.pc = "entered" /\ Mine(con, p.op) => There' = There \cup {t}
         /\ ~(p.pc = "entered" /\ Mine(con, p.op)) => There' = There \ {t}
<1>1. \A u \in Threads : at'[u] = IF u = t THEN p ELSE at[u]
  BY DEF Placed
<1>2. There' = {u \in Threads : at'[u].pc = "entered" /\ Mine(con, at'[u].op)}
  BY DEF There, Mine
<1>3. QED
  BY <1>1, <1>2 DEF There

LEMMA CalmKeeps ==
  ASSUME IInv, Good(con'), con'.id = con.id, Calm(con, con'),
         \/ at' = at
         \/ \E t \in Threads : \E p :
              /\ at' = [at EXCEPT ![t] = p] /\ Place(p, con.id) /\ p.pc # "entered"
              /\ at[t].pc # "entered" \/ ~Mine(con, at[t].op)
  PROVE  IInv'
<1>1. Placed'
  <2>1. CASE at' = at
    BY <2>1 DEF IInv, Placed
  <2>2. CASE \E t \in Threads : \E p : at' = [at EXCEPT ![t] = p] /\ Place(p, con.id)
    BY <2>2, Moved DEF IInv
  <2>3. QED
    BY <2>1, <2>2
<1>2. ASSUME Running(con')
      PROVE  /\ Running(con) /\ con'.rd = con.rd /\ Here' = Here /\ There' = There
             /\ \A t \in There : at'[t].op = at[t].op
  <2>1. /\ Running(con) /\ con'.life = con.life /\ con'.rd = con.rd
        /\ Reading(con') = Reading(con)
    BY <1>2 DEF Calm
  <2>2. Here' = Here
    <3>1. Here = {o \in Reading(con) : o.sess = con.id /\ o.life = con.life}
      BY DEF Here, Mine, Reading
    <3>2. Here' = {o \in Reading(con') : o.sess = con'.id /\ o.life = con'.life}
      BY DEF Here, Mine, Reading
    <3>3. QED
      BY <2>1, <3>1, <3>2
  <2>3. CASE at' = at
    BY <2>1, <2>2, <2>3 DEF There, Mine
  <2>4. ASSUME NEW t \in Threads, NEW p,
               at' = [at EXCEPT ![t] = p], p.pc # "entered",
               at[t].pc # "entered" \/ ~Mine(con, at[t].op)
        PROVE  There' = There /\ \A u \in There : at'[u].op = at[u].op
    <3>1. t \notin There
      BY <2>4 DEF There
    <3>2. There' = There
      <4>1. con'.id = con.id /\ con'.life = con.life /\ Placed
        BY <2>1 DEF IInv
      <4>2. There' = There \ {t}
        BY <2>4, <4>1, ThereNow
      <4>3. QED
        BY <3>1, <4>2
    <3>3. \A u \in There : at'[u] = at[u]
      BY <2>4, <3>1 DEF IInv, Placed, There
    <3>4. QED
      BY <3>2, <3>3
  <2>5. QED
    BY <2>1, <2>2, <2>3, <2>4
<1>3. Listening'
  <2> SUFFICES ASSUME Running(con')
               PROVE  /\ con'.rd # Null
                      /\ \/ There' = {} /\ \E o \in Here' : Here' = {o} /\ Fits(o)'
                         \/ Here' = {} /\ \E t \in There' : There' = {t} /\ Fits(at[t].op)'
    BY DEF Listening
  <2>1. /\ Running(con) /\ con'.rd = con.rd /\ Here' = Here /\ There' = There
        /\ \A t \in There : at'[t].op = at[t].op
    BY <1>2
  <2>2. QED
    BY <2>1 DEF IInv, Listening, Fits
<1>4. QED
  BY <1>1, <1>3 DEF IInv

(* The handler of the session's read begins the next, or the session ends. *)
LEMMA ReadKeeps ==
  ASSUME IInv, Good(con'), con'.id = con.id, NEW t \in Threads, NEW p,
         at[t].pc = "entered",
         at' = [at EXCEPT ![t] = p], Place(p, con.id), p.pc # "entered",
         Running(con') =>
           /\ Running(con) /\ Mine(con, at[t].op) /\ con'.life = con.life
           /\ con'.rd \in Addresses
           /\ \E o \in Ops : /\ con'.ops = con.ops \cup {o} /\ Mine(con', o)
                             /\ o.win = con'.rd /\ o.res # "canceled"
  PROVE  IInv'
<1>1. Placed'
  BY Moved DEF IInv
<1>2. Listening'
  <2> SUFFICES ASSUME Running(con')
               PROVE  /\ con'.rd # Null
                      /\ There' = {} /\ \E o \in Here' : Here' = {o} /\ Fits(o)'
    BY DEF Listening
  <2>1. PICK o \in Ops : /\ con'.ops = con.ops \cup {o} /\ Mine(con', o)
                         /\ o.win = con'.rd /\ o.res # "canceled"
    OBVIOUS
  <2>2. t \in There
    BY DEF There
  <2>3. There = {t} /\ Here = {}
    BY <2>2 DEF IInv, Listening
  <2>4. There' = {}
    BY <2>3, ThereNow DEF IInv
  <2>5. Here' = {o}
    <3>1. \A x \in con.ops : ~Mine(con, x)
      BY <2>3 DEF Here
    <3>2. \A x \in con.ops : ~Mine(con', x)
      BY <3>1 DEF Mine
    <3>3. Here' = {x \in con'.ops : Mine(con', x)}
      BY DEF Here, Mine
    <3>4. QED
      BY <2>1, <3>2, <3>3
  <2>6. con'.rd # Null
    BY ConnectionBounds
  <2>7. QED
    BY <2>1, <2>4, <2>5, <2>6 DEF Fits
<1>3. QED
  BY <1>1, <1>2 DEF IInv

(* The detach loop takes a block of a session that runs, or ends. *)
LEMMA LoopGood ==
  ASSUME NEW t \in Threads, NEW l, NEW c, Good(c), Loop(t, l, c)
  PROVE  /\ Good(con') /\ con'.id = c.id /\ con'.status = c.status /\ con'.life = c.life
         /\ con'.ops = c.ops /\ con'.spoiled = c.spoiled /\ con'.rd = c.rd
         /\ \E p : /\ at' = [at EXCEPT ![t] = p] /\ Place(p, c.id) /\ p.pc # "entered"
                   /\ p.pc = "input" => p.sess = c.id /\ c.status
<1>1. CASE c.blocks = <<>>
  <2>1. con' = c /\ at' = [at EXCEPT ![t] = Idle]
    BY <1>1 DEF Loop
  <2>2. Place(Idle, c.id) /\ Idle.pc # "entered" /\ Idle.pc # "input"
    BY DEF Place, Idle
  <2>3. QED
    BY <2>1, <2>2
<1>2. CASE c.blocks # <<>>
  <2> DEFINE d == [c EXCEPT !.blocks = Tail(@)]
             p == InInput(l, c.id)
  <2>1. con' = d /\ at' = [at EXCEPT ![t] = p]
    BY <1>2 DEF Loop
  <2>2. /\ Good(d) /\ d.id = c.id /\ d.status = c.status /\ d.life = c.life
        /\ d.ops = c.ops /\ d.spoiled = c.spoiled /\ d.rd = c.rd
    BY <1>2, DetachedGood
  <2>3. c.status /\ c.id \in 1 .. c.id
    BY <1>2, ConnectionBounds DEF Good, Silent, Alone, Sessions
  <2>4. p.pc = "input" /\ p.sess = c.id /\ Place(p, c.id)
    BY <2>3 DEF InInput, Place
  <2> HIDE DEF d, p
  <2>5. QED
    BY <2>1, <2>2, <2>3, <2>4
<1>3. QED
  BY <1>1, <1>2
-----------------------------------------------------------------------------
(* The steps. *)
LEMMA OpsGood ==
  ASSUME NEW c, Good(c), NEW v \in SUBSET Ops, NEW d, d = [c EXCEPT !.ops = v],
         \A o \in v : \E p \in c.ops : o.sess = p.sess /\ o.life = p.life
  PROVE  /\ Good(d) /\ d.ops = v /\ d.id = c.id /\ d.status = c.status /\ d.life = c.life
         /\ d.rd = c.rd /\ d.spoiled = c.spoiled
<1>1. c \in Connections
  BY DEF Good, Typed
<1>2. /\ d \in Connections /\ d.ops = v
      /\ d.id = c.id /\ d.status = c.status /\ d.life = c.life
      /\ d.rd = c.rd /\ d.blocks = c.blocks /\ d.waits = c.waits /\ d.out = c.out
      /\ d.started = c.started /\ d.shut = c.shut /\ d.spoiled = c.spoiled
      /\ d.lives = c.lives
  BY <1>1 DEF Connections
<1>3. Typed(d) /\ Past(d) /\ Silent(d)
  BY <1>2 DEF Good, Typed, Past, Silent
<1>4. Alone(d) /\ Ended(d) /\ Own(d)
  BY <1>2 DEF Good, Alone, Ended, Own
<1>5. QED
  BY <1>2, <1>3, <1>4 DEF Good

LEMMA CompletesKeeps ==
  ASSUME IInv, NEW o \in con.ops, NEW res \in {"data", "error", "would_block"},
         Completes(o, res)
  PROVE  IInv'
<1> DEFINE o2 == [o EXCEPT !.res = res]
           v == (con.ops \ {o}) \cup {o2}
<1>1. Good(con) /\ con \in Connections /\ con.ops \in SUBSET Ops
  BY Fields DEF IInv, Good, Typed
<1>2. /\ o2 \in Ops /\ o2.kind = o.kind /\ o2.sess = o.sess /\ o2.life = o.life
      /\ o2.win = o.win /\ o2.res = res
  BY <1>1 DEF Ops
<1>3. con' = [con EXCEPT !.ops = v] /\ at' = at
  BY DEF Completes
<1> HIDE DEF o2
<1>4. /\ v \in SUBSET Ops
      /\ \A x \in v : \E p \in con.ops : x.sess = p.sess /\ x.life = p.life
  BY <1>1, <1>2
<1>5. v = (con.ops \ {o}) \cup {o2}
  OBVIOUS
<1> HIDE DEF v
<1>6. /\ Good(con') /\ con'.ops = v /\ con'.id = con.id /\ con'.status = con.status
      /\ con'.life = con.life /\ con'.rd = con.rd /\ con'.spoiled = con.spoiled
  BY <1>1, <1>3, <1>4, OpsGood
<1>7. Placed' /\ There' = There
  BY <1>3, <1>6 DEF IInv, Placed, There, Mine
<1>8. Here' = {x \in v : Mine(con, x)}
  BY <1>6 DEF Here, Mine
<1>9. Listening'
  <2>1. CASE Mine(con, o)
    <3>1. Here' = (Here \ {o}) \cup {o2}
      BY <1>2, <1>5, <1>8, <2>1 DEF Here, Mine
    <3>2. o \in Here
      BY <2>1 DEF Here
    <3>3. Running(con') => Running(con)
      BY <1>6 DEF Running
    <3>4. Running(con) => con.rd # Null /\ There = {} /\ Here = {o} /\ Fits(o)
      BY <3>2 DEF IInv, Listening
    <3>5. Fits(o) => Fits(o2)'
      BY <1>2, <1>6 DEF Fits
    <3>6. QED
      BY <1>6, <1>7, <3>1, <3>3, <3>4, <3>5 DEF Listening
  <2>2. CASE ~Mine(con, o)
    <3>1. ~Mine(con, o2)
      BY <1>2, <2>2 DEF Mine
    <3>2. Here' = Here
      BY <1>5, <1>8, <2>2, <3>1 DEF Here
    <3>3. QED
      BY <1>3, <1>6, <1>7, <3>2 DEF IInv, Listening, Running, Fits
  <2>3. QED
    BY <2>1, <2>2
<1>10. QED
  BY <1>6, <1>7, <1>9 DEF IInv

LEMMA EnterKeeps ==
  ASSUME IInv, NEW o \in con.ops, NEW t \in Threads, Enter(t, o)
  PROVE  IInv'
<1> DEFINE v == con.ops \ {o}
           p == Entered(o)
<1>1. Good(con) /\ con \in Connections /\ con.ops \in SUBSET Ops
  BY Fields DEF IInv, Good, Typed
<1>2. con' = [con EXCEPT !.ops = v] /\ at' = [at EXCEPT ![t] = p] /\ at[t] = Idle
  BY DEF Enter
<1>3. v = con.ops \ {o} /\ v \in SUBSET Ops
  BY <1>1
<1>4. p.pc = "entered" /\ p.op = o /\ Place(p, con.id) /\ Idle.pc # "entered"
  BY <1>1 DEF Entered, Place, Good, Past, Idle
<1> HIDE DEF v, p
<1>5. /\ Good(con') /\ con'.ops = v /\ con'.id = con.id /\ con'.status = con.status
      /\ con'.life = con.life /\ con'.rd = con.rd /\ con'.spoiled = con.spoiled
  BY <1>1, <1>2, <1>3, OpsGood
<1>6. Placed' /\ at'[t] = p /\ \A u \in Threads \ {t} : at'[u] = at[u]
  BY <1>1, <1>2, <1>4, <1>5, Moved DEF IInv
<1>7. Here' = {x \in v : Mine(con, x)} /\ t \notin There
  BY <1>2, <1>4, <1>5 DEF Here, There, Mine
<1>8. Listening'
  <2>1. CASE Mine(con, o)
    <3>1. Here' = Here \ {o} /\ o \in Here
      BY <1>3, <1>7, <2>1 DEF Here
    <3>2. There' = There \cup {t}
      BY <1>2, <1>4, <1>5, <2>1, ThereNow DEF IInv
    <3>3. Running(con') => Running(con)
      BY <1>5 DEF Running
    <3>4. Running(con) => con.rd # Null /\ There = {} /\ Here = {o} /\ Fits(o)
      BY <3>1 DEF IInv, Listening
    <3>5. Fits(o) => Fits(at[t].op)'
      BY <1>4, <1>5, <1>6 DEF Fits
    <3>6. QED
      BY <1>5, <3>1, <3>2, <3>3, <3>4, <3>5 DEF Listening
  <2>2. CASE ~Mine(con, o)
    <3>1. Here' = Here
      BY <1>3, <1>7, <2>2 DEF Here
    <3>2. There' = There \ {t}
      BY <1>2, <1>4, <1>5, <2>2, ThereNow DEF IInv
    <3>3. There' = There /\ \A u \in There : at'[u] = at[u]
      BY <1>6, <1>7, <3>2 DEF There
    <3>4. QED
      BY <1>5, <3>1, <3>3 DEF IInv, Listening, Running, Fits
  <2>3. QED
    BY <2>1, <2>2
<1>9. QED
  BY <1>5, <1>6, <1>8 DEF IInv

LEMMA DropKeeps ==
  ASSUME IInv, Drop
  PROVE  IInv'
<1> DEFINE v == {o \in con.ops : Alive(o.life)}
<1>1. Good(con) /\ con \in Connections /\ con.ops \in SUBSET Ops
  BY Fields DEF IInv, Good, Typed
<1>2. con' = [con EXCEPT !.ops = v] /\ at' = at
  BY DEF Drop
<1>3. v \in SUBSET Ops /\ v \subseteq con.ops /\ \A o \in con.ops : Mine(con, o) => o \in v
  BY <1>1 DEF Alive, Mine
<1> HIDE DEF v
<1>4. /\ Good(con') /\ con'.ops = v /\ con'.id = con.id /\ con'.status = con.status
      /\ con'.life = con.life /\ con'.rd = con.rd /\ con'.spoiled = con.spoiled
  BY <1>1, <1>2, <1>3, OpsGood
<1>5. Placed' /\ There' = There
  BY <1>2, <1>4 DEF IInv, Placed, There, Mine
<1>6. Here' = Here
  BY <1>3, <1>4 DEF Here, Mine
<1>7. Listening'
  BY <1>2, <1>4, <1>5, <1>6 DEF IInv, Listening, Running, Fits
<1>8. QED
  BY <1>4, <1>5, <1>7 DEF IInv

(* A handler that was let in: what it carries. *)
LEMMA EnteredOp ==
  ASSUME IInv, NEW t \in Threads, at[t].pc = "entered"
  PROVE  at[t].op \in Ops /\ at[t].op.sess \in 1 .. con.id /\ Place(Idle, con.id)
         /\ Idle.pc # "entered"
BY DEF IInv, Placed, Place, Idle

LEMMA ReadDoneKeeps ==
  ASSUME IInv, NEW t \in Threads, NEW n \in Nat, NEW a \in Addresses,
         NEW overflow \in BOOLEAN, ReadDone(t, n, a, overflow)
  PROVE  /\ IInv'
         /\ \E p : /\ at' = [at EXCEPT ![t] = p]
                   /\ p.pc = "input" => p.sess = con.id /\ con.status
<1> DEFINE o == at[t].op
           m == Met(con, o.life, o.sess)
           c == Confirmed(m, o, n)
           d == More(c, a, overflow)
<1>1. at[t].pc = "entered" /\ o.kind = "read" /\ Loop(t, o.life, d)
  BY DEF ReadDone
<1>2. o \in Ops /\ o.sess \in 1 .. con.id /\ Good(con)
  BY <1>1, EnteredOp DEF IInv
<1>3. o.kind = "read" => (Mine(con, o) <=> o.sess = con.id /\ o.life = con.life)
  BY DEF Mine
<1> HIDE DEF o
<1>4. /\ Good(m) /\ Calm(con, m) /\ m.status = con.status /\ m.id = con.id
      /\ m.life = con.life /\ m.rd = con.rd /\ m.ops = con.ops
      /\ (m.status /\ m.life = o.life /\ m.id = o.sess) \/ m.id \in m.spoiled
  BY <1>2, MetGood
<1> HIDE DEF m
<1>5. /\ Good(c) /\ c.id = m.id /\ c.status = m.status /\ c.life = m.life
      /\ c.ops = m.ops /\ c.spoiled = m.spoiled
  BY <1>4, ConfirmedGood
<1> HIDE DEF c
<1>6. /\ Good(d) /\ d.id = c.id /\ (d.status => c.status)
      /\ Running(d) =>
           /\ Running(c) /\ d.life = c.life /\ c.rd = Null /\ d.rd = a
           /\ \E x \in Ops : d.ops = c.ops \cup {x} /\ Mine(d, x) /\ x.win = a
                             /\ x.res # "canceled"
  BY <1>5, MoreGood
<1> HIDE DEF d
<1>7. /\ Good(con') /\ con'.id = d.id /\ con'.status = d.status /\ con'.life = d.life
      /\ con'.ops = d.ops /\ con'.spoiled = d.spoiled /\ con'.rd = d.rd
      /\ \E p : /\ at' = [at EXCEPT ![t] = p] /\ Place(p, d.id) /\ p.pc # "entered"
                /\ p.pc = "input" => p.sess = d.id /\ d.status
  BY <1>1, <1>6, LoopGood
<1>8. ASSUME Running(con')
      PROVE  /\ Running(con) /\ Mine(con, o) /\ con'.life = con.life
             /\ con'.rd \in Addresses
             /\ \E x \in Ops : /\ con'.ops = con.ops \cup {x} /\ Mine(con', x)
                               /\ x.win = con'.rd /\ x.res # "canceled"
  <2>1. Running(d)
    BY <1>7, <1>8 DEF Running
  <2>2. Running(m)
    BY <1>5, <1>6, <2>1 DEF Running
  <2>3. Running(con)
    BY <1>4, <2>2 DEF Calm
  <2>4. o.sess = con.id /\ o.life = con.life
    BY <1>4, <2>2 DEF Running
  <2>5. \A x : Mine(con', x) <=> Mine(d, x)
    BY <1>7 DEF Mine
  <2>6. QED
    BY <1>1, <1>3, <1>4, <1>5, <1>6, <1>7, <2>1, <2>3, <2>4, <2>5
<1>9. QED
  <2>1. PICK p : /\ at' = [at EXCEPT ![t] = p] /\ Place(p, con.id) /\ p.pc # "entered"
                 /\ p.pc = "input" => p.sess = con.id /\ con.status
    BY <1>4, <1>5, <1>6, <1>7
  <2>2. con'.id = con.id
    BY <1>4, <1>5, <1>6, <1>7
  <2>3. IInv'
    BY <1>1, <1>7, <1>8, <2>1, <2>2, ReadKeeps DEF o
  <2>4. QED
    BY <2>1, <2>3

LEMMA ReadFailedKeeps ==
  ASSUME IInv, NEW t \in Threads, NEW a \in Addresses, ReadFailed(t, a)
  PROVE  IInv'
<1> DEFINE o == at[t].op
           m == Met(con, o.life, o.sess)
           c == RolledBack(m)
<1>1. /\ at[t].pc = "entered" /\ o.kind = "read"
      /\ at' = [at EXCEPT ![t] = Idle]
      /\ con' = CASE o.res = "would_block" -> More(c, a, FALSE)
                  [] o.res = "canceled"    -> c
                  [] OTHER                 -> Stopped(c)
  BY DEF ReadFailed
<1>2. /\ o \in Ops /\ o.sess \in 1 .. con.id /\ Good(con) /\ Place(Idle, con.id)
      /\ Idle.pc # "entered"
  BY <1>1, EnteredOp DEF IInv
<1>3. o.kind = "read" => (Mine(con, o) <=> o.sess = con.id /\ o.life = con.life)
  BY DEF Mine
<1>4. Mine(con, o) /\ Running(con) => o.res # "canceled"
  BY <1>1 DEF IInv, Listening, There, Fits
<1> HIDE DEF o
<1>5. /\ Good(m) /\ Calm(con, m) /\ m.status = con.status /\ m.id = con.id
      /\ m.life = con.life /\ m.rd = con.rd /\ m.ops = con.ops
      /\ (m.status /\ m.life = o.life /\ m.id = o.sess) \/ m.id \in m.spoiled
  BY <1>2, MetGood
<1> HIDE DEF m
<1>6. /\ Good(c) /\ c.id = m.id /\ c.status = m.status /\ c.life = m.life
      /\ c.ops = m.ops /\ c.spoiled = m.spoiled
  BY <1>5, RolledBackGood
<1> HIDE DEF c
<1>7. Running(c) => Running(con) /\ Mine(con, o) /\ c.ops = con.ops /\ c.life = con.life
  <2>1. Running(c) => Running(m)
    BY <1>6 DEF Running
  <2>2. Running(m) => Running(con) /\ o.sess = con.id /\ o.life = con.life
    BY <1>5 DEF Calm, Running
  <2>3. QED
    BY <1>1, <1>3, <1>5, <1>6, <2>1, <2>2
<1>8. /\ Good(con') /\ con'.id = con.id
      /\ Running(con') =>
           /\ Running(con) /\ Mine(con, o) /\ con'.life = con.life
           /\ con'.rd \in Addresses
           /\ \E x \in Ops : /\ con'.ops = con.ops \cup {x} /\ Mine(con', x)
                             /\ x.win = con'.rd /\ x.res # "canceled"
  <2>1. CASE o.res = "would_block"
    <3> DEFINE d == More(c, a, FALSE)
    <3>1. con' = d
      BY <1>1, <2>1
    <3>2. /\ Good(d) /\ d.id = c.id
          /\ Running(d) =>
               /\ Running(c) /\ d.life = c.life /\ c.rd = Null /\ d.rd = a
               /\ \E x \in Ops : d.ops = c.ops \cup {x} /\ Mine(d, x) /\ x.win = a
                                 /\ x.res # "canceled"
      BY <1>6, MoreGood
    <3> HIDE DEF d
    <3>3. QED
      BY <1>5, <1>6, <1>7, <3>1, <3>2
  <2>2. CASE o.res = "canceled"
    <3>1. con' = c
      BY <1>1, <2>2
    <3>2. ~Running(c)
      BY <1>4, <1>7, <2>2
    <3>3. QED
      BY <1>5, <1>6, <3>1, <3>2
  <2>3. CASE o.res \notin {"would_block", "canceled"}
    <3>1. con' = Stopped(c)
      BY <1>1, <2>3
    <3>2. Allowed(c)
      BY <1>5, <1>6 DEF Allowed
    <3>3. Good(Stopped(c)) /\ ~Stopped(c).status /\ Stopped(c).id = c.id
      BY <1>6, <3>2, StoppedGood
    <3>4. QED
      BY <1>5, <1>6, <3>1, <3>3 DEF Running
  <2>4. QED
    BY <2>1, <2>2, <2>3
<1>9. QED
  BY <1>1, <1>2, <1>8, ReadKeeps DEF o

LEMMA WriteDoneKeeps ==
  ASSUME IInv, NEW t \in Threads, WriteDone(t)
  PROVE  IInv'
<1> DEFINE o == at[t].op
           c == Met(con, o.life, o.sess)
<1>1. /\ at[t].pc = "entered" /\ o.kind = "write"
      /\ at' = [at EXCEPT ![t] = Idle]
      /\ con' = CASE o.res = "data"     -> Written(c)
                  [] o.res = "canceled" -> c
                  [] OTHER              -> Stopped(c)
  BY DEF WriteDone
<1>2. /\ o \in Ops /\ o.sess \in 1 .. con.id /\ Good(con) /\ Place(Idle, con.id)
      /\ Idle.pc # "entered" /\ ~Mine(con, o)
  BY <1>1, EnteredOp DEF IInv, Mine
<1> HIDE DEF o
<1>3. /\ Good(c) /\ Calm(con, c) /\ c.id = con.id
      /\ (c.status /\ c.life = o.life /\ c.id = o.sess) \/ c.id \in c.spoiled
  BY <1>2, MetGood
<1> HIDE DEF c
<1>4. Good(con') /\ con'.id = con.id /\ Calm(c, con')
  <2>1. CASE o.res = "data"
    <3>1. con' = Written(c)
      BY <1>1, <2>1
    <3>2. QED
      BY <1>3, <3>1, WrittenGood
  <2>2. CASE o.res = "canceled"
    <3>1. con' = c
      BY <1>1, <2>2
    <3>2. QED
      BY <1>3, <3>1 DEF Calm
  <2>3. CASE o.res \notin {"data", "canceled"}
    <3>1. con' = Stopped(c) /\ Allowed(c)
      BY <1>1, <1>3, <2>3 DEF Allowed
    <3>2. QED
      BY <1>3, <3>1, StoppedGood
  <2>4. QED
    BY <2>1, <2>2, <2>3
<1>5. Calm(con, con')
  BY <1>3, <1>4, CalmTwice
<1>6. QED
  BY <1>1, <1>2, <1>4, <1>5, CalmKeeps DEF o

LEMMA ReturnKeeps ==
  ASSUME IInv, NEW t \in Threads, Return(t)
  PROVE  /\ IInv'
         /\ \E p : /\ at' = [at EXCEPT ![t] = p]
                   /\ p.pc = "input" => p.sess = con.id /\ con.status
<1>1. at[t].pc # "entered" /\ Loop(t, at[t].life, con) /\ Good(con)
  BY DEF Return, IInv
<1>2. /\ Good(con') /\ con'.id = con.id /\ con'.status = con.status
      /\ con'.life = con.life /\ con'.ops = con.ops /\ con'.spoiled = con.spoiled
      /\ con'.rd = con.rd
      /\ \E p : /\ at' = [at EXCEPT ![t] = p] /\ Place(p, con.id) /\ p.pc # "entered"
                /\ p.pc = "input" => p.sess = con.id /\ con.status
  BY <1>1, LoopGood
<1>3. Calm(con, con')
  BY <1>2 DEF Calm, Running, Reading
<1>4. QED
  BY <1>1, <1>2, <1>3, CalmKeeps

(* The output handler runs on the object as it is now. *)
LEMMA MetOutput ==
  ASSUME Good(con), NEW l, NEW k \in 1 .. con.id, NEW nil \in BOOLEAN,
         NEW overflow \in BOOLEAN, con' = Output(Met(con, l, k), k, nil, overflow)
  PROVE  Good(con') /\ Calm(con, con') /\ con'.id = con.id /\ (con'.status => con.status)
<1> DEFINE c == Met(con, l, k)
           d == Output(c, k, nil, overflow)
<1>1. /\ Good(c) /\ Calm(con, c) /\ c.id = con.id /\ c.status = con.status
      /\ (c.status /\ c.life = l /\ c.id = k) \/ c.id \in c.spoiled
  BY MetGood
<1>2. k \in Sessions
  <2>1. con.id \in 0 .. MaxSessions
    BY Fields DEF Good, Typed
  <2>2. QED
    BY <2>1, ConnectionBounds DEF Sessions
<1> HIDE DEF c
<1>3. Good(d) /\ Calm(c, d) /\ d.id = c.id /\ (d.status => c.status)
  BY <1>1, <1>2, OutputGood
<1>4. con' = d
  BY DEF c
<1> HIDE DEF d
<1>5. Calm(con, d)
  BY <1>1, <1>3, CalmTwice
<1>6. QED
  BY <1>1, <1>3, <1>4, <1>5

LEMMA ReplyKeeps ==
  ASSUME IInv, NEW t \in Threads, NEW nil \in BOOLEAN, NEW overflow \in BOOLEAN,
         Reply(t, nil, overflow)
  PROVE  IInv'
<1>1. /\ at[t].pc = "input" /\ at' = at /\ Good(con)
      /\ con' = Output(Met(con, at[t].life, at[t].sess), at[t].sess, nil, overflow)
  BY DEF Reply, IInv
<1>2. at[t].sess \in 1 .. con.id
  BY <1>1 DEF IInv, Placed, Place, Idle
<1>3. Good(con') /\ Calm(con, con') /\ con'.id = con.id
  BY <1>1, <1>2, MetOutput
<1>4. QED
  BY <1>1, <1>3, CalmKeeps

LEMMA OutputLockedKeeps ==
  ASSUME IInv, NEW t \in Threads, NEW overflow \in BOOLEAN, OutputLocked(t, overflow)
  PROVE  IInv'
<1>1. /\ at[t].pc = "output" /\ at' = [at EXCEPT ![t] = Idle] /\ Good(con)
      /\ con' = Output(Met(con, at[t].life, at[t].sess), at[t].sess, at[t].nil, overflow)
  BY DEF OutputLocked, IInv
<1>2. at[t].sess \in 1 .. con.id /\ at[t].nil \in BOOLEAN
  BY <1>1 DEF IInv, Placed, Place, Idle
<1>3. Good(con') /\ Calm(con, con') /\ con'.id = con.id
  BY <1>1, <1>2, MetOutput
<1>4. Place(Idle, con.id) /\ Idle.pc # "entered" /\ at[t].pc # "entered"
  BY <1>1 DEF Place, Idle
<1>5. QED
  BY <1>1, <1>3, <1>4, CalmKeeps

LEMMA CallOutputKeeps ==
  ASSUME IInv, NEW t \in Threads, NEW k \in Sessions, NEW nil \in BOOLEAN,
         CallOutput(t, k, nil)
  PROVE  IInv'
<1> DEFINE p == InOutput(con.lives[k], k, nil)
<1>1. /\ at[t] = Idle /\ k \in con.started /\ at' = [at EXCEPT ![t] = p] /\ con' = con
  BY DEF CallOutput
<1>2. p.pc = "output" /\ p.sess = k /\ p.nil = nil
  BY DEF InOutput
<1>3. k \in 1 .. con.id
  BY <1>1 DEF IInv, Good, Past
<1> HIDE DEF p
<1>4. Place(p, con.id) /\ p.pc # "entered" /\ at[t].pc # "entered"
  BY <1>1, <1>2, <1>3 DEF Place, Idle
<1>5. Good(con') /\ con'.id = con.id /\ Calm(con, con')
  BY <1>1 DEF IInv, Calm
<1>6. QED
  BY <1>1, <1>4, <1>5, CalmKeeps

(* A call after which no clean session runs. *)
LEMMA QuietKeeps ==
  ASSUME IInv, Good(con'), con.id <= con'.id, ~Running(con'), at' = at
  PROVE  IInv'
<1>1. con.id \in Nat /\ con'.id \in Nat
  BY Fields DEF IInv, Good, Typed
<1>2. Placed'
  BY <1>1, PlaceUp DEF IInv, Placed
<1>3. QED
  BY <1>2 DEF IInv, Listening

LEMMA StartKeeps ==
  ASSUME IInv, NEW a \in Addresses, NEW quits \in BOOLEAN, NEW overflow \in BOOLEAN,
         Start(a, quits, overflow)
  PROVE  IInv'
<1>1. PICK c : /\ c = [Initialized(con) EXCEPT !.status = TRUE]
               /\ \E s : /\ s = [c EXCEPT !.started = c.started \cup {c.id}]
                         /\ con' = More(IF quits THEN Stopped(s) ELSE s, a, overflow)
  BY DEF Start
<1>2. PICK s : /\ s = [c EXCEPT !.started = c.started \cup {c.id}]
               /\ con' = More(IF quits THEN Stopped(s) ELSE s, a, overflow)
  BY <1>1
<1>3. con.id < MaxSessions /\ at' = at /\ Good(con)
  BY DEF Start, IInv
<1>4. con.id \in Nat /\ con.ops \in SUBSET Ops
  BY Fields DEF IInv, Good, Typed
<1>5. Good(s) /\ s.id = con.id + 1 /\ s.life = con.life /\ s.ops = con.ops /\ s.status
  <2> DEFINE b == Initialized(con)
             w == c.started \cup {c.id}
  <2>1. c = [b EXCEPT !.status = TRUE]
    BY <1>1
  <2>2. s = [c EXCEPT !.started = w]
    BY <1>2
  <2>3. b \in Connections /\ b.id \in Sessions
    BY <1>3, InitializedGood DEF Good, Typed
  <2>4. b = Initialized(con) /\ w = c.started \cup {c.id}
    OBVIOUS
  <2> HIDE DEF b, w
  <2>5. /\ c \in Connections /\ c.status = TRUE /\ c.started = b.started
        /\ c.id = b.id /\ c.life = b.life
        /\ c.rd = b.rd /\ c.blocks = b.blocks /\ c.waits = b.waits /\ c.out = b.out
        /\ c.ops = b.ops /\ c.shut = b.shut /\ c.spoiled = b.spoiled /\ c.lives = b.lives
    BY <2>1, <2>3, SetStatus
  <2>6. w \in SUBSET Sessions /\ w = b.started \cup {b.id}
    BY <2>3, <2>4, <2>5, Fields
  <2>7. /\ s \in Connections /\ s.status = c.status /\ s.started = w
        /\ s.id = c.id /\ s.life = c.life
        /\ s.rd = c.rd /\ s.blocks = c.blocks /\ s.waits = c.waits /\ s.out = c.out
        /\ s.ops = c.ops /\ s.shut = c.shut /\ s.spoiled = c.spoiled /\ s.lives = c.lives
    BY <2>2, <2>5, <2>6, SetStarted
  <2>8. /\ s \in Connections /\ s.started = b.started \cup {b.id}
        /\ s.status = TRUE /\ s.id = b.id /\ s.life = b.life
        /\ s.rd = b.rd /\ s.blocks = b.blocks /\ s.waits = b.waits /\ s.out = b.out
        /\ s.ops = b.ops /\ s.shut = b.shut /\ s.spoiled = b.spoiled /\ s.lives = b.lives
    BY <2>5, <2>6, <2>7
  <2>9. QED
    BY <1>3, <2>4, <2>8, StartedGood
<1> DEFINE e == IF quits THEN Stopped(s) ELSE s
           d == More(e, a, overflow)
<1>6. Good(e) /\ e.id = s.id /\ (e.status => e = s)
  <2>1. CASE quits
    <3>1. Allowed(s) /\ e = Stopped(s)
      BY <1>5, <2>1 DEF Allowed
    <3> HIDE DEF e
    <3>2. QED
      BY <1>5, <3>1, StoppedGood
  <2>2. CASE ~quits
    BY <1>5, <2>2
  <2>3. QED
    BY <2>1, <2>2
<1>7. con' = d
  BY <1>2
<1> HIDE DEF e
<1>8. /\ Good(d) /\ d.id = e.id
      /\ Running(d) =>
           /\ Running(e) /\ d.life = e.life /\ d.rd = a
           /\ \E o \in Ops : d.ops = e.ops \cup {o} /\ Mine(d, o) /\ o.win = a
                             /\ o.res # "canceled"
  BY <1>6, MoreGood
<1> HIDE DEF d
<1>9. Good(con') /\ con'.id = con.id + 1 /\ con.id <= con'.id
  BY <1>4, <1>5, <1>6, <1>7, <1>8
<1>10. CASE ~Running(con')
  BY <1>3, <1>9, <1>10, QuietKeeps
<1>11. CASE Running(con')
  <2>1. PICK o \in Ops : /\ con'.ops = con.ops \cup {o} /\ Mine(con', o) /\ o.win = con'.rd
                         /\ o.res # "canceled" /\ con'.rd = a
    BY <1>5, <1>6, <1>7, <1>8, <1>11 DEF Running
  <2>2. con'.id \notin 1 .. con.id
    BY <1>4, <1>9
  <2>3. Here' = {o}
    <3>1. \A x \in con.ops : ~Mine(con', x)
      BY <1>3, <2>2 DEF Good, Past, Mine
    <3>2. Here' = {x \in con'.ops : Mine(con', x)}
      BY DEF Here, Mine
    <3>3. QED
      BY <2>1, <3>1, <3>2
  <2>4. There' = {}
    <3>1. \A t \in Threads : at[t].pc = "entered" => at[t].op.sess \in 1 .. con.id
      BY DEF IInv, Placed, Place, Idle
    <3>2. There' = {t \in Threads : at'[t].pc = "entered" /\ Mine(con', at'[t].op)}
      BY DEF There, Mine
    <3>3. QED
      BY <1>3, <2>2, <3>1, <3>2 DEF Mine
  <2>5. con'.rd # Null
    BY <2>1, ConnectionBounds
  <2>6. Listening'
    BY <2>1, <2>3, <2>4, <2>5 DEF Listening, Fits
  <2>7. Placed'
    <3>1. con'.id \in Nat
      BY <1>4, <1>9
    <3>2. QED
      BY <1>3, <1>4, <1>9, <3>1, PlaceUp DEF IInv, Placed
  <2>8. QED
    BY <1>9, <2>6, <2>7 DEF IInv
<1>12. QED
  BY <1>10, <1>11

LEMMA CallsKeep ==
  ASSUME IInv, StartThrows \/ Stop \/ Close \/ Attach \/ Reset
  PROVE  IInv'
<1>1. Good(con) /\ con.id \in Nat /\ con.id \in 0 .. MaxSessions /\ con.status \in BOOLEAN
  BY Fields DEF IInv, Good, Typed
<1>2. con.status => con.id # 0
  BY ConnectionBounds DEF IInv, Good, Alone, Sessions
<1>3. CASE StartThrows
  <2>1. con' = Initialized(con) /\ at' = at /\ con.id < MaxSessions
    BY <1>3 DEF StartThrows
  <2>2. Good(con') /\ con'.id = con.id + 1 /\ ~Running(con')
    BY <1>1, <2>1, InitializedGood
  <2>3. con.id <= con'.id
    BY <1>1, <2>2
  <2>4. QED
    BY <2>1, <2>2, <2>3, QuietKeeps
<1>4. CASE Stop
  <2> DEFINE f == ~con.status
             s == Spoil(con, f)
  <2>1. con' = Stopped(s) /\ at' = at /\ f \in BOOLEAN
    BY <1>4 DEF Stop
  <2>2. Good(s) /\ s.status = con.status /\ s.id = con.id /\ (f => Allowed(s))
    BY <1>1, <2>1, SpoilGood
  <2>3. Allowed(s)
    BY <2>2 DEF Allowed
  <2> HIDE DEF s
  <2>4. Good(con') /\ ~con'.status /\ con'.id = con.id
    BY <2>1, <2>2, <2>3, StoppedGood
  <2>5. ~Running(con') /\ con.id <= con'.id
    BY <1>1, <2>4 DEF Running
  <2>6. QED
    BY <2>1, <2>4, <2>5, QuietKeeps
<1>5. CASE Close \/ Attach
  <2> DEFINE f == con.status
             s == Spoil(con, f)
  <2>1. (con' = Closed(s) \/ con' = [Closed(s) EXCEPT !.open = TRUE]) /\ at' = at
        /\ f \in BOOLEAN
    BY <1>1, <1>5 DEF Close, Attach
  <2>2. Good(s) /\ s.status = con.status /\ s.id = con.id /\ (f => s.id \in s.spoiled)
    BY <1>1, <1>2, <2>1, SpoilGood
  <2> HIDE DEF s
  <2>3. Good(con') /\ con'.id = s.id /\ con'.status = s.status /\ con'.spoiled = s.spoiled
    BY <2>1, <2>2, ClosedGood
  <2>4. ~Running(con') /\ con.id <= con'.id
    BY <1>1, <2>2, <2>3 DEF Running
  <2>5. QED
    BY <2>1, <2>3, <2>4, QuietKeeps
<1>6. CASE Reset
  <2> DEFINE s == Spoil(con, TRUE)
  <2>1. con' = Renewed(s) /\ at' = at
    BY <1>6 DEF Reset
  <2>2. Good(s) /\ s.status = con.status /\ s.id = con.id /\ (con.id # 0 => s.id \in s.spoiled)
    BY <1>1, SpoilGood
  <2> HIDE DEF s
  <2>3. Good(con') /\ con'.id = s.id /\ con'.status = s.status /\ con'.spoiled = s.spoiled
    BY <2>1, <2>2, RenewedGood
  <2>4. ~Running(con') /\ con.id <= con'.id
    BY <1>1, <1>2, <2>2, <2>3 DEF Running
  <2>5. QED
    BY <2>1, <2>3, <2>4, QuietKeeps
<1>7. QED
  BY <1>3, <1>4, <1>5, <1>6

LEMMA Stepwise == IInv /\ [Next]_vars => IInv'
<1> SUFFICES ASSUME IInv, [Next]_vars
             PROVE  IInv'
  OBVIOUS
<1>1. CASE UNCHANGED vars
  BY <1>1 DEF vars, IInv, Good, Typed, Past, Silent, Alone, Ended, Own, Placed,
              Listening, Running, Here, There, Fits, Mine
<1>2. CASE Handlers
  <2>1. ASSUME NEW o \in con.ops,
               \/ \E res \in {"data", "error"} : Completes(o, res)
               \/ Completes(o, "would_block")
               \/ \E t \in Threads : Enter(t, o)
        PROVE  IInv'
    BY <2>1, CompletesKeeps, EnterKeeps
  <2>2. ASSUME NEW t \in Threads, NEW a \in Addresses,
               \/ \E n \in 1 .. MaxBlocks, over \in BOOLEAN : ReadDone(t, n, a, over)
               \/ ReadFailed(t, a)
        PROVE  IInv'
    <3>1. 1 .. MaxBlocks \subseteq Nat
      BY ConnectionBounds
    <3>2. QED
      BY <2>2, <3>1, ReadDoneKeeps, ReadFailedKeeps
  <2>3. ASSUME NEW t \in Threads,
               \/ WriteDone(t)
               \/ Return(t)
               \/ \E nil, over \in BOOLEAN : Reply(t, nil, over)
               \/ \E k \in Sessions, nil \in BOOLEAN : CallOutput(t, k, nil)
               \/ \E over \in BOOLEAN : OutputLocked(t, over)
        PROVE  IInv'
    BY <2>3, WriteDoneKeeps, ReturnKeeps, ReplyKeeps, CallOutputKeeps, OutputLockedKeeps
  <2>4. QED
    BY <1>2, <2>1, <2>2, <2>3 DEF Handlers
<1>3. CASE Calls
  BY <1>3, StartKeeps, CallsKeep DEF Calls
<1>4. CASE Drop
  BY <1>4, DropKeeps
<1>5. QED
  BY <1>1, <1>2, <1>3, <1>4 DEF Next

(* The object is good and listening in every state the code reaches, for   *)
(* any number of threads, sessions, lives and blocks.                      *)
THEOREM Invariance == Spec => []IInv
<1>1. QED
  BY Initially, Stepwise, PTL DEF Spec

(* The fields of the object keep their types, and a write is awaited only  *)
(* while something is to be written.                                       *)
THEOREM TypeCorrect == Spec => []TypeOK
<1>1. IInv => TypeOK
  <2> SUFFICES ASSUME IInv
               PROVE  TypeOK
    OBVIOUS
  <2>1. 1 .. con.id \subseteq Sessions
    BY Fields DEF IInv, Good, Typed, Sessions
  <2>2. QED
    BY <2>1 DEF TypeOK, IInv, Good, Typed, Placed, Place
<1>2. QED
  BY <1>1, Invariance, PTL

(* Every end of a session nothing foreign had a part in is told, by one    *)
(* call of its shutdown handler, before an output handler tells it.        *)
THEOREM ReportedHolds == Spec => []Reported
<1>1. IInv => Reported
  <2> SUFFICES ASSUME IInv, NEW k \in con.started, Clean(k)
               PROVE  /\ (con.id # k \/ ~con.status) <=> con.shut[k] = 1
                      /\ Over(k) => con.shut[k] = 1
    BY DEF Reported
  <2>1. (con.id # k \/ ~con.status) <=> con.shut[k] = 1
    BY DEF IInv, Good, Ended, Clean
  <2>2. con.id = k /\ con.status => con.lives[k] = con.life
    BY DEF IInv, Good, Alone, Clean
  <2>3. QED
    BY <2>1, <2>2 DEF Over, Alive
<1>2. QED
  BY <1>1, Invariance, PTL

(* A session that runs has exactly one read outstanding, or completed and  *)
(* on its way through a thread, and its buffer expects that one.           *)
THEOREM ReadsOnHolds == Spec => []ReadsOn
<1>1. IInv => ReadsOn
  <2> SUFFICES ASSUME IInv, con.status, Clean(con.id)
               PROVE  con.rd # Null /\ \E o \in Reads : Reads = {o} /\ o.win = con.rd
    BY DEF ReadsOn
  <2>1. Reads = Here \cup {at[t].op : t \in There}
    BY DEF Reads, Here, There, Mine
  <2>2. Running(con)
    BY DEF Running, Clean
  <2>3. QED
    BY <2>1, <2>2 DEF IInv, Listening, Fits
<1>2. QED
  BY <1>1, Invariance, PTL

(* A session hands to its user what was received in it, and writes what    *)
(* was output to it.                                                       *)
THEOREM OwnDataHolds == Spec => []OwnData
<1>1. IInv => OwnData
  BY DEF IInv, Good, Own, All, OwnData, Clean
<1>2. QED
  BY <1>1, Invariance, PTL

(* A session that has ended leaves nothing to the next one. *)
THEOREM CleanStopHolds == Spec => []CleanStop
<1>1. IInv => CleanStop
  BY DEF IInv, Good, Silent, CleanStop, Clean
<1>2. QED
  BY <1>1, Invariance, PTL

(* Which steps take a block for the input handler. *)
LEMMA Enters ==
  ASSUME IInv, Next, NEW t \in Threads, at'[t] # at[t], at'[t].pc = "input"
  PROVE  con.status /\ at'[t].sess = con.id
<1> DEFINE Elsewhere == \/ at' = at
                        \/ \E u \in Threads : \E p : at' = [at EXCEPT ![u] = p] /\ p.pc # "input"
           Taken == \E u \in Threads : \E p :
                      /\ at' = [at EXCEPT ![u] = p]
                      /\ p.pc = "input" => p.sess = con.id /\ con.status
<1>1. \A u \in Threads : \A p : at' = [at EXCEPT ![u] = p] => at'[t] = IF u = t THEN p ELSE at[t]
  BY DEF IInv, Placed
<1>2. Idle.pc # "input"
  BY DEF Idle
<1>3. \A o : Entered(o).pc # "input"
  BY DEF Entered
<1>4. \A l, k, nil : InOutput(l, k, nil).pc # "input"
  BY DEF InOutput
<1>5. CASE Handlers
  <2>1. ASSUME NEW o \in con.ops,
               \/ \E res \in {"data", "error"} : Completes(o, res)
               \/ Completes(o, "would_block")
               \/ \E u \in Threads : Enter(u, o)
        PROVE  Elsewhere
    BY <1>3, <2>1 DEF Completes, Enter
  <2>2. ASSUME NEW u \in Threads, NEW a \in Addresses,
               \/ \E n \in 1 .. MaxBlocks, over \in BOOLEAN : ReadDone(u, n, a, over)
               \/ ReadFailed(u, a)
        PROVE  Elsewhere \/ Taken
    <3>1. 1 .. MaxBlocks \subseteq Nat
      BY ConnectionBounds
    <3>2. ReadFailed(u, a) => Elsewhere
      BY <1>2 DEF ReadFailed
    <3>3. QED
      BY <2>2, <3>1, <3>2, ReadDoneKeeps
  <2>3. ASSUME NEW u \in Threads,
               \/ WriteDone(u)
               \/ Return(u)
               \/ \E nil, over \in BOOLEAN : Reply(u, nil, over)
               \/ \E k \in Sessions, nil \in BOOLEAN : CallOutput(u, k, nil)
               \/ \E over \in BOOLEAN : OutputLocked(u, over)
        PROVE  Elsewhere \/ Taken
    <3>1. Return(u) => Taken
      BY ReturnKeeps
    <3>2. QED
      BY <1>2, <1>4, <2>3, <3>1 DEF WriteDone, Reply, CallOutput, OutputLocked
  <2>4. QED
    BY <1>1, <1>5, <2>1, <2>2, <2>3 DEF Handlers
<1>6. CASE Calls \/ Drop
  BY <1>6 DEF Calls, Drop, Start, StartThrows, Stop, Close, Attach, Reset
<1>7. QED
  BY <1>5, <1>6 DEF Next

(* After a session's shutdown handler none of its data reaches the user.   *)
THEOREM SilentAfterShutdownHolds == Spec => SilentAfterShutdown
<1>1. IInv /\ [Next]_vars =>
        [\A t \in Threads : at'[t] # at[t] /\ at'[t].pc = "input" =>
           con.shut[at'[t].sess] = 0]_vars
  BY Enters DEF IInv, Good, Alone
<1>2. QED
  BY <1>1, Invariance, PTL DEF Spec, SilentAfterShutdown
=============================================================================
