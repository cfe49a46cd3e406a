----------------------------- MODULE OwnerProofs -----------------------------
(***************************************************************************)
(* Proofs about Owner, for any threads, callbacks, copies, ids and lives.  *)
(* The inductive invariant is the conjunction of the properties with what  *)
(* they rest on: a copy is in one thread's hands, the last copy is         *)
(* recognised, some copy has not yet made the test, lives are distinct.    *)
(***************************************************************************)
EXTENDS Owner, TLAPS

(* A copy is in the hands of one thread.                                   *)
Apart == \A t, u \in Threads : at[t].copy = at[u].copy /\ at[t].copy # None => t = u

(* A destructor that found itself the last one is.                         *)
SoleIsSole == \A t \in Threads :
  at[t].place = "sole" => \A c \in Copies : of[c] = of[at[t].copy] => c = at[t].copy

(* The flag is set by whatever answers the callback.                       *)
Counted == \A h \in Callbacks :
  calls[h].ran + calls[h].reported = IF calls[h].ready THEN 1 ELSE 0

(* Some copy has not yet found that it is not the last.                    *)
Open(c) == \A t \in Threads : at[t] # [place |-> "shared", copy |-> c]

Hope == \A h \in Callbacks : weak[h] # None =>
  calls[h].ready \/ calls[h].lost \/ \E c \in Copies : of[c] = h /\ Open(c)

(* The owner's life and the tracked ids' are different objects.            *)
Distinct == /\ \A id \in Ids : map[id] # alive
            /\ \A id, jd \in Ids : map[id] = map[jd] /\ map[id] # None => id = jd

(* The owner does not refer to a life that it ended.                       *)
Cut == \A h \in over : (\E c \in Copies : of[c] = h) =>
         weak[h] # alive /\ \A id \in Ids : map[id] # weak[h]

IInv == /\ TypeOK /\ Apart /\ SoleIsSole /\ Counted /\ ReportedLast
        /\ Hope /\ Distinct /\ Cut

(* What a fresh object is, as far as the owner and the callbacks in use    *)
(* are concerned.                                                          *)
LEMMA FreshIsNew ==
  ASSUME \E l \in Lives : IsFresh(l)
  PROVE  /\ Fresh \in Lives /\ Fresh # alive /\ \A id \in Ids : map[id] # Fresh
         /\ \A h \in Callbacks, c \in Copies : of[c] = h => weak[h] # Fresh
<1>1. IsFresh(Fresh)
  BY DEF Fresh
<1>2. QED
  BY <1>1 DEF IsFresh, Alive, Held
-----------------------------------------------------------------------------
(* A new callback: what Make does to the invariant, for any life of the    *)
(* owner.                                                                  *)
LEMMA MakeKeeps ==
  ASSUME IInv, NEW h \in Callbacks, NEW c \in Copies, NEW l \in Lives, Make(h, c, l),
         map' \in [Ids -> Lives \cup {None}]
  PROVE  TypeOK' /\ Apart' /\ SoleIsSole' /\ Counted' /\ ReportedLast' /\ Hope'
<1> USE OwnerAssumption
<1>1. \A d \in Copies : of[d] # h /\ (d # c => of'[d] = of[d])
  BY DEF IInv, TypeOK, Make, Held
<1>2. of'[c] = h /\ at' = at /\ calls' = [calls EXCEPT ![h] = Uncalled]
  BY DEF IInv, TypeOK, Make
<1>3. \A t \in Threads : at[t].copy # c
  BY DEF IInv, TypeOK, Make
<1>4. TypeOK'
  <2>1. calls' \in [Callbacks -> [ready : BOOLEAN, ran : Nat, reported : Nat, lost : BOOLEAN]]
    BY DEF IInv, TypeOK, Make, Uncalled
  <2>2. \A t \in Threads : /\ at'[t].copy # None <=> at'[t].place \in InHand
                           /\ at'[t].copy # None => of'[at'[t].copy] # None
    BY <1>1, <1>2, <1>3 DEF IInv, TypeOK
  <2>3. weak' \in [Callbacks -> Lives \cup {None}] /\ weak'[h] = l
        /\ \A g \in Callbacks : g # h => weak'[g] = weak[g]
    BY DEF IInv, TypeOK, Make
  <2>4. \A d \in Copies : of'[d] # None => weak'[of'[d]] # None
    BY <1>1, <1>2, <2>3 DEF IInv, TypeOK
  <2>5. of' \in [Copies -> Callbacks \cup {None}]
    BY DEF IInv, TypeOK, Make
  <2>6. QED
    BY <2>1, <2>2, <2>3, <2>4, <2>5 DEF IInv, TypeOK, Make
<1>5. Apart'
  BY <1>2 DEF IInv, Apart
<1>6. SoleIsSole'
  <2>1. ASSUME NEW t \in Threads, at[t].place = "sole", NEW d \in Copies,
               of'[d] = of'[at[t].copy]
        PROVE  d = at[t].copy
    <3>1. at[t].copy \in Copies /\ at[t].copy # c
      BY <2>1, <1>3 DEF IInv, TypeOK, InHand
    <3>2. of'[at[t].copy] = of[at[t].copy] /\ of'[at[t].copy] # h
      BY <3>1, <1>1
    <3>3. QED
      BY <2>1, <3>1, <3>2, <1>1, <1>2 DEF IInv, SoleIsSole
  <2>2. QED
    BY <2>1, <1>2 DEF SoleIsSole
<1>7. Counted'
  BY <1>2 DEF IInv, TypeOK, Counted, Uncalled
<1>8. ReportedLast'
  BY <1>1, <1>2 DEF IInv, TypeOK, ReportedLast, Held, Uncalled
<1>9. Hope'
  <2>1. ASSUME NEW g \in Callbacks, weak'[g] # None
        PROVE  calls'[g].ready \/ calls'[g].lost \/ \E d \in Copies : of'[d] = g /\ Open(d)'
    <3>1. CASE g = h
      BY <3>1, <1>2, <1>3 DEF Open
    <3>2. CASE g # h
      <4>1. weak[g] # None /\ calls'[g] = calls[g]
        BY <2>1, <3>2, <1>2 DEF IInv, TypeOK, Make
      <4>2. \A d \in Copies : of[d] = g => of'[d] = g
        BY <1>1 DEF IInv, TypeOK, Make
      <4>3. QED
        BY <4>1, <4>2, <1>2 DEF IInv, Hope, Open
    <3>3. QED
      BY <3>1, <3>2
  <2>2. QED
    BY <2>1 DEF Hope
<1>10. QED
  BY <1>4, <1>5, <1>6, <1>7, <1>8, <1>9
(* A step that leaves the copies, the callbacks and their lives alone, but *)
(* for the thread t, which has no copy in its hands before and after it.   *)
LEMMA OwnerStepKeeps ==
  ASSUME IInv, UNCHANGED <<weak, of, calls>>,
         alive' \in Lives, flag' \in BOOLEAN, map' \in [Ids -> Lives \cup {None}],
         over' \subseteq Callbacks,
         \/ UNCHANGED at
         \/ \E t \in Threads, place \in {"idle", "clear", "release"} :
              at[t].place \in {"idle", "clear", "release"} /\ Goes(t, place, None)
  PROVE  TypeOK' /\ Apart' /\ SoleIsSole' /\ Counted' /\ ReportedLast' /\ Hope'
<1> USE OwnerAssumption
<1>1. \A u \in Threads : \/ at'[u] = at[u]
                         \/ /\ at[u].copy = None /\ at'[u].copy = None
                            /\ at'[u].place \in {"idle", "clear", "release"}
  BY DEF IInv, TypeOK, Goes, InHand
<1>2. at' \in [Threads -> [place : Places, copy : Copies \cup {None}]]
  BY DEF IInv, TypeOK, Goes, Places
<1>3. TypeOK'
  BY <1>1, <1>2 DEF IInv, TypeOK, InHand
<1>4. Apart' /\ SoleIsSole'
  BY <1>1, <1>2 DEF IInv, Apart, SoleIsSole
<1>5. Counted' /\ ReportedLast'
  BY DEF IInv, Counted, ReportedLast, Held
<1>6. Hope'
  <2>1. \A c \in Copies : Open(c) => Open(c)'
    BY <1>1 DEF Open
  <2>2. QED
    BY <2>1 DEF IInv, Hope
<1>7. QED
  BY <1>3, <1>4, <1>5, <1>6

(* A step of the callbacks leaves the lives alone, and copies what it      *)
(* copies from callbacks in use.                                           *)
LEMMA LivesKept ==
  ASSUME IInv, UNCHANGED <<alive, map, weak, over>>,
         \A c \in Copies : of'[c] # None => \E d \in Copies : of[d] = of'[c]
  PROVE  Distinct' /\ Cut'
<1>1. Distinct'
  BY DEF IInv, Distinct
<1>2. \A h \in over : (\E c \in Copies : of'[c] = h) => \E d \in Copies : of[d] = h
  BY OwnerAssumption DEF IInv, TypeOK
<1>3. QED
  BY <1>1, <1>2 DEF IInv, Cut

(* wrap and tracking refer to a life of the owner, which is not cut off.   *)
LEMMA MakeLives ==
  ASSUME IInv, NEW h \in Callbacks, NEW c \in Copies, Make(h, c, weak'[h]),
         Distinct', \A g \in Callbacks \ {h} : \A d \in Copies : of[d] = g =>
                     \A id \in Ids : map'[id] = weak[g] => map[id] = weak[g]
  PROVE  Cut'
<1>1. \A g \in over' : g \in over /\ g # h /\ g \in Callbacks
  BY DEF IInv, TypeOK, Make
<1>2. \A g \in over' : weak'[g] = weak[g]
  BY <1>1 DEF IInv, TypeOK, Make
<1>3. \A g \in over' : \A d \in Copies : of'[d] = g => of[d] = g
  BY <1>1 DEF IInv, TypeOK, Make
<1>4. QED
  BY <1>1, <1>2, <1>3 DEF IInv, Cut, Make

LEMMA WrapKeeps ==
  ASSUME IInv, NEW h \in Callbacks, NEW c \in Copies, Wrap(h, c)
  PROVE  IInv'
<1>1. alive \in Lives /\ map' = map /\ Make(h, c, alive)
  BY DEF IInv, TypeOK, Wrap
<1>2. weak'[h] = alive /\ alive' = alive
  BY <1>1 DEF IInv, TypeOK, Make
<1>3. Distinct'
  BY <1>1, <1>2 DEF IInv, Distinct
<1>4. Cut'
  BY <1>1, <1>2, <1>3, MakeLives
<1>5. QED
  BY <1>1, <1>3, <1>4, MakeKeeps DEF IInv, TypeOK

LEMMA TrackingKeeps ==
  ASSUME IInv, NEW h \in Callbacks, NEW c \in Copies, NEW id \in Ids, Tracking(h, c, id)
  PROVE  IInv'
<1> USE OwnerAssumption
<1>1. CASE map[id] # None
  <2>1. map' = map /\ map[id] \in Lives /\ Make(h, c, map[id])
    BY <1>1 DEF IInv, TypeOK, Tracking
  <2>2. weak'[h] = map[id] /\ alive' = alive
    BY <2>1 DEF IInv, TypeOK, Make
  <2>3. Distinct'
    BY <2>1, <2>2 DEF IInv, Distinct
  <2>4. Cut'
    BY <2>1, <2>2, <2>3, MakeLives
  <2>5. QED
    BY <2>1, <2>3, <2>4, MakeKeeps DEF IInv, TypeOK
<1>2. CASE map[id] = None
  <2>1. /\ Fresh \in Lives /\ Fresh # alive /\ \A jd \in Ids : map[jd] # Fresh
        /\ \A g \in Callbacks, d \in Copies : of[d] = g => weak[g] # Fresh
    BY <1>2, FreshIsNew DEF Tracking
  <2>2. map' = [map EXCEPT ![id] = Fresh]
    BY <1>2 DEF Tracking
  <2>3. Make(h, c, Fresh) /\ map'[id] = Fresh
    BY <2>2 DEF IInv, TypeOK, Tracking
  <2>4. weak'[h] = Fresh /\ alive' = alive
    BY <2>3 DEF IInv, TypeOK, Make
  <2>5. \A jd \in Ids : map'[jd] = IF jd = id THEN Fresh ELSE map[jd]
    BY <2>2 DEF IInv, TypeOK
  <2>6. Distinct'
    BY <2>1, <2>4, <2>5 DEF IInv, Distinct
  <2>7. Cut'
    BY <2>1, <2>3, <2>4, <2>5, <2>6, MakeLives
  <2>8. map' \in [Ids -> Lives \cup {None}]
    BY <2>1, <2>2 DEF IInv, TypeOK
  <2>9. QED
    BY <2>1, <2>3, <2>6, <2>7, <2>8, MakeKeeps DEF IInv
<1>3. QED
  BY <1>1, <1>2

LEMMA ResetKeeps == ASSUME IInv, Reset PROVE IInv'
<1>1. /\ Fresh \in Lives /\ Fresh # alive /\ \A id \in Ids : map[id] # Fresh
      /\ \A h \in Callbacks, c \in Copies : of[c] = h => weak[h] # Fresh
  BY FreshIsNew DEF Reset
<1>2. TypeOK' /\ Apart' /\ SoleIsSole' /\ Counted' /\ ReportedLast' /\ Hope'
  <2>1. alive' \in Lives /\ over' \subseteq Callbacks
    BY <1>1 DEF IInv, TypeOK, Reset
  <2>2. QED
    BY <2>1, OwnerStepKeeps DEF IInv, TypeOK, Reset
<1>3. Distinct'
  BY <1>1 DEF IInv, Distinct, Reset
<1>4. Cut'
  BY <1>1 DEF IInv, TypeOK, Cut, Distinct, Reset
<1>5. QED
  BY <1>2, <1>3, <1>4 DEF IInv

(* release_tracking and enable_tracking(false). *)
LEMMA ForgetKeeps ==
  ASSUME IInv, NEW ids \in SUBSET Ids, Forget(ids), UNCHANGED <<alive, flag, weak, of, calls>>,
         NEW t \in Threads, at[t].place \in {"clear", "release"}, Goes(t, "idle", None)
  PROVE  IInv'
<1> USE OwnerAssumption
<1>1. map' \in [Ids -> Lives \cup {None}] /\ over' \subseteq Callbacks
  BY DEF IInv, TypeOK, Forget
<1>2. TypeOK' /\ Apart' /\ SoleIsSole' /\ Counted' /\ ReportedLast' /\ Hope'
  BY <1>1, OwnerStepKeeps DEF IInv, TypeOK
<1>3. \A id \in Ids : map'[id] = IF id \in ids THEN None ELSE map[id]
  BY DEF Forget
<1>4. alive # None
  BY DEF IInv, TypeOK
<1>5. Distinct'
  BY <1>3, <1>4 DEF IInv, Distinct
<1>6. Cut'
  <2>1. ASSUME NEW h \in over', NEW c \in Copies, of[c] = h
        PROVE  weak[h] # alive /\ \A id \in Ids : map'[id] # weak[h]
    <3>1. weak[h] # None
      BY <2>1 DEF IInv, TypeOK, Forget
    <3>2. CASE h \in over
      BY <2>1, <3>1, <3>2, <1>3 DEF IInv, Cut
    <3>3. CASE h \notin over
      <4>1. PICK id \in ids : weak[h] = map[id]
        BY <3>3 DEF Forget
      <4>2. QED
        BY <3>1, <4>1, <1>3 DEF IInv, Distinct
    <3>4. QED
      BY <3>2, <3>3
  <2>2. QED
    BY <2>1 DEF Cut
<1>7. QED
  BY <1>2, <1>5, <1>6 DEF IInv
-----------------------------------------------------------------------------
LEMMA CopyKeeps ==
  ASSUME IInv, NEW c \in Copies, NEW d \in Copies, Copy(c, d)
  PROVE  IInv'
<1> USE OwnerAssumption
<1>1. /\ of[c] \in Callbacks /\ of[d] = None /\ c # d /\ of'[d] = of[c]
      /\ \A e \in Copies : e # d => of'[e] = of[e]
      /\ \A t \in Threads : at[t].copy # c /\ at[t].copy # d
  BY DEF IInv, TypeOK, Copy, Free
<1>2. Distinct' /\ Cut'
  <2>1. \A e \in Copies : of'[e] # None => \E f \in Copies : of[f] = of'[e]
    BY <1>1
  <2>2. QED
    BY <2>1, LivesKept DEF Copy
<1>3. TypeOK'
  <2>1. of' \in [Copies -> Callbacks \cup {None}]
    BY <1>1 DEF IInv, TypeOK, Copy
  <2>2. QED
    BY <1>1, <2>1 DEF IInv, TypeOK, Copy
<1>4. Apart' /\ Counted'
  BY DEF IInv, Apart, Counted, Copy
<1>5. SoleIsSole'
  BY <1>1 DEF IInv, SoleIsSole, Copy, TypeOK, InHand
<1>6. ReportedLast'
  BY <1>1 DEF IInv, ReportedLast, Held, Copy
<1>7. Hope'
  <2>1. weak' = weak /\ calls' = calls /\ \A e \in Copies : Open(e) => Open(e)'
    BY DEF Copy, Open
  <2>2. \A h \in Callbacks, e \in Copies : of[e] = h => of'[e] = h
    BY <1>1
  <2>3. QED
    BY <2>1, <2>2 DEF IInv, Hope
<1>8. QED
  BY <1>2, <1>3, <1>4, <1>5, <1>6, <1>7 DEF IInv

(* What no copy but d keeps open is lost with d. *)
LEMMA NobodyElse ==
  ASSUME IInv, NEW d \in Copies, of[d] # None, ~LeftToNobody(d)
  PROVE  \E e \in Copies : e # d /\ of[e] = of[d] /\ Open(e)
<1>1. PICK e \in Held(of[d]) \ {d} : \A t \in Threads : at[t] # [place |-> "shared", copy |-> e]
  BY DEF LeftToNobody
<1>2. QED
  BY <1>1 DEF Held, Open

LEMMA AssignKeeps ==
  ASSUME IInv, NEW c \in Copies, NEW d \in Copies, Assign(c, d)
  PROVE  IInv'
<1> USE OwnerAssumption
<1>1. /\ of[c] \in Callbacks /\ of[d] \in Callbacks /\ c # d /\ of'[d] = of[c]
      /\ \A e \in Copies : e # d => of'[e] = of[e]
      /\ \A t \in Threads : at[t].copy # c /\ at[t].copy # d
  BY DEF IInv, TypeOK, Assign, Free
<1>2. Distinct' /\ Cut'
  <2>1. \A e \in Copies : of'[e] # None => \E f \in Copies : of[f] = of'[e]
    BY <1>1
  <2>2. QED
    BY <2>1, LivesKept DEF Assign
<1>3. calls' = [calls EXCEPT ![of[d]].lost =
                  @ \/ (of[c] # of[d] /\ LeftToNobody(d))]
  BY DEF Assign
<1>4. /\ calls' \in [Callbacks -> [ready : BOOLEAN, ran : Nat, reported : Nat, lost : BOOLEAN]]
      /\ \A h \in Callbacks : /\ calls'[h].ready = calls[h].ready
                              /\ calls'[h].ran = calls[h].ran
                              /\ calls'[h].reported = calls[h].reported
                              /\ calls[h].lost => calls'[h].lost
      /\ of[c] # of[d] /\ LeftToNobody(d) => calls'[of[d]].lost
  <2> DEFINE b == calls[of[d]].lost \/ (of[c] # of[d] /\ LeftToNobody(d))
  <2>1. /\ b \in BOOLEAN
        /\ calls[of[d]].lost => b
        /\ of[c] # of[d] /\ LeftToNobody(d) => b
    OBVIOUS
  <2>2. calls' = [calls EXCEPT ![of[d]].lost = b]
    BY <1>3
  <2>3. calls \in [Callbacks -> [ready : BOOLEAN, ran : Nat, reported : Nat, lost : BOOLEAN]]
    BY DEF IInv, TypeOK
  <2> HIDE DEF b
  <2>4. /\ calls'[of[d]] = [calls[of[d]] EXCEPT !.lost = b]
        /\ \A h \in Callbacks : h # of[d] => calls'[h] = calls[h]
    BY <1>1, <2>2, <2>3
  <2>5. calls[of[d]] \in [ready : BOOLEAN, ran : Nat, reported : Nat, lost : BOOLEAN]
    BY <1>1, <2>3
  <2>6. /\ calls'[of[d]].ready = calls[of[d]].ready /\ calls'[of[d]].ran = calls[of[d]].ran
        /\ calls'[of[d]].reported = calls[of[d]].reported /\ calls'[of[d]].lost = b
    BY <2>4, <2>5
  <2>7. calls' \in [Callbacks -> [ready : BOOLEAN, ran : Nat, reported : Nat, lost : BOOLEAN]]
    <3>1. calls'[of[d]] \in [ready : BOOLEAN, ran : Nat, reported : Nat, lost : BOOLEAN]
      BY <2>1, <2>4, <2>5
    <3>2. calls' = [h \in Callbacks |-> calls'[h]]
      BY <1>1, <2>2, <2>3
    <3>3. QED
      BY <2>3, <2>4, <3>1, <3>2
  <2>8. QED
    BY <1>1, <2>1, <2>4, <2>6, <2>7
<1>5. TypeOK'
  <2>1. of' \in [Copies -> Callbacks \cup {None}]
    BY <1>1 DEF IInv, TypeOK, Assign
  <2>2. QED
    BY <1>1, <1>4, <2>1 DEF IInv, TypeOK, Assign
<1>6. Apart' /\ Counted'
  BY <1>4 DEF IInv, Apart, Counted, Assign
<1>7. SoleIsSole'
  BY <1>1 DEF IInv, SoleIsSole, Assign, TypeOK, InHand
<1>8. ReportedLast'
  BY <1>1, <1>4 DEF IInv, ReportedLast, Held, Assign
<1>9. Hope'
  <2>1. ASSUME NEW h \in Callbacks, weak[h] # None
        PROVE  calls'[h].ready \/ calls'[h].lost \/ \E e \in Copies : of'[e] = h /\ Open(e)
    <3>1. CASE h # of[d]
      BY <1>1, <1>4, <2>1, <3>1 DEF IInv, Hope
    <3>2. CASE h = of[d] /\ of[c] = of[d]
      BY <1>1, <3>2 DEF Open
    <3>3. CASE h = of[d] /\ of[c] # of[d]
      BY <1>1, <1>4, <3>3, NobodyElse
    <3>4. QED
      BY <3>1, <3>2, <3>3
  <2>2. weak' = weak /\ \A e \in Copies : Open(e) => Open(e)'
    BY DEF Assign, Open
  <2>3. QED
    BY <2>1, <2>2 DEF Hope
<1>10. QED
  BY <1>2, <1>5, <1>6, <1>7, <1>8, <1>9 DEF IInv

(* A thread goes with copy c to another place that is no destructor's, or  *)
(* takes a free copy there, or gives its copy back.                        *)
LEMMA HandKeeps ==
  ASSUME IInv, NEW t \in Threads, NEW place \in {"locked", "inside", "idle"},
         NEW c \in Copies \cup {None}, (c = None) <=> (place = "idle"),
         at[t].place \in {"idle", "locked", "inside"},
         c # None => of[c] # None /\ \A u \in Threads : at[u].copy = c => u = t,
         Goes(t, place, c), UNCHANGED of
  PROVE  /\ at' \in [Threads -> [place : Places, copy : Copies \cup {None}]]
         /\ Apart' /\ SoleIsSole' /\ \A e \in Copies : Open(e) => Open(e)'
         /\ \A u \in Threads : /\ at'[u].copy # None <=> at'[u].place \in InHand
                               /\ at'[u].copy # None => of'[at'[u].copy] # None
<1> USE OwnerAssumption
<1>1. \A u \in Threads : at'[u] = IF u = t THEN [place |-> place, copy |-> c] ELSE at[u]
  BY DEF IInv, TypeOK, Goes
<1>2. at' \in [Threads -> [place : Places, copy : Copies \cup {None}]]
  BY DEF IInv, TypeOK, Goes, Places
<1>3. Apart'
  BY <1>1 DEF IInv, Apart
<1>4. SoleIsSole'
  BY <1>1 DEF IInv, SoleIsSole
<1>5. \A e \in Copies : Open(e) => Open(e)'
  BY <1>1 DEF Open
<1>6. \A u \in Threads : /\ at'[u].copy # None <=> at'[u].place \in InHand
                         /\ at'[u].copy # None => of'[at'[u].copy] # None
  BY <1>1 DEF IInv, TypeOK, InHand
<1>7. QED
  BY <1>2, <1>3, <1>4, <1>5, <1>6

LEMMA LockKeeps ==
  ASSUME IInv, NEW t \in Threads, NEW c \in Copies, Lock(t, c)
  PROVE  IInv'
<1> USE OwnerAssumption
<1>1. of[c] # None /\ at[t].place = "idle" /\ c # None
      /\ \A u \in Threads : at[u].copy # c
  BY DEF IInv, TypeOK, Lock, Free, Idle
<1>2. /\ at' \in [Threads -> [place : Places, copy : Copies \cup {None}]]
      /\ Apart' /\ SoleIsSole' /\ \A e \in Copies : Open(e) => Open(e)'
      /\ \A u \in Threads : /\ at'[u].copy # None <=> at'[u].place \in InHand
                            /\ at'[u].copy # None => of'[at'[u].copy] # None
  BY <1>1, HandKeeps DEF Lock
<1>3. Distinct' /\ Cut'
  BY LivesKept DEF Lock
<1>4. TypeOK' /\ Counted' /\ ReportedLast' /\ Hope'
  BY <1>2 DEF IInv, TypeOK, Lock, Counted, ReportedLast, Held, Hope
<1>5. QED
  BY <1>2, <1>3, <1>4 DEF IInv

LEMMA ReturnKeeps ==
  ASSUME IInv, NEW t \in Threads, Return(t)
  PROVE  IInv'
<1> USE OwnerAssumption
<1>1. /\ at' \in [Threads -> [place : Places, copy : Copies \cup {None}]]
      /\ Apart' /\ SoleIsSole' /\ \A e \in Copies : Open(e) => Open(e)'
      /\ \A u \in Threads : /\ at'[u].copy # None <=> at'[u].place \in InHand
                            /\ at'[u].copy # None => of'[at'[u].copy] # None
  BY HandKeeps DEF Return
<1>2. Distinct' /\ Cut'
  BY LivesKept DEF Return
<1>3. TypeOK' /\ Counted' /\ ReportedLast' /\ Hope'
  BY <1>1 DEF IInv, TypeOK, Return, Counted, ReportedLast, Held, Hope
<1>4. QED
  BY <1>1, <1>2, <1>3 DEF IInv

LEMMA CallKeeps ==
  ASSUME IInv, NEW t \in Threads, NEW c \in Copies, Call(t, c)
  PROVE  IInv'
<1> USE OwnerAssumption
<1>1. /\ at[t].place = "locked" /\ at[t].copy = c /\ c # None /\ of[c] # None
      /\ \A u \in Threads : at[u].copy = c => u = t
  BY DEF IInv, TypeOK, Call, Apart
<1>2. /\ at' \in [Threads -> [place : Places, copy : Copies \cup {None}]]
      /\ Apart' /\ SoleIsSole' /\ \A e \in Copies : Open(e) => Open(e)'
      /\ \A u \in Threads : /\ at'[u].copy # None <=> at'[u].place \in InHand
                            /\ at'[u].copy # None => of'[at'[u].copy] # None
  BY <1>1, HandKeeps DEF Call
<1>3. Distinct' /\ Cut'
  BY LivesKept DEF Call
<1>4. of[c] \in Callbacks
  BY <1>1 DEF IInv, TypeOK
<1>5. /\ calls' \in [Callbacks -> [ready : BOOLEAN, ran : Nat, reported : Nat, lost : BOOLEAN]]
      /\ \A h \in Callbacks : /\ calls'[h].reported = calls[h].reported
                              /\ calls'[h].lost = calls[h].lost
                              /\ calls[h].ready => calls'[h].ready
                              /\ calls'[h].ran = IF h = of[c] /\ ~calls[h].ready
                                                 THEN calls[h].ran + 1 ELSE calls[h].ran
                              /\ h = of[c] => calls'[h].ready
                              /\ h # of[c] => calls'[h].ready = calls[h].ready
  <2>1. calls \in [Callbacks -> [ready : BOOLEAN, ran : Nat, reported : Nat, lost : BOOLEAN]]
    BY DEF IInv, TypeOK
  <2> DEFINE n == IF calls[of[c]].ready THEN calls[of[c]].ran ELSE calls[of[c]].ran + 1
  <2>2. n \in Nat /\ (n = IF calls[of[c]].ready THEN calls[of[c]].ran ELSE calls[of[c]].ran + 1)
    BY <1>4, <2>1
  <2>3. calls' = [calls EXCEPT ![of[c]].ready = TRUE, ![of[c]].ran = n]
    BY <1>4, <2>1 DEF Call
  <2> HIDE DEF n
  <2>4. calls'[of[c]] = [calls[of[c]] EXCEPT !.ready = TRUE, !.ran = n]
    BY <1>4, <2>1, <2>3
  <2>5. \A h \in Callbacks : h # of[c] => calls'[h] = calls[h]
    BY <2>1, <2>3
  <2>6. calls' \in [Callbacks -> [ready : BOOLEAN, ran : Nat, reported : Nat, lost : BOOLEAN]]
    BY <1>4, <2>1, <2>2, <2>3
  <2>7. calls[of[c]] \in [ready : BOOLEAN, ran : Nat, reported : Nat, lost : BOOLEAN]
    BY <1>4, <2>1
  <2>8. /\ calls'[of[c]].ready /\ calls'[of[c]].ran = n
        /\ calls'[of[c]].reported = calls[of[c]].reported /\ calls'[of[c]].lost = calls[of[c]].lost
    BY <2>4, <2>7
  <2>9. QED
    BY <1>4, <2>2, <2>5, <2>6, <2>8
<1>6. Counted'
  BY <1>5 DEF IInv, TypeOK, Counted
<1>7. TypeOK' /\ ReportedLast' /\ Hope'
  BY <1>2, <1>5 DEF IInv, TypeOK, Call, ReportedLast, Held, Hope
<1>8. QED
  BY <1>2, <1>3, <1>6, <1>7 DEF IInv

LEMMA DestroyKeeps ==
  ASSUME IInv, NEW t \in Threads, NEW c \in Copies, Destroy(t, c)
  PROVE  IInv'
<1> USE OwnerAssumption
<1> DEFINE place == IF IsSole(c) THEN "sole" ELSE "shared"
<1>1. /\ of[c] \in Callbacks /\ at[t] = Idle /\ c # None
      /\ \A u \in Threads : at[u].copy # c
  BY DEF IInv, TypeOK, Destroy, Free
<1>2. \A u \in Threads : at'[u] = IF u = t THEN [place |-> place, copy |-> c] ELSE at[u]
  BY DEF IInv, TypeOK, Destroy, Goes
<1>3. Distinct' /\ Cut'
  BY LivesKept DEF Destroy
<1>4. calls' = [calls EXCEPT ![of[c]].lost = @ \/ (~IsSole(c) /\ LeftToNobody(c))]
  BY DEF Destroy
<1>5. /\ calls' \in [Callbacks -> [ready : BOOLEAN, ran : Nat, reported : Nat, lost : BOOLEAN]]
      /\ \A h \in Callbacks : /\ calls'[h].ready = calls[h].ready
                              /\ calls'[h].ran = calls[h].ran
                              /\ calls'[h].reported = calls[h].reported
                              /\ calls[h].lost => calls'[h].lost
      /\ ~IsSole(c) /\ LeftToNobody(c) => calls'[of[c]].lost
  <2> DEFINE b == calls[of[c]].lost \/ (~IsSole(c) /\ LeftToNobody(c))
  <2>1. /\ b \in BOOLEAN
        /\ calls[of[c]].lost => b
        /\ ~IsSole(c) /\ LeftToNobody(c) => b
    OBVIOUS
  <2>2. calls' = [calls EXCEPT ![of[c]].lost = b]
    BY <1>4
  <2>3. calls \in [Callbacks -> [ready : BOOLEAN, ran : Nat, reported : Nat, lost : BOOLEAN]]
    BY DEF IInv, TypeOK
  <2> HIDE DEF b
  <2>4. /\ calls'[of[c]] = [calls[of[c]] EXCEPT !.lost = b]
        /\ \A h \in Callbacks : h # of[c] => calls'[h] = calls[h]
    BY <1>1, <2>2, <2>3
  <2>5. calls[of[c]] \in [ready : BOOLEAN, ran : Nat, reported : Nat, lost : BOOLEAN]
    BY <1>1, <2>3
  <2>6. /\ calls'[of[c]].ready = calls[of[c]].ready /\ calls'[of[c]].ran = calls[of[c]].ran
        /\ calls'[of[c]].reported = calls[of[c]].reported /\ calls'[of[c]].lost = b
    BY <2>4, <2>5
  <2>7. calls' \in [Callbacks -> [ready : BOOLEAN, ran : Nat, reported : Nat, lost : BOOLEAN]]
    <3>1. calls'[of[c]] \in [ready : BOOLEAN, ran : Nat, reported : Nat, lost : BOOLEAN]
      BY <2>1, <2>4, <2>5
    <3>2. calls' = [h \in Callbacks |-> calls'[h]]
      BY <1>1, <2>2, <2>3
    <3>3. QED
      BY <2>3, <2>4, <3>1, <3>2
  <2>8. QED
    BY <1>1, <2>1, <2>4, <2>6, <2>7
<1>6. TypeOK'
  <2>1. at' \in [Threads -> [place : Places, copy : Copies \cup {None}]]
    BY DEF IInv, TypeOK, Destroy, Goes, Places
  <2>2. \A u \in Threads : /\ at'[u].copy # None <=> at'[u].place \in InHand
                           /\ at'[u].copy # None => of[at'[u].copy] # None
    BY <1>1, <1>2 DEF IInv, TypeOK, InHand
  <2>3. QED
    BY <1>5, <2>1, <2>2 DEF IInv, TypeOK, Destroy
<1>7. Apart'
  BY <1>1, <1>2 DEF IInv, Apart
<1>8. SoleIsSole'
  <2>1. IsSole(c) => \A e \in Copies : of[e] = of[c] => e = c
    BY DEF IsSole, Held
  <2>2. QED
    BY <1>1, <1>2, <2>1 DEF IInv, SoleIsSole, Destroy
<1>9. Counted' /\ ReportedLast'
  BY <1>5 DEF IInv, Counted, ReportedLast, Held, Destroy
<1>10. Hope'
  <2>1. \A e \in Copies : Open(e) /\ (e # c \/ IsSole(c)) => Open(e)'
    BY <1>2 DEF Open
  <2>2. ASSUME NEW h \in Callbacks, weak[h] # None
        PROVE  calls'[h].ready \/ calls'[h].lost \/ \E e \in Copies : of[e] = h /\ Open(e)'
    <3>1. CASE h # of[c] \/ IsSole(c)
      BY <1>5, <2>1, <2>2, <3>1 DEF IInv, Hope
    <3>2. CASE h = of[c] /\ ~IsSole(c)
      BY <1>1, <1>5, <2>1, <3>2, NobodyElse
    <3>3. QED
      BY <3>1, <3>2
  <2>3. QED
    BY <2>2 DEF Hope, Destroy
<1>11. QED
  BY <1>3, <1>6, <1>7, <1>8, <1>9, <1>10 DEF IInv

LEMMA DestroyedKeeps ==
  ASSUME IInv, NEW t \in Threads, NEW c \in Copies, Destroyed(t, c)
  PROVE  IInv'
<1> USE OwnerAssumption
<1>1. /\ of[c] \in Callbacks /\ at[t].copy = c /\ c # None
      /\ at[t].place \in {"sole", "shared"}
      /\ \A u \in Threads : at[u].copy = c => u = t
  BY DEF IInv, TypeOK, Destroyed, Apart
<1>2. /\ \A u \in Threads : at'[u] = IF u = t THEN [place |-> "idle", copy |-> None] ELSE at[u]
      /\ of'[c] = None /\ \A e \in Copies : e # c => of'[e] = of[e]
  BY DEF IInv, TypeOK, Destroyed, Goes
<1>3. Distinct' /\ Cut'
  BY <1>2, LivesKept DEF Destroyed
<1>4. /\ calls' \in [Callbacks -> [ready : BOOLEAN, ran : Nat, reported : Nat, lost : BOOLEAN]]
      /\ \A h \in Callbacks :
           /\ calls[h].ready => calls'[h].ready /\ calls'[h] = calls[h]
           /\ calls'[h].lost = calls[h].lost
           /\ h # of[c] => calls'[h] = calls[h]
           /\ at[t].place # "sole" => calls'[h] = calls[h]
           /\ at[t].place = "sole" /\ h = of[c] => calls'[h].ready
           /\ calls'[h].ran + calls'[h].reported = IF calls'[h].ready THEN 1 ELSE 0
  BY <1>1 DEF IInv, TypeOK, Counted, Destroyed
<1>5. at[t].place = "sole" => \A e \in Copies : of[e] = of[c] => e = c
  BY <1>1 DEF IInv, SoleIsSole
<1>6. TypeOK'
  <2>1. at' \in [Threads -> [place : Places, copy : Copies \cup {None}]]
    BY DEF IInv, TypeOK, Destroyed, Goes, Places
  <2>2. \A u \in Threads : /\ at'[u].copy # None <=> at'[u].place \in InHand
                           /\ at'[u].copy # None => of'[at'[u].copy] # None
    BY <1>1, <1>2 DEF IInv, TypeOK, InHand
  <2>3. of' \in [Copies -> Callbacks \cup {None}]
    BY DEF IInv, TypeOK, Destroyed
  <2>4. QED
    BY <1>2, <1>4, <2>1, <2>2, <2>3 DEF IInv, TypeOK, Destroyed
<1>7. Apart'
  BY <1>1, <1>2 DEF IInv, Apart
<1>8. SoleIsSole'
  <2>1. ASSUME NEW u \in Threads, at'[u].place = "sole", NEW e \in Copies,
               of'[e] = of'[at'[u].copy]
        PROVE  e = at'[u].copy
    <3>1. u # t /\ at'[u] = at[u] /\ at[u].copy # c
      BY <2>1, <1>1, <1>2
    <3>2. at[u].copy \in Copies /\ of[at[u].copy] # None
      BY <2>1, <3>1 DEF IInv, TypeOK, InHand
    <3>3. QED
      BY <2>1, <3>1, <3>2, <1>2 DEF IInv, SoleIsSole
  <2>2. QED
    BY <2>1 DEF SoleIsSole
<1>9. Counted'
  BY <1>4 DEF Counted
<1>10. ReportedLast'
  <2>1. ASSUME NEW h \in Callbacks, calls'[h].reported > 0, NEW e \in Copies, of'[e] = h
        PROVE  FALSE
    <3>1. e # c /\ of[e] = h
      BY <2>1, <1>2
    <3>2. calls[h].reported > 0 => FALSE
      BY <3>1 DEF IInv, ReportedLast, Held
    <3>3. calls'[h] # calls[h]
      BY <2>1, <3>2
    <3>4. h = of[c] /\ at[t].place = "sole"
      BY <3>3, <1>4
    <3>5. QED
      BY <3>1, <3>4, <1>5
  <2>2. QED
    BY <2>1 DEF ReportedLast, Held
<1>11. Hope'
  <2>1. \A e \in Copies : Open(e) => Open(e)'
    BY <1>2 DEF Open
  <2>2. at[t].place = "shared" => ~Open(c)
    BY <1>1 DEF IInv, TypeOK, Open
  <2>3. ASSUME NEW h \in Callbacks, weak[h] # None
        PROVE  calls'[h].ready \/ calls'[h].lost \/ \E e \in Copies : of'[e] = h /\ Open(e)'
    <3>1. CASE h = of[c] /\ at[t].place = "sole"
      BY <1>4, <3>1
    <3>2. CASE h # of[c] \/ at[t].place = "shared"
      BY <1>1, <1>2, <1>4, <2>1, <2>2, <2>3, <3>2 DEF IInv, Hope
    <3>3. QED
      BY <1>1, <3>1, <3>2
  <2>4. QED
    BY <2>3 DEF Hope, Destroyed
<1>12. QED
  BY <1>3, <1>6, <1>7, <1>8, <1>9, <1>10, <1>11 DEF IInv
-----------------------------------------------------------------------------
THEOREM Invariance == Spec => []IInv
<1>1. Init => IInv
  <2> SUFFICES ASSUME Init PROVE IInv
    OBVIOUS
  <2> USE OwnerAssumption DEF Init, Idle, Uncalled
  <2>1. TypeOK
    BY DEF TypeOK, Places, InHand
  <2>2. Apart /\ SoleIsSole
    BY DEF Apart, SoleIsSole
  <2>3. Counted /\ ReportedLast
    BY DEF Counted, ReportedLast
  <2>4. Hope /\ Distinct /\ Cut
    BY DEF Hope, Distinct, Cut
  <2>5. QED
    BY <2>1, <2>2, <2>3, <2>4 DEF IInv
<1>2. IInv /\ [Next]_vars => IInv'
  <2> SUFFICES ASSUME IInv, [Next]_vars PROVE IInv'
    OBVIOUS
  <2>1. ASSUME NEW h \in Callbacks, NEW c \in Copies, Wrap(h, c) PROVE IInv'
    BY <2>1, WrapKeeps
  <2>2. ASSUME NEW h \in Callbacks, NEW c \in Copies, NEW id \in Ids, Tracking(h, c, id)
        PROVE  IInv'
    BY <2>2, TrackingKeeps
  <2>3. CASE Reset
    BY <2>3, ResetKeeps
  <2>4. ASSUME NEW t \in Threads, NEW value \in BOOLEAN, EnableTracking(t, value)
        PROVE  IInv'
    <3>1. TypeOK' /\ Apart' /\ SoleIsSole' /\ Counted' /\ ReportedLast' /\ Hope'
      BY <2>4, OwnerStepKeeps DEF IInv, TypeOK, EnableTracking, Idle
    <3>2. Distinct' /\ Cut'
      BY <2>4, LivesKept DEF EnableTracking
    <3>3. QED
      BY <3>1, <3>2 DEF IInv
  <2>5. ASSUME NEW t \in Threads, ClearTracking(t) PROVE IInv'
    BY <2>5, ForgetKeeps DEF ClearTracking
  <2>6. ASSUME NEW t \in Threads, ReleaseTracking(t) PROVE IInv'
    <3>1. TypeOK' /\ Apart' /\ SoleIsSole' /\ Counted' /\ ReportedLast' /\ Hope'
      BY <2>6, OwnerStepKeeps DEF IInv, TypeOK, ReleaseTracking, Idle
    <3>2. Distinct' /\ Cut'
      BY <2>6, LivesKept DEF ReleaseTracking
    <3>3. QED
      BY <3>1, <3>2 DEF IInv
  <2>7. ASSUME NEW t \in Threads, NEW id \in Ids, Release(t, id) PROVE IInv'
    BY <2>7, ForgetKeeps DEF Release
  <2>8. ASSUME NEW c \in Copies, NEW d \in Copies, Copy(c, d) \/ Assign(c, d) PROVE IInv'
    BY <2>8, CopyKeeps, AssignKeeps
  <2>9. ASSUME NEW t \in Threads, NEW c \in Copies,
               Lock(t, c) \/ Call(t, c) \/ Destroy(t, c) \/ Destroyed(t, c)
        PROVE  IInv'
    BY <2>9, LockKeeps, CallKeeps, DestroyKeeps, DestroyedKeeps
  <2>10. ASSUME NEW t \in Threads, Return(t) PROVE IInv'
    BY <2>10, ReturnKeeps
  <2>11. CASE UNCHANGED vars
    BY <2>11 DEF vars, IInv, TypeOK, Apart, SoleIsSole, Counted, ReportedLast,
       Held, Hope, Open, Distinct, Cut
  <2>12. QED
    BY <2>1, <2>2, <2>3, <2>4, <2>5, <2>6, <2>7, <2>8, <2>9, <2>10, <2>11
    DEF Next, OwnerNext, CallbackNext
<1>3. QED
  BY <1>1, <1>2, PTL DEF Spec

(* Threads have at most one copy in hand, and only copies that exist.      *)
THEOREM TypeCorrect == Spec => []TypeOK
BY Invariance, PTL DEF IInv

(* A callback runs or is reported as not called, and only once.            *)
THEOREM AnsweredOnceHolds == Spec => []AnsweredOnce
<1>1. IInv => AnsweredOnce
  BY DEF IInv, TypeOK, Counted, AnsweredOnce
<1>2. QED
  BY <1>1, Invariance, PTL

(* No copy is left of a callback that is reported as not called.           *)
THEOREM ReportedLastHolds == Spec => []ReportedLast
BY Invariance, PTL DEF IInv

(* A callback whose copies are gone is answered, but for the two ways of   *)
(* losing the last one.                                                    *)
THEOREM AnsweredHolds == Spec => []Answered
<1>1. IInv => Answered
  BY DEF IInv, TypeOK, Hope, Counted, Answered, Held
<1>2. QED
  BY <1>1, Invariance, PTL

(* The owner's reset and release are final: only a call under way keeps a  *)
(* life that was ended.                                                    *)
THEOREM LifeEndsHolds == Spec => []LifeEnds
<1>1. IInv => LifeEnds
  BY DEF IInv, Cut, LifeEnds, Held, Alive
<1>2. QED
  BY <1>1, Invariance, PTL
=============================================================================
