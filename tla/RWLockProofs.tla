---------------------------- MODULE RWLockProofs ----------------------------
(***************************************************************************)
(* Proofs about RWLock, for every finite set of threads and every number   *)
(* of calls.  The inductive invariant is the conjunction of the type, the  *)
(* counters, the exclusion and the notification owed to each sleeper: the  *)
(* predicates read the counters, so exclusion needs the counters to be     *)
(* exact, and a sleeper is owed a wake-up because a counter that is not 0  *)
(* has a holder behind it.                                                 *)
(***************************************************************************)
EXTENDS RWLock, FiniteSetTheorems, TLAPS

States == {"idle"} \cup Awake \cup Sleeping \cup Holding

(* The threads that p puts at s. *)
Those(p, s) == {t \in Threads : p[t] = s}

LEMMA Finite ==
  ASSUME NEW p, NEW s
  PROVE  /\ IsFiniteSet(Those(p, s))
         /\ Cardinality(Those(p, s)) \in Nat
         /\ Cardinality(Those(p, s)) = 0 <=> Those(p, s) = {}
<1>1. Those(p, s) \in SUBSET Threads
  BY DEF Those
<1>2. IsFiniteSet(Those(p, s))
  BY <1>1, FS_Subset, RWLockBounds
<1> QED
  BY <1>2, FS_CardinalityType, FS_EmptySet

(* One thread comes to s, and the others are there or not as before. *)
LEMMA Enters ==
  ASSUME NEW p, NEW q, NEW s, NEW t \in Threads,
         p[t] # s, q[t] = s,
         \A u \in Threads \ {t} : q[u] = s <=> p[u] = s
  PROVE  Cardinality(Those(q, s)) = Cardinality(Those(p, s)) + 1
<1>1. Those(q, s) = Those(p, s) \cup {t} /\ t \notin Those(p, s)
  BY DEF Those
<1>2. IsFiniteSet(Those(p, s))
  BY Finite
<1>3. Cardinality(Those(p, s) \cup {t}) = Cardinality(Those(p, s)) + 1
  BY <1>1, <1>2, FS_AddElement
<1> QED
  BY <1>1, <1>3

(* One thread leaves s, and the others are there or not as before. *)
LEMMA Leaves ==
  ASSUME NEW p, NEW q, NEW s, NEW t \in Threads,
         p[t] = s, q[t] # s,
         \A u \in Threads \ {t} : q[u] = s <=> p[u] = s
  PROVE  Cardinality(Those(q, s)) = Cardinality(Those(p, s)) - 1
<1>1. Those(q, s) = Those(p, s) \ {t} /\ t \in Those(p, s)
  BY DEF Those
<1> QED
  BY <1>1, Finite, FS_RemoveElement

(* A notification moves sleepers to awake states and no one else. *)
LEMMA NotifiedFacts ==
  ASSUME NEW p \in [Threads -> States], NEW W \in SUBSET Sleeping
  PROVE  /\ Notified(p, W) \in [Threads -> States]
         /\ \A u \in Threads :
              /\ Notified(p, W)[u] \notin W
              /\ p[u] \notin W => Notified(p, W)[u] = p[u]
              /\ p[u] \in W => Notified(p, W)[u] \in Awake
BY DEF Notified, States, Awake, Sleeping, Holding

(* The part of the invariant that speaks of the places p and the counters  *)
(* r and w.                                                                *)
Good(p, r, w) ==
  /\ p \in [Threads -> States]
  /\ r = Cardinality(Those(p, "reads"))
  /\ w = Cardinality(Those(p, "writes"))
  /\ \A t, u \in Threads : p[t] = "writes" /\ u # t => p[u] \notin Holding
  /\ \A t \in Threads :
       /\ p[t] = "sleepWrite" => \E u \in Threads : p[u] \in Holding
       /\ p[t] = "sleepRead" => \E u \in Threads : p[u] = "writes"

(* A counter that is 0 has no holder behind it, any other has one. *)
LEMMA Holders ==
  ASSUME NEW p, NEW r, NEW w, Good(p, r, w)
  PROVE  /\ r \in Nat /\ w \in Nat
         /\ r = 0 <=> \A u \in Threads : p[u] # "reads"
         /\ w = 0 <=> \A u \in Threads : p[u] # "writes"
<1>1. \A s \in {"reads", "writes"} :
        Cardinality(Those(p, s)) = 0 <=> \A u \in Threads : p[u] # s
  BY Finite DEF Those
<1> QED
  BY <1>1, Finite DEF Good

(* A thread moves between two places that hold nothing. *)
LEMMA Moves ==
  ASSUME NEW p, NEW r, NEW w, Good(p, r, w), NEW t \in Threads,
         NEW s \in States \ Holding, p[t] \notin Holding,
         s = "sleepWrite" => \E u \in Threads : p[u] \in Holding,
         s = "sleepRead" => \E u \in Threads : p[u] = "writes"
  PROVE  Good([p EXCEPT ![t] = s], r, w)
<1> DEFINE q == [p EXCEPT ![t] = s]
<1>1. q \in [Threads -> States] /\ q[t] = s
      /\ \A u \in Threads : u # t => q[u] = p[u]
  BY DEF Good
<1>2. \A u \in Threads : /\ q[u] = "reads" <=> p[u] = "reads"
                         /\ q[u] = "writes" <=> p[u] = "writes"
  BY <1>1 DEF Holding
<1>3. Those(q, "reads") = Those(p, "reads") /\ Those(q, "writes") = Those(p, "writes")
  BY <1>2 DEF Those
<1> HIDE DEF q
<1>4. r = Cardinality(Those(q, "reads")) /\ w = Cardinality(Those(q, "writes"))
  BY <1>3 DEF Good
<1>5. \A v, u \in Threads : q[v] = "writes" /\ u # v => q[u] \notin Holding
  BY <1>2 DEF Good, Holding
<1>6. \A v \in Threads :
        /\ q[v] = "sleepWrite" => \E u \in Threads : q[u] \in Holding
        /\ q[v] = "sleepRead" => \E u \in Threads : q[u] = "writes"
  BY <1>1, <1>2 DEF Good, Holding
<1> QED
  BY <1>1, <1>4, <1>5, <1>6 DEF Good, q

(* lock succeeds. *)
LEMMA Writes ==
  ASSUME NEW p, Good(p, 0, 0), NEW t \in Threads, p[t] = "wantWrite"
  PROVE  Good([p EXCEPT ![t] = "writes"], 0, 1)
<1> DEFINE q == [p EXCEPT ![t] = "writes"]
<1>1. q \in [Threads -> States] /\ q[t] = "writes"
      /\ \A u \in Threads : u # t => q[u] = p[u]
  BY DEF Good, States, Holding
<1>2. \A u \in Threads : p[u] \notin Holding
  BY Holders DEF Holding
<1> HIDE DEF q
<1>3. Those(q, "reads") = Those(p, "reads")
  BY <1>1 DEF Those
<1>4. Cardinality(Those(q, "writes")) = Cardinality(Those(p, "writes")) + 1
  BY <1>1, Enters
<1>5. 0 = Cardinality(Those(q, "reads")) /\ 1 = Cardinality(Those(q, "writes"))
  BY <1>3, <1>4 DEF Good
<1>6. \A v, u \in Threads : q[v] = "writes" /\ u # v => q[u] \notin Holding
  BY <1>1, <1>2 DEF Holding
<1>7. \A v \in Threads : q[v] \notin Sleeping
  BY <1>1, <1>2 DEF Good, Sleeping, Holding
<1> QED
  BY <1>1, <1>5, <1>6, <1>7 DEF Good, q, Sleeping

(* lock_r succeeds. *)
LEMMA Reads ==
  ASSUME NEW p, NEW r, Good(p, r, 0), NEW t \in Threads, p[t] = "wantRead"
  PROVE  Good([p EXCEPT ![t] = "reads"], r + 1, 0)
<1> DEFINE q == [p EXCEPT ![t] = "reads"]
<1>1. q \in [Threads -> States] /\ q[t] = "reads"
      /\ \A u \in Threads : u # t => q[u] = p[u]
  BY DEF Good, States, Holding
<1>2. \A u \in Threads : p[u] # "writes"
  BY Holders
<1> HIDE DEF q
<1>3. Those(q, "writes") = Those(p, "writes")
  BY <1>1 DEF Those
<1>4. Cardinality(Those(q, "reads")) = Cardinality(Those(p, "reads")) + 1
  BY <1>1, Enters
<1>5. r + 1 = Cardinality(Those(q, "reads")) /\ 0 = Cardinality(Those(q, "writes"))
  BY <1>3, <1>4 DEF Good
<1>6. \A v \in Threads : q[v] # "writes" /\ q[v] # "sleepRead"
  BY <1>1, <1>2 DEF Good
<1>7. q[t] \in Holding
  BY <1>1 DEF Holding
<1> QED
  BY <1>1, <1>5, <1>6, <1>7 DEF Good, q

(* unlock: the writer was alone and all sleepers wake. *)
LEMMA StopsWriting ==
  ASSUME NEW p, NEW r, NEW w, Good(p, r, w), NEW t \in Threads, p[t] = "writes"
  PROVE  /\ w = 1
         /\ Good(Notified([p EXCEPT ![t] = "idle"], Sleeping), r, 0)
<1> DEFINE i == [p EXCEPT ![t] = "idle"]
           q == Notified(i, Sleeping)
<1>1. i \in [Threads -> States] /\ i[t] = "idle"
      /\ \A u \in Threads : u # t => i[u] = p[u]
  BY DEF Good, States
<1> HIDE DEF i
<1>2. /\ q \in [Threads -> States]
      /\ \A u \in Threads : /\ q[u] \notin Sleeping
                            /\ i[u] \notin Sleeping => q[u] = i[u]
                            /\ i[u] \in Sleeping => q[u] \in Awake
  BY <1>1, NotifiedFacts
<1> HIDE DEF q
<1>3. \A u \in Threads : u # t => p[u] \notin Holding
  BY DEF Good
<1>4. \A u \in Threads : q[u] \notin Holding
  BY <1>1, <1>2, <1>3 DEF Holding, Sleeping, Awake
<1>5. Those(q, "reads") = {} /\ Those(q, "writes") = {} /\ Those(p, "reads") = {}
  BY <1>3, <1>4 DEF Those, Holding
<1>6. Those(p, "writes") = {} \cup {t}
  BY <1>3 DEF Those, Holding
<1>7. w = 1
  <2>1. IsFiniteSet({}) /\ Cardinality({}) = 0 /\ t \notin {}
    BY FS_EmptySet
  <2>2. Cardinality({} \cup {t}) = Cardinality({}) + 1
    BY <2>1, FS_AddElement
  <2> QED
    BY <1>6, <2>1, <2>2 DEF Good
<1>8. r = Cardinality(Those(q, "reads")) /\ 0 = Cardinality(Those(q, "writes"))
  BY <1>5, FS_EmptySet DEF Good
<1>9. Good(q, r, 0)
  BY <1>2, <1>4, <1>8 DEF Good, Holding, Sleeping
<1> QED
  BY <1>7, <1>9 DEF q, i

(* unlock_r: another reader remains, or the sleeping writers wake. *)
LeftBy(p, r, t) ==
  LET i == [p EXCEPT ![t] = "idle"]
  IN  IF r - 1 = 0 THEN Notified(i, {"sleepWrite"}) ELSE i

LEMMA StopsReading ==
  ASSUME NEW p, NEW r, NEW w, Good(p, r, w), NEW t \in Threads, p[t] = "reads",
         NEW q, q = LeftBy(p, r, t)
  PROVE  r # 0 /\ Good(q, r - 1, w)
<1> DEFINE i == [p EXCEPT ![t] = "idle"]
           n == Notified(i, {"sleepWrite"})
<1>1. i \in [Threads -> States] /\ i[t] = "idle"
      /\ \A u \in Threads : u # t => i[u] = p[u]
  BY DEF Good, States
<1>2. q = IF r - 1 = 0 THEN n ELSE i
  BY DEF LeftBy
<1> HIDE DEF i
<1>3. /\ n \in [Threads -> States]
      /\ \A u \in Threads : /\ n[u] # "sleepWrite"
                            /\ i[u] # "sleepWrite" => n[u] = i[u]
                            /\ i[u] = "sleepWrite" => n[u] \in Awake
  BY <1>1, NotifiedFacts DEF Sleeping
<1> HIDE DEF n
<1>4. q \in [Threads -> States]
  BY <1>1, <1>2, <1>3
<1>5. \A u \in Threads : /\ i[u] \in Holding <=> n[u] \in Holding
                         /\ n[u] \in Holding => n[u] = i[u]
                         /\ n[u] = "sleepRead" <=> i[u] = "sleepRead"
  BY <1>3 DEF Holding, Awake
<1>6. q[t] = "idle"
  BY <1>1, <1>2, <1>3
<1>7. \A u \in Threads \ {t} : /\ q[u] = "reads" <=> p[u] = "reads"
                               /\ q[u] = "sleepRead" <=> p[u] = "sleepRead"
  BY <1>1, <1>2, <1>5 DEF Holding
<1>8. \A u \in Threads : p[u] # "writes"
  BY DEF Good, Holding
<1>9. \A u \in Threads : q[u] # "writes"
  BY <1>1, <1>2, <1>5, <1>8 DEF Holding
<1>10. Cardinality(Those(q, "reads")) = r - 1
  <2>1. q[t] # "reads" /\ \A u \in Threads \ {t} : q[u] = "reads" <=> p[u] = "reads"
    BY <1>6, <1>7
  <2>2. Cardinality(Those(q, "reads")) = Cardinality(Those(p, "reads")) - 1
    BY <2>1, Leaves
  <2> QED
    BY <2>2 DEF Good
<1>11. r \in Nat /\ r # 0
  BY Holders
<1>12. Those(q, "writes") = Those(p, "writes")
  BY <1>8, <1>9 DEF Those
<1>13. \A v \in Threads : q[v] # "sleepRead"
  BY <1>6, <1>7, <1>8 DEF Good
<1>14. ASSUME NEW v \in Threads, q[v] = "sleepWrite"
       PROVE  \E u \in Threads : q[u] \in Holding
  <2>1. r - 1 # 0
    BY <1>2, <1>3, <1>14
  <2>2. Those(q, "reads") # {}
    BY <2>1, <1>10, Finite
  <2> QED
    BY <2>2 DEF Those, Holding
<1> QED
  BY <1>4, <1>9, <1>10, <1>11, <1>12, <1>13, <1>14 DEF Good

-----------------------------------------------------------------------------
IInv == LockTypeOK /\ Counted /\ Exclusion /\ Owed

LEMMA IInvIsGood == IInv <=> /\ Good(pc, readers, writer) /\ ~aborted
                             /\ aborted \in BOOLEAN
                             /\ readers \in Nat /\ writer \in Nat
                             /\ calls \in 0 .. MaxCalls
BY DEF IInv, LockTypeOK, Counted, Exclusion, Owed, Good, States, At, Those

LEMMA IInvIsGoodNext ==
  (Good(pc, readers, writer) /\ ~aborted
   /\ aborted \in BOOLEAN /\ calls \in 0 .. MaxCalls)' => IInv'
<1> SUFFICES ASSUME Good(pc', readers', writer'), ~aborted', aborted' \in BOOLEAN,
                    calls' \in 0 .. MaxCalls
             PROVE  IInv'
  BY DEF Good, Those
<1>1. readers' \in Nat /\ writer' \in Nat
  BY Holders
<1> QED
  BY <1>1 DEF IInv, LockTypeOK, Counted, Exclusion, Owed, Good, States, At, Those

LEMMA InitEstablishes == LockInit => IInv
<1> SUFFICES ASSUME LockInit PROVE IInv
  OBVIOUS
<1>1. Those(pc, "reads") = {} /\ Those(pc, "writes") = {}
  BY DEF LockInit, Those
<1>2. Good(pc, readers, writer)
  BY <1>1, FS_EmptySet DEF LockInit, Good, States, Holding
<1>3. calls \in 0 .. MaxCalls /\ readers \in Nat /\ writer \in Nat
  BY RWLockBounds DEF LockInit
<1>4. ~aborted /\ aborted \in BOOLEAN
  BY DEF LockInit
<1> QED
  BY <1>2, <1>3, <1>4, IInvIsGood

LEMMA StepPreserves == IInv /\ [LockNext]_lockvars => IInv'
<1> SUFFICES ASSUME IInv, [LockNext]_lockvars
             PROVE  /\ Good(pc', readers', writer') /\ ~aborted'
                    /\ aborted' \in BOOLEAN /\ calls' \in 0 .. MaxCalls
  BY IInvIsGoodNext DEF Good, Those
<1>1. /\ Good(pc, readers, writer) /\ ~aborted /\ aborted \in BOOLEAN
      /\ readers \in Nat /\ writer \in Nat /\ calls \in 0 .. MaxCalls
      /\ pc \in [Threads -> States]
  BY IInvIsGood, Holders DEF Good
<1>2. CASE UNCHANGED lockvars
  BY <1>1, <1>2 DEF lockvars
<1>3. ASSUME NEW t \in Threads, Call(t)
      PROVE  Good(pc', readers', writer') /\ UNCHANGED aborted
             /\ calls' \in 0 .. MaxCalls
  <2>1. PICK w \in Awake : pc' = [pc EXCEPT ![t] = w]
    BY <1>3 DEF Call
  <2>2. w \in States \ Holding /\ w \notin Sleeping /\ pc[t] \notin Holding
    BY <1>3 DEF Call, States, Awake, Holding, Sleeping
  <2>3. Good(pc', readers, writer)
    BY <1>1, <2>1, <2>2, Moves DEF Sleeping
  <2> QED
    BY <1>1, <1>3, <2>3, RWLockBounds DEF Call
<1>4. ASSUME NEW t \in Threads, Lock(t)
      PROVE  Good(pc', readers', writer') /\ ~aborted' /\ aborted' \in BOOLEAN
             /\ UNCHANGED calls
  <2>1. CASE writer = 0 /\ readers = 0
    BY <1>1, <1>4, <2>1, Writes DEF Lock
  <2>2. CASE ~(writer = 0 /\ readers = 0)
    <3>1. \E u \in Threads : pc[u] \in Holding
      BY <1>1, <2>2, Holders DEF Holding
    <3>2. "sleepWrite" \in States \ Holding /\ pc[t] \notin Holding
      BY <1>4 DEF Lock, States, Sleeping, Holding
    <3>3. Good([pc EXCEPT ![t] = "sleepWrite"], readers, writer)
      BY <1>1, <3>1, <3>2, Moves
    <3> QED
      BY <1>1, <1>4, <2>2, <3>3 DEF Lock
  <2> QED
    BY <2>1, <2>2
<1>5. ASSUME NEW t \in Threads, LockR(t)
      PROVE  Good(pc', readers', writer') /\ UNCHANGED <<aborted, calls>>
  <2>1. CASE writer = 0
    BY <1>1, <1>5, <2>1, Reads DEF LockR
  <2>2. CASE writer # 0
    <3>1. \E u \in Threads : pc[u] = "writes"
      BY <1>1, <2>2, Holders
    <3>2. "sleepRead" \in States \ Holding /\ pc[t] \notin Holding
      BY <1>5 DEF LockR, States, Sleeping, Holding
    <3>3. Good([pc EXCEPT ![t] = "sleepRead"], readers, writer)
      BY <1>1, <3>1, <3>2, Moves
    <3> QED
      BY <1>5, <2>2, <3>3 DEF LockR
  <2> QED
    BY <2>1, <2>2
<1>6. ASSUME NEW t \in Threads, Unlock(t)
      PROVE  Good(pc', readers', writer') /\ ~aborted' /\ aborted' \in BOOLEAN
             /\ UNCHANGED calls
  <2>1. /\ writer = 1
        /\ Good(Notified([pc EXCEPT ![t] = "idle"], Sleeping), readers, 0)
    BY <1>1, <1>6, StopsWriting DEF Unlock
  <2> QED
    BY <1>1, <1>6, <2>1 DEF Unlock
<1>7. ASSUME NEW t \in Threads, UnlockR(t)
      PROVE  Good(pc', readers', writer') /\ ~aborted' /\ aborted' \in BOOLEAN
             /\ UNCHANGED calls
  <2>1. pc' = LeftBy(pc, readers, t)
    BY <1>7 DEF UnlockR, LeftBy
  <2>2. readers # 0 /\ Good(pc', readers - 1, writer)
    BY <1>1, <1>7, <2>1, StopsReading DEF UnlockR
  <2> QED
    BY <1>1, <1>7, <2>2 DEF UnlockR
<1>8. ASSUME NEW t \in Threads, Spurious(t)
      PROVE  Good(pc', readers', writer') /\ UNCHANGED <<aborted, calls>>
  <2>1. Notified(pc, Sleeping)[t] \in Awake
    BY <1>1, <1>8, NotifiedFacts DEF Spurious
  <2> DEFINE a == Notified(pc, Sleeping)[t]
  <2>2. a \in States \ Holding /\ a \notin Sleeping /\ pc[t] \notin Holding
    BY <1>8, <2>1 DEF Spurious, States, Awake, Holding, Sleeping
  <2>3. pc' = [pc EXCEPT ![t] = a]
    BY <1>8 DEF Spurious
  <2> HIDE DEF a
  <2>4. Good(pc', readers, writer)
    BY <1>1, <2>2, <2>3, Moves DEF Sleeping
  <2> QED
    BY <1>8, <2>4 DEF Spurious
<1> QED
  BY <1>1, <1>2, <1>3, <1>4, <1>5, <1>6, <1>7, <1>8 DEF LockNext

THEOREM Invariance == LockSpec => []IInv
BY InitEstablishes, StepPreserves, PTL DEF LockSpec

(* Type correctness of the lock. *)
THEOREM TypeCorrect == LockSpec => []LockTypeOK
BY Invariance, PTL DEF IInv

(* The counters are exact and no abort() of rwlock is reached. *)
THEOREM CountedHolds == LockSpec => []Counted
BY Invariance, PTL DEF IInv

(* A thread that holds the lock for writing is alone. *)
THEOREM ExclusionHolds == LockSpec => []Exclusion
BY Invariance, PTL DEF IInv

(* No sleeper is without a holder that will notify it. *)
THEOREM OwedHolds == LockSpec => []Owed
BY Invariance, PTL DEF IInv
=============================================================================
